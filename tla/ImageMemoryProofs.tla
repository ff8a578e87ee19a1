-------------------------- MODULE ImageMemoryProofs --------------------------
(***************************************************************************)
(* Proofs about ImageMemory, for any number of addresses: at every place   *)
(* of the program the used blocks are those that its live pointers hold    *)
(* and those in the pools, each held once.                                 *)
(***************************************************************************)
EXTENDS ImageMemory, TLAPS

\* The pointers whose block is live, at each place of a command.  While a row
\* is written and the image finished newbuffer is the one that owns the
\* buffer, and the pointer of the caller is not among them.
HeldAt ==
  [prompt         |-> {},
   data           |-> {"img"},
   reverse        |-> {"img", "data"},
   copy           |-> {"img", "data", "temp"},
   deleteTemp     |-> {"img", "data", "temp"},
   sendImage      |-> {"img", "data"},
   createCompress |-> {"img", "data"},
   memDest        |-> {"img", "data", "mem"},
   initialBuffer  |-> {"img", "data", "mem"},
   setDefaults    |-> {"img", "data", "mem", "newbuffer"},
   startCompress  |-> {"img", "data", "mem", "newbuffer", "rowData"},
   scan           |-> {"img", "data", "mem", "newbuffer", "rowData"},
   finishCompress |-> {"img", "data", "mem", "newbuffer"},
   destroyCompress |-> {"img", "data", "mem", "tmpBuffer"},
   alignedAlloc   |-> {"img", "data", "tmpBuffer"},
   copyJpeg       |-> {"img", "data", "tmpBuffer", "imgData"},
   freeTmp        |-> {"img", "data", "tmpBuffer", "imgData"},
   copyRaw        |-> {"img", "data", "imgData"},
   newBuff        |-> {"img", "data", "imgData"},
   pack           |-> {"img", "data", "imgData", "buff"},
   sendData       |-> {"img", "data", "imgData", "buff"},
   deleteBuff     |-> {"img", "data", "imgData", "buff"},
   freeImgData    |-> {"img", "data", "imgData"},
   deleteData     |-> {"img", "data"},
   deleteImg      |-> {"img"}]

Places == DOMAIN HeldAt

\* Where the JPEG object has pools, and where its destination has a buffer.
PoolPlaces ==
  {"initialBuffer", "setDefaults", "startCompress", "scan", "finishCompress",
   "destroyCompress"}
BufferPlaces == {"setDefaults", "startCompress", "scan", "finishCompress"}

\* Nothing looks whether these got a block.
MayBeNull == {"rowData", "imgData"}

HeapTypeOK ==
  /\ pc \in Places \union Ends
  /\ heap \in [Addresses -> {"unused", "new", "newArray", "malloc"}]
  /\ ptr \in [Pointers -> Addresses \union {NULL}]
  /\ pools \in [Pools -> SUBSET Addresses]

\* Each of these pointers has a block of its kind, and one of its own.
HeldLive(held) ==
  \A p \in held :
    /\ ptr[p] = NULL => p \in MayBeNull
    /\ ptr[p] # NULL => heap[ptr[p]] = Operation[p]

HeldDistinct(held) ==
  \A p, q \in held : ptr[p] # NULL /\ ptr[p] = ptr[q] => p = q

\* The blocks of the pools are theirs alone.
PooledLive ==
  \A pool \in Pools : \A a \in pools[pool] : heap[a] = "malloc"

PooledApart(held) ==
  \A pool \in Pools : \A p \in held : ptr[p] \notin pools[pool]

PoolsDisjoint ==
  \A a \in pools["permanent"] : a \notin pools["image"]

\* No other block is in use.
AllHeld(held) ==
  \A a \in Addresses :
    Free(a) \/ (\E p \in held : ptr[p] = a)
            \/ (\E pool \in Pools : a \in pools[pool])

Owned(held) ==
  /\ HeldLive(held)
  /\ HeldDistinct(held)
  /\ PooledLive
  /\ PooledApart(held)
  /\ PoolsDisjoint
  /\ AllHeld(held)

PoolsOnlyMeanwhile ==
  pc \in Places \ PoolPlaces => \A pool \in Pools : pools[pool] = {}

OneBuffer == pc \in BufferPlaces => ptr["buffer"] = ptr["newbuffer"]

IInv ==
  /\ HeapTypeOK
  /\ \A place \in Places : pc = place => Owned(HeldAt[place])
  /\ PoolsOnlyMeanwhile
  /\ OneBuffer
  /\ misused = {}

-----------------------------------------------------------------------------
(* The tables.                                                             *)

\* Places, pointers and kinds of blocks, spelt out for the provers.
LEMMA PlacesSpelt ==
  Places = {"prompt", "data", "reverse", "copy", "deleteTemp", "sendImage",
            "createCompress", "memDest", "initialBuffer", "setDefaults",
            "startCompress", "scan", "finishCompress", "destroyCompress",
            "alignedAlloc", "copyJpeg", "freeTmp", "copyRaw", "newBuff",
            "pack", "sendData", "deleteBuff", "freeImgData", "deleteData",
            "deleteImg"}
BY DEF Places, HeldAt

LEMMA PointersSpelt ==
  Pointers = {"img", "data", "temp", "mem", "rowData", "newbuffer", "buffer",
              "tmpBuffer", "imgData", "buff"}
BY DEF Pointers, Operation

\* Every pointer has its way of allocating.
LEMMA OperationType ==
  \A p \in Pointers : Operation[p] \in {"new", "newArray", "malloc"}
BY DEF Pointers, Operation

\* The table is about pointers of the program.
LEMMA HeldType == \A place \in Places : HeldAt[place] \subseteq Pointers
BY PointersSpelt DEF Places, HeldAt

\* At the end of the process nothing is held any more.
LEMMA PlacesApart == Places \intersect Ends = {}
BY PlacesSpelt DEF Ends

-----------------------------------------------------------------------------
(* What each allocator does to what is owned.                              *)

\* A pointer that gets a block owns it from then on.
LEMMA AllocateOwned ==
  ASSUME HeapTypeOK, NEW held \in SUBSET Pointers, Owned(held),
         NEW p \in Pointers \ held, NEW next \in Places, Allocate(p, next)
  PROVE  HeapTypeOK' /\ Owned(held \union {p})'
<1>1. PICK a \in Addresses :
        /\ Free(a)
        /\ heap' = [heap EXCEPT ![a] = Operation[p]]
        /\ ptr' = [ptr EXCEPT ![p] = a]
        /\ pc' = next
        /\ UNCHANGED <<pools, misused>>
  BY DEF Allocate
<1>2. HeapTypeOK'
  BY <1>1, OperationType DEF HeapTypeOK
<1>3. /\ a # NULL
      /\ \A b \in Addresses : b # a => heap'[b] = heap[b]
      /\ heap'[a] = Operation[p] /\ heap'[a] # "unused"
      /\ \A q \in held : ptr'[q] = ptr[q] /\ ptr[q] # a
      /\ \A q \in held : ptr[q] \in Addresses \union {NULL}
      /\ ptr'[p] = a
      /\ \A pool \in Pools : a \notin pools[pool]
      /\ \A pool \in Pools : pools[pool] \subseteq Addresses
  BY <1>1, OperationType, NullAssumption
  DEF HeapTypeOK, Owned, HeldLive, PooledLive, Free
<1>4. HeldLive(held \union {p})'
  BY <1>1, <1>3 DEF Owned, HeldLive
<1>5. HeldDistinct(held \union {p})'
  BY <1>1, <1>3 DEF Owned, HeldDistinct
<1>6. PooledLive' /\ PooledApart(held \union {p})' /\ PoolsDisjoint'
  BY <1>1, <1>3 DEF Owned, PooledLive, PooledApart, PoolsDisjoint
<1>7. AllHeld(held \union {p})'
  BY <1>1, <1>3 DEF Owned, AllHeld, Free
<1>8. QED BY <1>2, <1>4, <1>5, <1>6, <1>7 DEF Owned

\* A malloc that fails leaves a pointer to nothing, where nothing looks at it.
LEMMA MallocOwned ==
  ASSUME HeapTypeOK, NEW held \in SUBSET Pointers, Owned(held),
         NEW p \in MayBeNull \ held, NEW next \in Places, Malloc(p, next)
  PROVE  HeapTypeOK' /\ Owned(held \union {p})'
<1>1. p \in Pointers \ held
  BY PointersSpelt DEF MayBeNull
<1>2. CASE Allocate(p, next)
  BY <1>1, <1>2, AllocateOwned
<1>3. CASE /\ ptr' = [ptr EXCEPT ![p] = NULL]
           /\ pc' = next
           /\ UNCHANGED <<heap, pools, misused>>
  <2>1. HeapTypeOK'
    BY <1>1, <1>3 DEF HeapTypeOK
  <2>2. /\ ptr'[p] = NULL
        /\ \A q \in held : ptr'[q] = ptr[q]
        /\ \A pool \in Pools : NULL \notin pools[pool]
    BY <1>1, <1>3, NullAssumption DEF HeapTypeOK
  <2>3. HeldLive(held \union {p})' /\ HeldDistinct(held \union {p})'
    BY <1>3, <2>2 DEF Owned, HeldLive, HeldDistinct
  <2>4. PooledLive' /\ PooledApart(held \union {p})' /\ PoolsDisjoint'
    BY <1>3, <2>2 DEF Owned, PooledLive, PooledApart, PoolsDisjoint
  <2>5. AllHeld(held \union {p})'
    BY <1>3, <2>2 DEF Owned, AllHeld, Free
  <2>6. QED BY <2>1, <2>3, <2>4, <2>5 DEF Owned
<1>4. QED BY <1>2, <1>3 DEF Malloc

\* A pointer that is freed owns nothing any more, and it was its to free.
LEMMA FreeOwned ==
  ASSUME HeapTypeOK, NEW held \in SUBSET Pointers, Owned(held),
         NEW p \in held, NEW next \in Places, FreeBlock(p, next),
         \A q \in held \ {p} : ptr'[q] = ptr[q],
         ptr' \in [Pointers -> Addresses \union {NULL}]
  PROVE  HeapTypeOK' /\ Owned(held \ {p})' /\ misused' = misused
<1>1. CASE ptr[p] = NULL
  <2>1. HeapTypeOK' /\ misused' = misused /\ UNCHANGED <<heap, pools>>
    BY <1>1 DEF HeapTypeOK, FreeBlock
  <2>2. HeldLive(held \ {p})' /\ HeldDistinct(held \ {p})'
    BY <2>1 DEF Owned, HeldLive, HeldDistinct
  <2>3. PooledLive' /\ PooledApart(held \ {p})' /\ PoolsDisjoint'
    BY <2>1 DEF Owned, PooledLive, PooledApart, PoolsDisjoint
  <2>4. AllHeld(held \ {p})'
    BY <1>1, <2>1, NullAssumption DEF Owned, AllHeld, Free
  <2>5. QED BY <2>1, <2>2, <2>3, <2>4 DEF Owned
<1>2. CASE ptr[p] # NULL
  <2>1. /\ heap' = [heap EXCEPT ![ptr[p]] = "unused"]
        /\ pools' = pools /\ pc' = next
        /\ misused' = misused
    BY <1>2 DEF FreeBlock, Owned, HeldLive
  <2>2. HeapTypeOK'
    BY <2>1 DEF HeapTypeOK
  <2>3. /\ ptr[p] \in Addresses
        /\ heap'[ptr[p]] = "unused"
        /\ \A a \in Addresses : a # ptr[p] => heap'[a] = heap[a]
        /\ \A q \in held : ptr[q] \in Addresses \union {NULL}
        /\ \A q \in held \ {p} : ptr[q] # ptr[p]
        /\ \A pool \in Pools : ptr[p] \notin pools[pool]
        /\ \A pool \in Pools : pools[pool] \subseteq Addresses
    BY <1>2, <2>1 DEF HeapTypeOK, Owned, HeldDistinct, PooledApart
  <2>4. HeldLive(held \ {p})' /\ HeldDistinct(held \ {p})'
    BY <2>1, <2>3 DEF Owned, HeldLive, HeldDistinct
  <2>5. PooledLive' /\ PooledApart(held \ {p})' /\ PoolsDisjoint'
    BY <2>1, <2>3 DEF Owned, PooledLive, PooledApart, PoolsDisjoint
  <2>6. AllHeld(held \ {p})'
    BY <2>1, <2>3 DEF Owned, AllHeld, Free
  <2>7. QED BY <2>1, <2>2, <2>4, <2>5, <2>6 DEF Owned
<1>3. QED BY <1>1, <1>2

\* What is owned stays so while neither the blocks nor their pointers change.
LEMMA OwnedStays ==
  ASSUME HeapTypeOK, NEW held \in SUBSET Pointers, Owned(held),
         NEW next \in Places \union Ends, pc' = next,
         UNCHANGED <<heap, pools>>, \A q \in held : ptr'[q] = ptr[q],
         ptr' \in [Pointers -> Addresses \union {NULL}]
  PROVE  HeapTypeOK' /\ Owned(held)'
<1>1. HeapTypeOK'
  BY DEF HeapTypeOK
<1>2. HeldLive(held)' /\ HeldDistinct(held)'
  BY DEF Owned, HeldLive, HeldDistinct
<1>3. PooledLive' /\ PooledApart(held)' /\ PoolsDisjoint'
  BY DEF Owned, PooledLive, PooledApart, PoolsDisjoint
<1>4. AllHeld(held)'
  BY DEF Owned, AllHeld, Free
<1>5. QED BY <1>1, <1>2, <1>3, <1>4 DEF Owned

\* Nobody owns a block that is free.
LEMMA HeldNotDangling ==
  ASSUME HeapTypeOK, NEW held \in SUBSET Pointers, Owned(held)
  PROVE  Dangling(held) = {}
BY OperationType DEF Dangling, Free, Owned, HeldLive

\* Reading and writing changes nobody's ownership.
LEMMA UseOwned ==
  ASSUME HeapTypeOK, NEW held \in SUBSET Pointers, Owned(held),
         NEW ps, Dangling(ps) = {}, NEW next \in Places, Use(ps, next)
  PROVE  HeapTypeOK' /\ Owned(held)' /\ misused' = misused
<1>1. misused' = misused /\ pc' = next /\ UNCHANGED <<heap, ptr, pools>>
  BY DEF Use
<1>2. HeapTypeOK' /\ Owned(held)'
  BY <1>1, OwnedStays DEF HeapTypeOK
<1>3. QED BY <1>1, <1>2

\* A block of a pool belongs to that pool.
LEMMA GrowPoolOwned ==
  ASSUME HeapTypeOK, NEW held \in SUBSET Pointers, Owned(held),
         NEW pool \in Pools, NEW next \in Places, GrowPool(pool), pc' = next
  PROVE  HeapTypeOK' /\ Owned(held)'
<1>1. PICK a \in Addresses :
        /\ Free(a)
        /\ heap' = [heap EXCEPT ![a] = "malloc"]
        /\ pools' = [pools EXCEPT ![pool] = @ \union {a}]
        /\ UNCHANGED <<ptr, misused>>
  BY DEF GrowPool
<1>2. HeapTypeOK'
  BY <1>1 DEF HeapTypeOK
<1>3. /\ a # NULL
      /\ \A b \in Addresses : b # a => heap'[b] = heap[b]
      /\ heap'[a] = "malloc"
      /\ \A q \in held : ptr[q] # a /\ ptr[q] \in Addresses \union {NULL}
      /\ \A other \in Pools : a \notin pools[other]
      /\ \A other \in Pools : pools[other] \subseteq Addresses
      /\ pools'[pool] = pools[pool] \union {a}
      /\ \A other \in Pools : other # pool => pools'[other] = pools[other]
  BY <1>1, OperationType, NullAssumption
  DEF HeapTypeOK, Owned, HeldLive, PooledLive, Free
<1>4. HeldLive(held)' /\ HeldDistinct(held)'
  BY <1>1, <1>3 DEF Owned, HeldLive, HeldDistinct
<1>5. PooledLive' /\ PooledApart(held)'
  BY <1>1, <1>3 DEF Owned, PooledLive, PooledApart
<1>6. PoolsDisjoint'
  BY <1>1, <1>3 DEF Owned, PoolsDisjoint, Pools
<1>7. AllHeld(held)'
  BY <1>1, <1>3 DEF Owned, AllHeld, Free
<1>8. QED BY <1>2, <1>4, <1>5, <1>6, <1>7 DEF Owned

-----------------------------------------------------------------------------
(* What each kind of step does to the invariant.                           *)

\* Going on to next leaves neither the pools nor the buffer behind.
Follows(next) ==
  /\ next \in Places
  /\ pc \in PoolPlaces => next \in PoolPlaces
  /\ next \in BufferPlaces => pc \in BufferPlaces

\* The process may end anywhere.
LEMMA EndKeeps ==
  ASSUME IInv, NEW how \in Ends, End(how)
  PROVE  IInv'
<1>1. HeapTypeOK' /\ misused' = {}
  BY DEF IInv, HeapTypeOK, End
<1>2. pc' \notin Places
  BY PlacesApart DEF End
<1>3. pc' \notin BufferPlaces
  BY <1>2, PlacesSpelt DEF BufferPlaces
<1>4. QED BY <1>1, <1>2, <1>3 DEF IInv, PoolsOnlyMeanwhile, OneBuffer

\* The pools stay empty where there are none.
LEMMA NothingPooled ==
  ASSUME IInv, NEW next, pc \in Places, Follows(next), pc' = next,
         UNCHANGED pools
  PROVE  PoolsOnlyMeanwhile'
BY DEF IInv, PoolsOnlyMeanwhile, Follows

\* A block for a pointer that the next place holds.
LEMMA AllocateKeeps ==
  ASSUME IInv, NEW place \in Places, pc = place, NEW next, Follows(next),
         NEW p \in Pointers \ HeldAt[place], p \notin {"buffer", "newbuffer"},
         HeldAt[next] = HeldAt[place] \union {p}, Allocate(p, next)
  PROVE  IInv'
<1>1. HeapTypeOK' /\ Owned(HeldAt[place] \union {p})'
  BY AllocateOwned, HeldType DEF IInv, Follows
<1>2. /\ pc' = next /\ UNCHANGED <<pools, misused>>
      /\ ptr'["buffer"] = ptr["buffer"]
      /\ ptr'["newbuffer"] = ptr["newbuffer"]
  BY PointersSpelt DEF Allocate, IInv, HeapTypeOK
<1>3. \A other \in Places : pc' = other => Owned(HeldAt[other])'
  BY <1>1, <1>2
<1>4. PoolsOnlyMeanwhile'
  BY <1>2, NothingPooled
<1>5. OneBuffer'
  BY <1>2 DEF IInv, OneBuffer, Follows
<1>6. QED BY <1>1, <1>2, <1>3, <1>4, <1>5 DEF IInv

\* The same where NULL may come back.
LEMMA MallocKeeps ==
  ASSUME IInv, NEW place \in Places, pc = place, NEW next, Follows(next),
         NEW p \in MayBeNull \ HeldAt[place],
         HeldAt[next] = HeldAt[place] \union {p}, Malloc(p, next)
  PROVE  IInv'
<1>1. HeapTypeOK' /\ Owned(HeldAt[place] \union {p})'
  BY MallocOwned, HeldType DEF IInv, Follows
<1>2. /\ pc' = next /\ UNCHANGED <<pools, misused>>
      /\ ptr'["buffer"] = ptr["buffer"]
      /\ ptr'["newbuffer"] = ptr["newbuffer"]
  BY PointersSpelt DEF Malloc, Allocate, IInv, HeapTypeOK, MayBeNull
<1>3. \A other \in Places : pc' = other => Owned(HeldAt[other])'
  BY <1>1, <1>2
<1>4. PoolsOnlyMeanwhile'
  BY <1>2, NothingPooled
<1>5. OneBuffer'
  BY <1>2 DEF IInv, OneBuffer, Follows
<1>6. QED BY <1>1, <1>2, <1>3, <1>4, <1>5 DEF IInv

\* The same with an exception that ends the server.
LEMMA NewKeeps ==
  ASSUME IInv, NEW place \in Places, pc = place, NEW next, Follows(next),
         NEW p \in Pointers \ HeldAt[place], p \notin {"buffer", "newbuffer"},
         HeldAt[next] = HeldAt[place] \union {p}, New(p, next)
  PROVE  IInv'
<1>1. CASE Allocate(p, next)
  BY <1>1, AllocateKeeps
<1>2. CASE End("terminated")
  BY <1>2, EndKeeps DEF Ends
<1>3. QED BY <1>1, <1>2 DEF New

\* A pointer that the next place does not hold any more is freed.
LEMMA ReleaseKeeps ==
  ASSUME IInv, NEW place \in Places, pc = place, NEW next, Follows(next),
         NEW p \in HeldAt[place],
         HeldAt[next] = HeldAt[place] \ {p}, Release(p, next)
  PROVE  IInv'
<1>1. ptr' = ptr /\ FreeBlock(p, next) /\ pc' = next /\ pools' = pools
  BY DEF Release, FreeBlock
<1>2. HeapTypeOK' /\ Owned(HeldAt[place] \ {p})' /\ misused' = misused
  BY <1>1, FreeOwned, HeldType DEF IInv, Follows, HeapTypeOK
<1>3. \A other \in Places : pc' = other => Owned(HeldAt[other])'
  BY <1>1, <1>2
<1>4. PoolsOnlyMeanwhile'
  BY <1>1, NothingPooled
<1>5. OneBuffer'
  BY <1>1 DEF IInv, OneBuffer, Follows
<1>6. QED BY <1>1, <1>2, <1>3, <1>4, <1>5 DEF IInv

\* Blocks that are held are read and written.
LEMMA UseKeeps ==
  ASSUME IInv, NEW place \in Places, pc = place, NEW next, Follows(next),
         NEW ps, Dangling(ps) = {}, HeldAt[next] = HeldAt[place], Use(ps, next)
  PROVE  IInv'
<1>1. HeapTypeOK' /\ Owned(HeldAt[place])' /\ misused' = misused
  BY UseOwned, HeldType DEF IInv, Follows
<1>2. ptr' = ptr /\ pc' = next /\ pools' = pools
  BY DEF Use
<1>3. \A other \in Places : pc' = other => Owned(HeldAt[other])'
  BY <1>1, <1>2
<1>4. PoolsOnlyMeanwhile'
  BY <1>2, NothingPooled
<1>5. OneBuffer'
  BY <1>2 DEF IInv, OneBuffer, Follows
<1>6. QED BY <1>1, <1>2, <1>3, <1>4, <1>5 DEF IInv

\* A pool gets a block.
LEMMA GrowPoolKeeps ==
  ASSUME IInv, NEW place \in Places, pc = place, NEW next \in PoolPlaces,
         Follows(next), HeldAt[next] = HeldAt[place],
         NEW pool \in Pools, GrowPool(pool), pc' = next
  PROVE  IInv'
<1>1. HeapTypeOK' /\ Owned(HeldAt[place])'
  BY GrowPoolOwned, HeldType DEF IInv, Follows
<1>2. ptr' = ptr /\ misused' = misused
  BY DEF GrowPool
<1>3. \A other \in Places : pc' = other => Owned(HeldAt[other])'
  BY <1>1
<1>4. PoolsOnlyMeanwhile'
  BY DEF PoolsOnlyMeanwhile
<1>5. OneBuffer'
  BY <1>2 DEF IInv, OneBuffer, Follows
<1>6. QED BY <1>1, <1>2, <1>3, <1>4, <1>5 DEF IInv

\* The first buffer of the destination.
LEMMA InitialBufferKeeps ==
  ASSUME IInv, InitialBuffer
  PROVE  IInv'
<1>1. CASE ErrorExit
  BY <1>1, EndKeeps DEF InitialBuffer, ErrorExit, Ends
<1>2. CASE \E a \in Addresses :
             /\ Free(a)
             /\ heap' = [heap EXCEPT ![a] = "malloc"]
             /\ ptr' = [ptr EXCEPT !["newbuffer"] = a, !["buffer"] = a,
                                   !["tmpBuffer"] = a]
             /\ pc' = "setDefaults"
             /\ UNCHANGED <<pools, misused>>
  <2>1. PICK a \in Addresses :
             /\ Free(a)
             /\ heap' = [heap EXCEPT ![a] = "malloc"]
             /\ ptr' = [ptr EXCEPT !["newbuffer"] = a, !["buffer"] = a,
                                   !["tmpBuffer"] = a]
             /\ pc' = "setDefaults"
             /\ UNCHANGED <<pools, misused>>
    BY <1>2
  <2> DEFINE held == {"img", "data", "mem"}
             after == {"img", "data", "mem", "newbuffer"}
  <2>2. /\ pc = "initialBuffer" /\ HeapTypeOK /\ misused = {}
        /\ HeldAt["initialBuffer"] = held
        /\ HeldAt["setDefaults"] = after
        /\ Owned(held)
    BY PlacesSpelt DEF InitialBuffer, IInv, HeldAt
  <2>3. HeapTypeOK'
    BY <2>1, <2>2, PlacesSpelt, PointersSpelt DEF HeapTypeOK
  <2>4. /\ a # NULL /\ heap'[a] = "malloc"
        /\ \A b \in Addresses : b # a => heap'[b] = heap[b]
        /\ \A q \in held : ptr'[q] = ptr[q] /\ ptr[q] # a
                           /\ ptr[q] \in Addresses \union {NULL}
        /\ ptr'["newbuffer"] = a /\ ptr'["buffer"] = a
        /\ Operation["newbuffer"] = "malloc"
        /\ \A pool \in Pools : a \notin pools[pool]
        /\ \A pool \in Pools : pools[pool] \subseteq Addresses
    BY <2>1, <2>2, PointersSpelt, OperationType, NullAssumption
    DEF HeapTypeOK, Owned, HeldLive, PooledLive, Free, Operation
  <2>5. HeldLive(after)' /\ HeldDistinct(after)'
    BY <2>1, <2>2, <2>4 DEF Owned, HeldLive, HeldDistinct
  <2>6. PooledLive' /\ PooledApart(after)' /\ PoolsDisjoint'
    BY <2>1, <2>2, <2>4 DEF Owned, PooledLive, PooledApart, PoolsDisjoint
  <2>7. AllHeld(after)'
    BY <2>1, <2>2, <2>4 DEF Owned, AllHeld, Free
  <2>8. \A place \in Places : pc' = place => Owned(HeldAt[place])'
    BY <2>1, <2>2, <2>5, <2>6, <2>7 DEF Owned
  <2>9. PoolsOnlyMeanwhile' /\ OneBuffer'
    BY <2>1, <2>4 DEF PoolsOnlyMeanwhile, OneBuffer, PoolPlaces
  <2>10. QED BY <2>1, <2>2, <2>3, <2>8, <2>9 DEF IInv
<1>3. QED BY <1>1, <1>2 DEF InitialBuffer

\* The next buffer, twice as large: the one before it is newbuffer's to free.
LEMMA GrowKeeps ==
  ASSUME IInv, Grow
  PROVE  IInv'
<1>1. PICK a \in Addresses :
        /\ Free(a)
        /\ heap' = IF ptr["newbuffer"] = NULL
                   THEN [heap EXCEPT ![a] = "malloc"]
                   ELSE [heap EXCEPT ![a] = "malloc",
                                     ![ptr["newbuffer"]] = "unused"]
        /\ ptr' = [ptr EXCEPT !["newbuffer"] = a, !["buffer"] = a]
  BY DEF Grow
<1>2. /\ pc \in {"scan", "finishCompress"} /\ pc' = pc /\ pools' = pools
      /\ misused' = misused \union Dangling({"buffer", "newbuffer"})
  BY DEF Grow
<1>3. PICK place \in Places :
        /\ pc = place /\ place \in PoolPlaces
        /\ "newbuffer" \in HeldAt[place] /\ "buffer" \notin HeldAt[place]
  BY <1>2, PlacesSpelt DEF HeldAt, PoolPlaces
<1>4. PICK held \in SUBSET Pointers :
        held = HeldAt[place] /\ Owned(held)
  BY <1>3, HeldType DEF IInv
<1>5. /\ HeapTypeOK /\ misused = {} /\ ptr["buffer"] = ptr["newbuffer"]
  BY <1>2 DEF IInv, OneBuffer, BufferPlaces
<1>6. PICK b \in Addresses :
        /\ b = ptr["newbuffer"] /\ heap[b] = "malloc" /\ b # a
  BY <1>1, <1>3, <1>4, <1>5, PointersSpelt
  DEF Owned, HeldLive, HeapTypeOK, MayBeNull, Operation, Free
<1>7. /\ heap' = [heap EXCEPT ![a] = "malloc", ![b] = "unused"]
      /\ heap'[a] = "malloc" /\ heap'[b] = "unused"
      /\ \A c \in Addresses \ {a, b} : heap'[c] = heap[c]
  BY <1>1, <1>5, <1>6, NullAssumption DEF HeapTypeOK
<1>8. misused' = {}
  BY <1>2, <1>5, <1>6 DEF Dangling, Free
<1>9. HeapTypeOK'
  BY <1>1, <1>2, <1>5, <1>7, PointersSpelt DEF HeapTypeOK
<1>10. /\ \A q \in held \ {"newbuffer"} :
             /\ ptr'[q] = ptr[q] /\ ptr[q] # a /\ ptr[q] # b
             /\ ptr[q] \in Addresses \union {NULL}
       /\ a # NULL /\ b # NULL
       /\ ptr'["newbuffer"] = a /\ ptr'["buffer"] = a
       /\ Operation["newbuffer"] = "malloc"
  <2>1. \A q \in held \ {"newbuffer"} :
             ptr'[q] = ptr[q] /\ ptr[q] \in Addresses \union {NULL}
    BY <1>1, <1>3, <1>4, <1>5, PointersSpelt DEF HeapTypeOK
  <2>2. \A q \in held \ {"newbuffer"} : ptr[q] # a
    BY <1>1, <1>4, OperationType, NullAssumption DEF Owned, HeldLive, Free
  <2>3. \A q \in held \ {"newbuffer"} : ptr[q] # b
    BY <1>3, <1>4, <1>6, NullAssumption DEF Owned, HeldDistinct
  <2>4. ptr'["newbuffer"] = a /\ ptr'["buffer"] = a
    BY <1>1, <1>5, PointersSpelt DEF HeapTypeOK
  <2>5. QED BY <2>1, <2>2, <2>3, <2>4, <1>6, NullAssumption DEF Operation
<1>11. \A pool \in Pools : /\ pools[pool] \subseteq Addresses
                           /\ a \notin pools[pool] /\ b \notin pools[pool]
  BY <1>1, <1>3, <1>4, <1>5, <1>6
  DEF HeapTypeOK, Owned, PooledLive, PooledApart, Free
<1>12. HeldLive(held)' /\ HeldDistinct(held)'
  <2>1. HeldLive(held)'
    <3>1. \A q \in held \ {"newbuffer"} :
            ptr[q] # NULL => heap'[ptr[q]] = heap[ptr[q]]
      BY <1>7, <1>10
    <3>2. QED BY <1>4, <1>7, <1>10, <3>1 DEF Owned, HeldLive
  <2>2. HeldDistinct(held)'
    BY <1>4, <1>10 DEF Owned, HeldDistinct
  <2>3. QED BY <2>1, <2>2
<1>13. PooledLive' /\ PooledApart(held)' /\ PoolsDisjoint'
  <2>1. PooledLive'
    BY <1>2, <1>4, <1>7, <1>11 DEF Owned, PooledLive
  <2>2. PooledApart(held)'
    BY <1>2, <1>4, <1>10, <1>11 DEF Owned, PooledApart
  <2>3. PoolsDisjoint'
    BY <1>2, <1>4 DEF Owned, PoolsDisjoint
  <2>4. QED BY <2>1, <2>2, <2>3
<1>14. AllHeld(held)'
  <2>1. SUFFICES ASSUME NEW c \in Addresses, heap'[c] # "unused"
                 PROVE  \/ \E p \in held : ptr'[p] = c
                        \/ \E pool \in Pools : c \in pools'[pool]
    BY DEF AllHeld, Free
  <2>2. CASE c = a
    BY <2>2, <1>3, <1>4, <1>10
  <2>3. CASE c # a
    <3>1. c # b /\ heap[c] # "unused"
      BY <2>1, <2>3, <1>7
    <3>2. \/ \E p \in held \ {"newbuffer"} : ptr[p] = c
          \/ \E pool \in Pools : c \in pools[pool]
      BY <3>1, <1>4, <1>6 DEF Owned, AllHeld, Free
    <3>3. QED BY <3>2, <1>2, <1>10
  <2>4. QED BY <2>2, <2>3
<1>15. \A other \in Places : pc' = other => Owned(HeldAt[other])'
  BY <1>2, <1>3, <1>4, <1>12, <1>13, <1>14 DEF Owned
<1>16. PoolsOnlyMeanwhile' /\ OneBuffer'
  BY <1>2, <1>3, <1>10 DEF PoolsOnlyMeanwhile, OneBuffer
<1>17. QED BY <1>8, <1>9, <1>15, <1>16 DEF IInv

\* The caller's pointer takes the buffer over, and the pool of the image goes.
LEMMA FinishCompressKeeps ==
  ASSUME IInv, FinishCompress
  PROVE  IInv'
<1> DEFINE before == {"img", "data", "mem", "newbuffer"}
           after == {"img", "data", "mem", "tmpBuffer"}
<1>1. /\ pc = "finishCompress" /\ pc' = "destroyCompress"
      /\ HeldAt["finishCompress"] = before
      /\ HeldAt["destroyCompress"] = after
      /\ "finishCompress" \in Places /\ "destroyCompress" \in Places
  BY PlacesSpelt DEF FinishCompress, HeldAt
<1>2. /\ HeapTypeOK /\ Owned(before) /\ misused = {}
      /\ ptr["buffer"] = ptr["newbuffer"]
  BY <1>1 DEF IInv, OneBuffer, BufferPlaces
<1>3. /\ ptr["newbuffer"] \in Addresses
      /\ heap[ptr["newbuffer"]] = "malloc"
  BY <1>2, PointersSpelt
  DEF HeapTypeOK, Owned, HeldLive, MayBeNull, Operation
<1>4. misused' = {}
  BY <1>2, <1>3 DEF FinishCompress, Dangling, Free
<1>5. /\ ptr' = [ptr EXCEPT !["tmpBuffer"] = ptr["newbuffer"]]
      /\ heap' = [a \in Addresses |-> IF a \in pools["image"] THEN "unused"
                                      ELSE heap[a]]
      /\ pools' = [pools EXCEPT !["image"] = {}]
  BY <1>2 DEF FinishCompress, FreedBlocks
<1>6. HeapTypeOK'
  BY <1>1, <1>2, <1>3, <1>5, PlacesSpelt, PointersSpelt DEF HeapTypeOK
<1>7. /\ \A q \in {"img", "data", "mem"} :
            /\ ptr'[q] = ptr[q] /\ q \in before
            /\ ptr[q] \in Addresses \union {NULL}
      /\ ptr'["tmpBuffer"] = ptr["newbuffer"]
  BY <1>2, <1>5, PointersSpelt DEF HeapTypeOK
<1>8. /\ pools'["image"] = {}
      /\ pools'["permanent"] = pools["permanent"]
      /\ \A pool \in Pools : pools[pool] \subseteq Addresses
  BY <1>2, <1>5 DEF HeapTypeOK, Pools
<1>9. \A q \in before : ptr[q] # NULL => heap'[ptr[q]] = heap[ptr[q]]
  BY <1>2, <1>3, <1>5, <1>7 DEF Owned, PooledApart, Pools
<1>10. HeldLive(after)' /\ HeldDistinct(after)'
  <2>1. HeldLive(after)'
    BY <1>2, <1>3, <1>7, <1>9 DEF Owned, HeldLive, MayBeNull, Operation
  <2>2. HeldDistinct(after)'
    BY <1>2, <1>7 DEF Owned, HeldDistinct
  <2>3. QED BY <2>1, <2>2
<1>11. PooledLive' /\ PooledApart(after)' /\ PoolsDisjoint'
  <2>1. PooledLive'
    BY <1>2, <1>5, <1>8 DEF Owned, PooledLive, PoolsDisjoint, Pools
  <2>2. PooledApart(after)'
    BY <1>2, <1>7, <1>8 DEF Owned, PooledApart, Pools
  <2>3. PoolsDisjoint'
    BY <1>8 DEF PoolsDisjoint
  <2>4. QED BY <2>1, <2>2, <2>3
<1>12. AllHeld(after)'
  <2>1. SUFFICES ASSUME NEW c \in Addresses, heap'[c] # "unused"
                 PROVE  \/ \E p \in after : ptr'[p] = c
                        \/ \E pool \in Pools : c \in pools'[pool]
    BY DEF AllHeld, Free
  <2>2. heap[c] # "unused" /\ c \notin pools["image"]
    BY <2>1, <1>5
  <2>3. (\E p \in before : ptr[p] = c) \/ c \in pools["permanent"]
    BY <2>2, <1>2 DEF Owned, AllHeld, Free, Pools
  <2>4. QED BY <2>3, <1>7, <1>8 DEF Pools
<1>13. \A place \in Places : pc' = place => Owned(HeldAt[place])'
  BY <1>1, <1>10, <1>11, <1>12 DEF Owned
<1>14. PoolsOnlyMeanwhile' /\ OneBuffer'
  BY <1>1 DEF PoolsOnlyMeanwhile, OneBuffer, PoolPlaces, BufferPlaces
<1>15. QED BY <1>4, <1>6, <1>13, <1>14 DEF IInv

\* Everything of the library goes, and the buffer stays.
LEMMA DestroyCompressKeeps ==
  ASSUME IInv, DestroyCompress
  PROVE  IInv'
<1> DEFINE before == {"img", "data", "mem", "tmpBuffer"}
           after == {"img", "data", "tmpBuffer"}
<1>1. /\ pc = "destroyCompress" /\ pc' = "alignedAlloc"
      /\ HeldAt["destroyCompress"] = before
      /\ HeldAt["alignedAlloc"] = after
      /\ "destroyCompress" \in Places /\ "alignedAlloc" \in Places
  BY PlacesSpelt DEF DestroyCompress, HeldAt
<1>2. HeapTypeOK /\ Owned(before) /\ misused = {}
  BY <1>1 DEF IInv
<1>3. ptr["mem"] \in Addresses /\ heap[ptr["mem"]] = "malloc"
  BY <1>2, PointersSpelt
  DEF HeapTypeOK, Owned, HeldLive, MayBeNull, Operation
<1>4. misused' = {}
  BY <1>2, <1>3 DEF DestroyCompress, Dangling, Free
<1>5. /\ ptr' = ptr
      /\ heap' = [a \in Addresses |->
                    IF a \in Pooled \union {ptr["mem"]} THEN "unused"
                    ELSE heap[a]]
      /\ pools' = [pool \in Pools |-> {}]
  BY DEF DestroyCompress, FreedBlocks
<1>6. HeapTypeOK'
  BY <1>1, <1>2, <1>5, PlacesSpelt DEF HeapTypeOK
<1>7. \A q \in after : /\ q \in before /\ ptr[q] # ptr["mem"]
                       /\ ptr[q] \in Addresses \union {NULL}
                       /\ ptr[q] \notin Pooled
  <2>1. SUFFICES ASSUME NEW q \in after
                 PROVE  /\ q \in before /\ ptr[q] # ptr["mem"]
                        /\ ptr[q] \in Addresses \union {NULL}
                        /\ ptr[q] \notin Pooled
    OBVIOUS
  <2>2. q \in before /\ q # "mem" /\ q \in Pointers
    BY <2>1, PointersSpelt
  <2>3. ptr[q] \in Addresses \union {NULL}
    BY <2>2, <1>2 DEF HeapTypeOK
  <2>4. ptr[q] # ptr["mem"]
    BY <2>2, <1>2, <1>3, NullAssumption DEF Owned, HeldDistinct
  <2>5. ptr[q] \notin Pooled
    BY <2>2, <1>2 DEF Owned, PooledApart, Pooled
  <2>6. QED BY <2>2, <2>3, <2>4, <2>5
<1>8. HeldLive(after)' /\ HeldDistinct(after)'
  BY <1>2, <1>5, <1>7 DEF Owned, HeldLive, HeldDistinct
<1>9. PooledLive' /\ PooledApart(after)' /\ PoolsDisjoint'
  BY <1>5 DEF PooledLive, PooledApart, PoolsDisjoint, Pools
<1>10. AllHeld(after)'
  <2>1. SUFFICES ASSUME NEW c \in Addresses, heap'[c] # "unused"
                 PROVE  \E p \in after : ptr'[p] = c
    BY DEF AllHeld, Free
  <2>2. heap[c] # "unused" /\ c \notin Pooled /\ c # ptr["mem"]
    BY <2>1, <1>5
  <2>3. \E p \in before : ptr[p] = c
    BY <2>2, <1>2 DEF Owned, AllHeld, Free, Pooled
  <2>4. QED BY <2>2, <2>3, <1>5
<1>11. \A place \in Places : pc' = place => Owned(HeldAt[place])'
  BY <1>1, <1>8, <1>9, <1>10 DEF Owned
<1>12. PoolsOnlyMeanwhile' /\ OneBuffer'
  BY <1>1, <1>5 DEF PoolsOnlyMeanwhile, OneBuffer, BufferPlaces
<1>13. QED BY <1>4, <1>6, <1>11, <1>12 DEF IInv

-----------------------------------------------------------------------------
(* The steps.                                                              *)

\* Before the first command nothing is allocated.
LEMMA InitKeeps == Init => IInv
<1> SUFFICES ASSUME Init PROVE IInv
  OBVIOUS
<1>1. HeapTypeOK
  BY PlacesSpelt DEF Init, HeapTypeOK, NoPointers
<1>2. Owned({})
  BY DEF Init, Owned, HeldLive, HeldDistinct, PooledLive, PooledApart,
         PoolsDisjoint, AllHeld, Free, Pools
<1>3. HeldAt["prompt"] = {}
  BY DEF HeldAt
<1>4. \A place \in Places : pc = place => Owned(HeldAt[place])
  BY <1>2, <1>3 DEF Init
<1>5. PoolsOnlyMeanwhile /\ OneBuffer /\ misused = {}
  BY DEF Init, PoolsOnlyMeanwhile, OneBuffer, BufferPlaces, Pools
<1>6. QED BY <1>1, <1>4, <1>5 DEF IInv

\* MockGrabImage: img, data and the copy in temp.
LEMMA CommandKeeps == IInv /\ Command => IInv'
<1> SUFFICES ASSUME IInv, Command PROVE IInv'
  OBVIOUS
<1>1. /\ "prompt" \in Places /\ pc = "prompt" /\ Follows("data")
      /\ "img" \in Pointers \ HeldAt["prompt"]
      /\ HeldAt["data"] = HeldAt["prompt"] \union {"img"}
  BY PlacesSpelt, PointersSpelt
  DEF Command, Follows, PoolPlaces, BufferPlaces, HeldAt
<1>2. QED BY <1>1, NewKeeps DEF Command

LEMMA NewTempKeeps == IInv /\ NewTemp => IInv'
<1> SUFFICES ASSUME IInv, NewTemp PROVE IInv'
  OBVIOUS
<1>1. /\ "reverse" \in Places /\ pc = "reverse" /\ Follows("copy")
      /\ "temp" \in Pointers \ HeldAt["reverse"]
      /\ HeldAt["copy"] = HeldAt["reverse"] \union {"temp"}
  BY PlacesSpelt, PointersSpelt
  DEF NewTemp, Follows, PoolPlaces, BufferPlaces, HeldAt
<1>2. QED BY <1>1, NewKeeps DEF NewTemp

LEMMA NewBuffKeeps == IInv /\ NewBuff => IInv'
<1> SUFFICES ASSUME IInv, NewBuff PROVE IInv'
  OBVIOUS
<1>1. /\ "newBuff" \in Places /\ pc = "newBuff" /\ Follows("pack")
      /\ "buff" \in Pointers \ HeldAt["newBuff"]
      /\ HeldAt["pack"] = HeldAt["newBuff"] \union {"buff"}
  BY PlacesSpelt, PointersSpelt
  DEF NewBuff, Follows, PoolPlaces, BufferPlaces, HeldAt
<1>2. QED BY <1>1, NewKeeps DEF NewBuff

\* The JPEG for SendImage, and the raw image.
LEMMA AlignedAllocKeeps == IInv /\ AlignedAlloc => IInv'
<1> SUFFICES ASSUME IInv, AlignedAlloc PROVE IInv'
  OBVIOUS
<1>1. /\ "alignedAlloc" \in Places /\ pc = "alignedAlloc" /\ Follows("copyJpeg")
      /\ "imgData" \in MayBeNull \ HeldAt["alignedAlloc"]
      /\ HeldAt["copyJpeg"] = HeldAt["alignedAlloc"] \union {"imgData"}
  BY PlacesSpelt, PointersSpelt
  DEF AlignedAlloc, Follows, PoolPlaces, BufferPlaces, HeldAt, MayBeNull
<1>2. QED BY <1>1, MallocKeeps DEF AlignedAlloc

LEMMA SendRawKeeps == IInv /\ SendRaw => IInv'
<1> SUFFICES ASSUME IInv, SendRaw PROVE IInv'
  OBVIOUS
<1>1. /\ "sendImage" \in Places /\ pc = "sendImage" /\ Follows("copyRaw")
      /\ "imgData" \in MayBeNull \ HeldAt["sendImage"]
      /\ HeldAt["copyRaw"] = HeldAt["sendImage"] \union {"imgData"}
  BY PlacesSpelt, PointersSpelt
  DEF SendRaw, Follows, PoolPlaces, BufferPlaces, HeldAt, MayBeNull
<1>2. QED BY <1>1, MallocKeeps DEF SendRaw

\* What is freed, in the order of the code.
LEMMA DeleteTempKeeps == IInv /\ DeleteTemp => IInv'
<1> SUFFICES ASSUME IInv, DeleteTemp PROVE IInv'
  OBVIOUS
<1>1. /\ "deleteTemp" \in Places /\ pc = "deleteTemp" /\ Follows("sendImage")
      /\ "temp" \in HeldAt["deleteTemp"]
      /\ HeldAt["sendImage"] = HeldAt["deleteTemp"] \ {"temp"}
  BY PlacesSpelt, PointersSpelt
  DEF DeleteTemp, Follows, PoolPlaces, BufferPlaces, HeldAt
<1>2. QED BY <1>1, ReleaseKeeps DEF DeleteTemp

LEMMA FreeRowKeeps == IInv /\ FreeRow => IInv'
<1> SUFFICES ASSUME IInv, FreeRow PROVE IInv'
  OBVIOUS
<1>1. /\ "scan" \in Places /\ pc = "scan" /\ Follows("finishCompress")
      /\ "rowData" \in HeldAt["scan"]
      /\ HeldAt["finishCompress"] = HeldAt["scan"] \ {"rowData"}
  BY PlacesSpelt, PointersSpelt
  DEF FreeRow, Follows, PoolPlaces, BufferPlaces, HeldAt
<1>2. QED BY <1>1, ReleaseKeeps DEF FreeRow

LEMMA FreeTmpKeeps == IInv /\ FreeTmp => IInv'
<1> SUFFICES ASSUME IInv, FreeTmp PROVE IInv'
  OBVIOUS
<1>1. /\ "freeTmp" \in Places /\ pc = "freeTmp" /\ Follows("newBuff")
      /\ "tmpBuffer" \in HeldAt["freeTmp"]
      /\ HeldAt["newBuff"] = HeldAt["freeTmp"] \ {"tmpBuffer"}
  BY PlacesSpelt, PointersSpelt
  DEF FreeTmp, Follows, PoolPlaces, BufferPlaces, HeldAt
<1>2. QED BY <1>1, ReleaseKeeps DEF FreeTmp

LEMMA DeleteBuffKeeps == IInv /\ DeleteBuff => IInv'
<1> SUFFICES ASSUME IInv, DeleteBuff PROVE IInv'
  OBVIOUS
<1>1. /\ "deleteBuff" \in Places /\ pc = "deleteBuff" /\ Follows("freeImgData")
      /\ "buff" \in HeldAt["deleteBuff"]
      /\ HeldAt["freeImgData"] = HeldAt["deleteBuff"] \ {"buff"}
  BY PlacesSpelt, PointersSpelt
  DEF DeleteBuff, Follows, PoolPlaces, BufferPlaces, HeldAt
<1>2. QED BY <1>1, ReleaseKeeps DEF DeleteBuff

LEMMA FreeImgDataKeeps == IInv /\ FreeImgData => IInv'
<1> SUFFICES ASSUME IInv, FreeImgData PROVE IInv'
  OBVIOUS
<1>1. /\ "freeImgData" \in Places /\ pc = "freeImgData" /\ Follows("deleteData")
      /\ "imgData" \in HeldAt["freeImgData"]
      /\ HeldAt["deleteData"] = HeldAt["freeImgData"] \ {"imgData"}
  BY PlacesSpelt, PointersSpelt
  DEF FreeImgData, Follows, PoolPlaces, BufferPlaces, HeldAt
<1>2. QED BY <1>1, ReleaseKeeps DEF FreeImgData

LEMMA DeleteDataKeeps == IInv /\ DeleteData => IInv'
<1> SUFFICES ASSUME IInv, DeleteData PROVE IInv'
  OBVIOUS
<1>1. /\ "deleteData" \in Places /\ pc = "deleteData" /\ Follows("deleteImg")
      /\ "data" \in HeldAt["deleteData"]
      /\ HeldAt["deleteImg"] = HeldAt["deleteData"] \ {"data"}
  BY PlacesSpelt, PointersSpelt
  DEF DeleteData, Follows, PoolPlaces, BufferPlaces, HeldAt
<1>2. QED BY <1>1, ReleaseKeeps DEF DeleteData

LEMMA NewDataKeeps == IInv /\ NewData => IInv'
<1> SUFFICES ASSUME IInv, NewData PROVE IInv'
  OBVIOUS
<1>1. PICK next \in {"reverse", "sendImage"} : New("data", next)
  BY DEF NewData
<1>2. /\ "data" \in Places /\ pc = "data" /\ Follows(next)
      /\ "data" \in Pointers \ HeldAt["data"]
      /\ HeldAt[next] = HeldAt["data"] \union {"data"}
  BY PlacesSpelt, PointersSpelt
  DEF NewData, Follows, PoolPlaces, BufferPlaces, HeldAt
<1>3. QED BY <1>1, <1>2, NewKeeps

\* What is read and written.
LEMMA ReverseKeeps == IInv /\ Reverse => IInv'
<1> SUFFICES ASSUME IInv, Reverse PROVE IInv'
  OBVIOUS
<1>1. /\ "copy" \in Places /\ pc = "copy" /\ Follows("deleteTemp")
      /\ {"data", "temp"} \subseteq HeldAt["copy"]
      /\ HeldAt["deleteTemp"] = HeldAt["copy"]
  BY PlacesSpelt DEF Reverse, Follows, PoolPlaces, BufferPlaces, HeldAt
<1>2. Dangling({"data", "temp"}) = {}
  BY <1>1, HeldNotDangling, HeldType DEF IInv, Dangling
<1>3. QED BY <1>1, <1>2, UseKeeps DEF Reverse

LEMMA CopyJpegKeeps == IInv /\ CopyJpeg => IInv'
<1> SUFFICES ASSUME IInv, CopyJpeg PROVE IInv'
  OBVIOUS
<1>1. /\ "copyJpeg" \in Places /\ pc = "copyJpeg" /\ Follows("freeTmp")
      /\ {"imgData", "tmpBuffer"} \subseteq HeldAt["copyJpeg"]
      /\ HeldAt["freeTmp"] = HeldAt["copyJpeg"]
  BY PlacesSpelt DEF CopyJpeg, Follows, PoolPlaces, BufferPlaces, HeldAt
<1>2. Dangling({"imgData", "tmpBuffer"}) = {}
  BY <1>1, HeldNotDangling, HeldType DEF IInv, Dangling
<1>3. CASE Use({"imgData", "tmpBuffer"}, "freeTmp")
  BY <1>1, <1>2, <1>3, UseKeeps
<1>4. CASE End("crashed")
  BY <1>4, EndKeeps DEF Ends
<1>5. QED BY <1>3, <1>4 DEF CopyJpeg

LEMMA CopyRawKeeps == IInv /\ CopyRaw => IInv'
<1> SUFFICES ASSUME IInv, CopyRaw PROVE IInv'
  OBVIOUS
<1>1. /\ "copyRaw" \in Places /\ pc = "copyRaw" /\ Follows("newBuff")
      /\ {"data", "imgData"} \subseteq HeldAt["copyRaw"]
      /\ HeldAt["newBuff"] = HeldAt["copyRaw"]
  BY PlacesSpelt DEF CopyRaw, Follows, PoolPlaces, BufferPlaces, HeldAt
<1>2. Dangling({"data", "imgData"}) = {}
  BY <1>1, HeldNotDangling, HeldType DEF IInv, Dangling
<1>3. CASE Use({"data", "imgData"}, "newBuff")
  BY <1>1, <1>2, <1>3, UseKeeps
<1>4. CASE End("crashed")
  BY <1>4, EndKeeps DEF Ends
<1>5. QED BY <1>3, <1>4 DEF CopyRaw

LEMMA PackKeeps == IInv /\ Pack => IInv'
<1> SUFFICES ASSUME IInv, Pack PROVE IInv'
  OBVIOUS
<1>1. /\ "pack" \in Places /\ pc = "pack" /\ Follows("sendData")
      /\ {"img", "imgData", "buff"} \subseteq HeldAt["pack"]
      /\ HeldAt["sendData"] = HeldAt["pack"]
  BY PlacesSpelt DEF Pack, Follows, PoolPlaces, BufferPlaces, HeldAt
<1>2. Dangling({"img", "imgData", "buff"}) = {}
  BY <1>1, HeldNotDangling, HeldType DEF IInv, Dangling
<1>3. QED BY <1>1, <1>2, UseKeeps DEF Pack

LEMMA SendDataKeeps == IInv /\ SendData => IInv'
<1> SUFFICES ASSUME IInv, SendData PROVE IInv'
  OBVIOUS
<1>1. /\ "sendData" \in Places /\ pc = "sendData" /\ Follows("deleteBuff")
      /\ {"buff"} \subseteq HeldAt["sendData"]
      /\ HeldAt["deleteBuff"] = HeldAt["sendData"]
  BY PlacesSpelt DEF SendData, Follows, PoolPlaces, BufferPlaces, HeldAt
<1>2. Dangling({"buff"}) = {}
  BY <1>1, HeldNotDangling, HeldType DEF IInv, Dangling
<1>3. CASE Use({"buff"}, "deleteBuff")
  BY <1>1, <1>2, <1>3, UseKeeps
<1>4. CASE End("killed")
  BY <1>4, EndKeeps DEF Ends
<1>5. QED BY <1>3, <1>4 DEF SendData

\* The destination writes through buffer, which is the block of newbuffer.
LEMMA WriteScanlineKeeps == IInv /\ WriteScanline => IInv'
<1> SUFFICES ASSUME IInv, WriteScanline PROVE IInv'
  OBVIOUS
<1>1. CASE End("crashed")
  BY <1>1, EndKeeps DEF Ends
<1>2. CASE Use({"data", "rowData", "mem", "buffer"}, "scan")
  <2>1. /\ "scan" \in Places /\ pc = "scan" /\ Follows("scan")
        /\ {"data", "rowData", "mem", "newbuffer"} \subseteq HeldAt["scan"]
        /\ pc \in BufferPlaces
    BY PlacesSpelt
    DEF WriteScanline, Follows, PoolPlaces, BufferPlaces, HeldAt
  <2>2. Dangling(HeldAt["scan"]) = {} /\ ptr["buffer"] = ptr["newbuffer"]
    BY <2>1, HeldNotDangling, HeldType DEF IInv, OneBuffer
  <2>3. Dangling({"data", "rowData", "mem", "buffer"}) = {}
    BY <2>1, <2>2 DEF Dangling
  <2>4. QED BY <1>2, <2>1, <2>3, UseKeeps
<1>3. QED BY <1>1, <1>2 DEF WriteScanline

\* The pointers of a new call begin as NULL, and own nothing yet.
LEMMA SendJpegKeeps == IInv /\ SendJpeg => IInv'
<1> SUFFICES ASSUME IInv, SendJpeg PROVE IInv'
  OBVIOUS
<1>1. /\ pc = "sendImage" /\ pc' = "createCompress"
      /\ ptr' = [ptr EXCEPT !["imgData"] = NULL, !["tmpBuffer"] = NULL]
      /\ UNCHANGED <<heap, pools, misused>>
  BY DEF SendJpeg
<1>2. /\ "sendImage" \in Places /\ "createCompress" \in Places
      /\ HeldAt["sendImage"] = {"img", "data"}
      /\ HeldAt["createCompress"] = {"img", "data"}
      /\ {"img", "data"} \subseteq Pointers
  BY PlacesSpelt, PointersSpelt DEF HeldAt
<1>3. HeapTypeOK /\ Owned({"img", "data"}) /\ misused = {}
  BY <1>1, <1>2 DEF IInv
<1>4. /\ ptr' \in [Pointers -> Addresses \union {NULL}]
      /\ \A q \in {"img", "data"} : ptr'[q] = ptr[q]
  BY <1>1, <1>3, PointersSpelt DEF HeapTypeOK
<1>5. HeapTypeOK' /\ Owned({"img", "data"})'
  BY <1>1, <1>2, <1>3, <1>4, OwnedStays
<1>6. \A place \in Places : pc' = place => Owned(HeldAt[place])'
  BY <1>1, <1>2, <1>5
<1>7. PoolsOnlyMeanwhile' /\ OneBuffer'
  BY <1>1, <1>2
  DEF IInv, PoolsOnlyMeanwhile, OneBuffer, PoolPlaces, BufferPlaces
<1>8. QED BY <1>1, <1>3, <1>5, <1>6, <1>7 DEF IInv

\* The JPEG object, its pools and its tables.
LEMMA CreateCompressKeeps == IInv /\ CreateCompress => IInv'
<1> SUFFICES ASSUME IInv, CreateCompress PROVE IInv'
  OBVIOUS
<1>1. /\ "createCompress" \in Places /\ pc = "createCompress"
      /\ Follows("memDest")
      /\ "mem" \in Pointers \ HeldAt["createCompress"]
      /\ HeldAt["memDest"] = HeldAt["createCompress"] \union {"mem"}
  BY PlacesSpelt, PointersSpelt
  DEF CreateCompress, Follows, PoolPlaces, BufferPlaces, HeldAt
<1>2. CASE Allocate("mem", "memDest")
  BY <1>1, <1>2, AllocateKeeps
<1>3. CASE ErrorExit
  BY <1>3, EndKeeps DEF ErrorExit, Ends
<1>4. QED BY <1>2, <1>3 DEF CreateCompress

LEMMA NewDestinationKeeps == IInv /\ NewDestination => IInv'
<1> SUFFICES ASSUME IInv, NewDestination PROVE IInv'
  OBVIOUS
<1>1. /\ "memDest" \in Places /\ pc = "memDest"
      /\ Follows("initialBuffer") /\ "initialBuffer" \in PoolPlaces
      /\ HeldAt["initialBuffer"] = HeldAt["memDest"]
      /\ "permanent" \in Pools
  BY PlacesSpelt
  DEF NewDestination, Follows, PoolPlaces, BufferPlaces, HeldAt, Pools
<1>2. CASE GrowPool("permanent") /\ pc' = "initialBuffer"
  BY <1>1, <1>2, GrowPoolKeeps
<1>3. CASE ErrorExit
  BY <1>3, EndKeeps DEF ErrorExit, Ends
<1>4. QED BY <1>2, <1>3 DEF NewDestination

LEMMA SetDefaultsKeeps == IInv /\ SetDefaults => IInv'
<1> SUFFICES ASSUME IInv, SetDefaults PROVE IInv'
  OBVIOUS
<1>1. /\ "setDefaults" \in Places /\ pc = "setDefaults"
      /\ Follows("setDefaults") /\ "setDefaults" \in PoolPlaces
      /\ Follows("startCompress")
      /\ "rowData" \in MayBeNull \ HeldAt["setDefaults"]
      /\ HeldAt["startCompress"] = HeldAt["setDefaults"] \union {"rowData"}
      /\ "permanent" \in Pools
  BY PlacesSpelt
  DEF SetDefaults, Follows, PoolPlaces, BufferPlaces, HeldAt, Pools, MayBeNull
<1>2. CASE GrowPool("permanent") /\ pc' = pc
  BY <1>1, <1>2, GrowPoolKeeps
<1>3. CASE ErrorExit
  BY <1>3, EndKeeps DEF ErrorExit, Ends
<1>4. CASE Malloc("rowData", "startCompress")
  BY <1>1, <1>4, MallocKeeps
<1>5. QED BY <1>2, <1>3, <1>4 DEF SetDefaults

LEMMA StartCompressKeeps == IInv /\ StartCompress => IInv'
<1> SUFFICES ASSUME IInv, StartCompress PROVE IInv'
  OBVIOUS
<1>1. CASE GrowPool("image") /\ pc' \in {pc, "scan"}
  <2>1. /\ "startCompress" \in Places /\ pc = "startCompress"
        /\ pc' \in PoolPlaces /\ Follows(pc')
        /\ HeldAt[pc'] = HeldAt["startCompress"] /\ "image" \in Pools
    BY <1>1, PlacesSpelt
    DEF StartCompress, Follows, PoolPlaces, BufferPlaces, HeldAt, Pools
  <2>2. PICK next \in PoolPlaces :
          /\ pc' = next /\ Follows(next)
          /\ HeldAt[next] = HeldAt["startCompress"]
    BY <2>1
  <2>3. QED BY <1>1, <2>1, <2>2, GrowPoolKeeps
<1>2. CASE ErrorExit
  BY <1>2, EndKeeps DEF ErrorExit, Ends
<1>3. QED BY <1>1, <1>2 DEF StartCompress

\* No memory for the next buffer.
LEMMA GrowFailsKeeps == IInv /\ GrowFails => IInv'
<1> SUFFICES ASSUME IInv, GrowFails PROVE IInv'
  OBVIOUS
<1>1. QED BY EndKeeps DEF GrowFails, ErrorExit, Ends

\* The end of a command.
LEMMA DeleteImgKeeps == IInv /\ DeleteImg => IInv'
<1> SUFFICES ASSUME IInv, DeleteImg PROVE IInv'
  OBVIOUS
<1>1. /\ pc = "deleteImg" /\ FreeBlock("img", "prompt")
      /\ ptr' = NoPointers
      /\ pc' = "prompt" /\ pools' = pools
  BY DEF DeleteImg, FreeBlock
<1>2. /\ "deleteImg" \in Places /\ "prompt" \in Places
      /\ HeldAt["deleteImg"] = {"img"} /\ HeldAt["prompt"] = {}
      /\ "img" \in Pointers
  BY PlacesSpelt, PointersSpelt DEF HeldAt
<1>3. HeapTypeOK /\ Owned({"img"}) /\ misused = {}
  BY <1>1, <1>2 DEF IInv
<1>4. HeapTypeOK' /\ Owned({"img"} \ {"img"})' /\ misused' = misused
  BY <1>1, <1>2, <1>3, FreeOwned DEF NoPointers
<1>5. Owned({})'
  <2>1. {"img"} \ {"img"} = {}
    OBVIOUS
  <2>2. QED BY <1>4, <2>1
<1>6. \A place \in Places : pc' = place => Owned(HeldAt[place])'
  BY <1>1, <1>2, <1>5
<1>7. PoolsOnlyMeanwhile' /\ OneBuffer'
  BY <1>1, <1>2
  DEF IInv, PoolsOnlyMeanwhile, OneBuffer, PoolPlaces, BufferPlaces
<1>8. QED BY <1>3, <1>4, <1>6, <1>7 DEF IInv

\* A step that changes nothing.
LEMMA NothingKeeps == IInv /\ UNCHANGED vars => IInv'
BY DEF vars, IInv, HeapTypeOK, Owned, HeldLive, HeldDistinct, PooledLive,
       PooledApart, PoolsDisjoint, AllHeld, Free, PoolsOnlyMeanwhile, OneBuffer

\* No step of a command, and no failure of an allocation, breaks the invariant.
LEMMA NextKeeps == IInv /\ [Next]_vars => IInv'
<1> SUFFICES ASSUME IInv, [Next]_vars PROVE IInv'
  OBVIOUS
<1>1. CASE Command
  BY <1>1, CommandKeeps
<1>2. CASE NewData
  BY <1>2, NewDataKeeps
<1>3. CASE NewTemp
  BY <1>3, NewTempKeeps
<1>4. CASE Reverse
  BY <1>4, ReverseKeeps
<1>5. CASE DeleteTemp
  BY <1>5, DeleteTempKeeps
<1>6. CASE SendJpeg
  BY <1>6, SendJpegKeeps
<1>7. CASE CreateCompress
  BY <1>7, CreateCompressKeeps
<1>8. CASE NewDestination
  BY <1>8, NewDestinationKeeps
<1>9. CASE InitialBuffer
  BY <1>9, InitialBufferKeeps
<1>10. CASE SetDefaults
  BY <1>10, SetDefaultsKeeps
<1>11. CASE StartCompress
  BY <1>11, StartCompressKeeps
<1>12. CASE WriteScanline
  BY <1>12, WriteScanlineKeeps
<1>13. CASE Grow
  BY <1>13, GrowKeeps
<1>14. CASE GrowFails
  BY <1>14, GrowFailsKeeps
<1>15. CASE FreeRow
  BY <1>15, FreeRowKeeps
<1>16. CASE FinishCompress
  BY <1>16, FinishCompressKeeps
<1>17. CASE DestroyCompress
  BY <1>17, DestroyCompressKeeps
<1>18. CASE AlignedAlloc
  BY <1>18, AlignedAllocKeeps
<1>19. CASE CopyJpeg
  BY <1>19, CopyJpegKeeps
<1>20. CASE FreeTmp
  BY <1>20, FreeTmpKeeps
<1>21. CASE SendRaw
  BY <1>21, SendRawKeeps
<1>22. CASE CopyRaw
  BY <1>22, CopyRawKeeps
<1>23. CASE NewBuff
  BY <1>23, NewBuffKeeps
<1>24. CASE Pack
  BY <1>24, PackKeeps
<1>25. CASE SendData
  BY <1>25, SendDataKeeps
<1>26. CASE DeleteBuff
  BY <1>26, DeleteBuffKeeps
<1>27. CASE FreeImgData
  BY <1>27, FreeImgDataKeeps
<1>28. CASE DeleteData
  BY <1>28, DeleteDataKeeps
<1>29. CASE DeleteImg
  BY <1>29, DeleteImgKeeps
<1>30. CASE Ended
  BY <1>30, NothingKeeps DEF Ended
<1>31. CASE UNCHANGED vars
  BY <1>31, NothingKeeps
<1>32. QED
  BY <1>1, <1>2, <1>3, <1>4, <1>5, <1>6, <1>7, <1>8, <1>9, <1>10, <1>11,
     <1>12, <1>13, <1>14, <1>15, <1>16, <1>17, <1>18, <1>19, <1>20, <1>21,
     <1>22, <1>23, <1>24, <1>25, <1>26, <1>27, <1>28, <1>29, <1>30, <1>31
  DEF Next

-----------------------------------------------------------------------------
(* The theorems.                                                           *)

\* At every place of the program the blocks in use are those the table gives,
\* for any number of addresses and wherever the allocators put a block.
THEOREM MemoryInvariant == Spec => []IInv
<1>1. Init => IInv
  BY InitKeeps
<1>2. IInv /\ [Next]_vars => IInv'
  BY NextKeeps
<1>3. QED BY <1>1, <1>2, PTL DEF Spec

\* No block is used after it was freed, freed twice or freed in another way
\* than it was allocated (main.cpp, jdatadst.c, jmemmgr.c).
THEOREM HeapAlwaysRespected == Spec => []HeapRespected
<1>1. IInv => HeapRespected
  BY DEF IInv, HeapRespected
<1>2. QED BY <1>1, MemoryInvariant, PTL

\* A command that comes to its end leaves no block behind, however often the
\* buffer of its JPEG grew.
THEOREM NothingEverLeaked == Spec => []NothingLeaked
<1>1. IInv => NothingLeaked
  <2> SUFFICES ASSUME IInv, pc = "prompt", NEW a \in Addresses PROVE Free(a)
    BY DEF NothingLeaked
  <2>1. "prompt" \in Places /\ HeldAt["prompt"] = {}
        /\ "prompt" \notin PoolPlaces
    BY PlacesSpelt DEF HeldAt, PoolPlaces
  <2>2. Owned({}) /\ \A pool \in Pools : pools[pool] = {}
    BY <2>1 DEF IInv, PoolsOnlyMeanwhile
  <2>3. QED BY <2>2 DEF Owned, AllHeld
<1>2. QED BY <1>1, MemoryInvariant, PTL
=============================================================================
