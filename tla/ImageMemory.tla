----------------------------- MODULE ImageMemory -----------------------------
(***************************************************************************)
(* The memory of the server's console: what a "Test" or "TestJpeg" command *)
(* allocates in MockGrabImage, SendImage and EncodeImageToJpegByteStream   *)
(* (main.cpp), and what libjpeg allocates for it, in its pools (jmemmgr.c) *)
(* and for the memory destination, whose buffer is doubled as often as the *)
(* image needs it (jdatadst.c).                                            *)
(*                                                                         *)
(* Blocks are addresses, which may be given out again once they are free;  *)
(* sizes are left out.  Every allocation may fail.  The TimeCounter, made  *)
(* once and kept, is left out, and so are files and stdio.                 *)
(***************************************************************************)
EXTENDS Naturals

CONSTANTS
  Addresses,   \* where blocks may be
  NULL

ASSUME NullAssumption == NULL \notin Addresses

VARIABLES
  pc,          \* where main, or the end of the process, is
  heap,        \* what each block was allocated with, or "unused"
  ptr,         \* the pointers
  pools,       \* the blocks of the pools of the JPEG object
  misused      \* history: pointers freed or followed wrongly

vars == <<pc, heap, ptr, pools, misused>>

\* What the block of each pointer must have been allocated with.  On POSIX
\* the blocks of aligned_alloc are freed by free.
Operation ==
  [img |-> "new", data |-> "newArray", temp |-> "newArray", mem |-> "malloc",
   rowData |-> "malloc", newbuffer |-> "malloc", buffer |-> "malloc",
   tmpBuffer |-> "malloc", imgData |-> "malloc", buff |-> "newArray"]

Pointers == DOMAIN Operation
Pools == {"permanent", "image"}

NoPointers == [p \in Pointers |-> NULL]

Init ==
  /\ pc = "prompt"
  /\ heap = [a \in Addresses |-> "unused"]
  /\ ptr = NoPointers
  /\ pools = [pool \in Pools |-> {}]
  /\ misused = {}

-----------------------------------------------------------------------------
(* The allocators.                                                         *)

Free(a) == heap[a] = "unused"

\* A block for p, which its function goes on with at "next".
Allocate(p, next) ==
  \E a \in Addresses :
    /\ Free(a)
    /\ heap' = [heap EXCEPT ![a] = Operation[p]]
    /\ ptr' = [ptr EXCEPT ![p] = a]
    /\ pc' = next
    /\ UNCHANGED <<pools, misused>>

\* The process is over; what it does with its memory does not matter any more.
End(how) ==
  /\ pc' = how
  /\ UNCHANGED <<heap, ptr, pools, misused>>

\* new throws std::bad_alloc, which nothing catches.
New(p, next) == Allocate(p, next) \/ End("terminated")

\* malloc may return NULL, which the program does not look at.
Malloc(p, next) ==
  \/ Allocate(p, next)
  \/ /\ ptr' = [ptr EXCEPT ![p] = NULL]
     /\ pc' = next
     /\ UNCHANGED <<heap, pools, misused>>

\* free, delete and delete[]: nothing for NULL, and for any other pointer only
\* that of a block allocated in the same way.
FreeBlock(p, next) ==
  /\ IF ptr[p] = NULL
     THEN UNCHANGED <<heap, misused>>
     ELSE /\ heap' = [heap EXCEPT ![ptr[p]] = "unused"]
          /\ misused' = IF heap[ptr[p]] = Operation[p] THEN misused
                        ELSE misused \union {p}
  /\ pc' = next
  /\ UNCHANGED pools

Release(p, next) == FreeBlock(p, next) /\ UNCHANGED ptr

\* Pointers among these whose block is not theirs (any more).
Dangling(ps) == {p \in ps : ptr[p] # NULL /\ Free(ptr[p])}

\* A function goes on to "next", reading or writing these blocks.
Use(ps, next) ==
  /\ misused' = misused \union Dangling(ps)
  /\ pc' = next
  /\ UNCHANGED <<heap, ptr, pools>>

-----------------------------------------------------------------------------
(* MockGrabImage.                                                          *)

\* "Test" or "TestJpeg": new RorzeImage.
Command == pc = "prompt" /\ New("img", "data")

\* Without the file, and with one stored top-down, the data is not turned over.
NewData ==
  /\ pc = "data"
  /\ \E next \in {"reverse", "sendImage"} : New("data", next)

NewTemp == pc = "reverse" /\ New("temp", "copy")
Reverse == pc = "copy" /\ Use({"data", "temp"}, "deleteTemp")
DeleteTemp == pc = "deleteTemp" /\ Release("temp", "sendImage")

-----------------------------------------------------------------------------
(* EncodeImageToJpegByteStream.                                            *)

\* ERREXIT.  cinfo.err is set by jpeg_std_error, after jpeg_create_compress and
\* jpeg_mem_dest; before it is what happens to be there.
ErrorExit ==
  End(IF pc \in {"createCompress", "memDest", "initialBuffer"} THEN "wild"
      ELSE "exited")

SendJpeg ==
  /\ pc = "sendImage"
  /\ pc' = "createCompress"
  /\ ptr' = [ptr EXCEPT !["imgData"] = NULL, !["tmpBuffer"] = NULL]
  /\ UNCHANGED <<heap, pools, misused>>

\* jinit_memory_mgr
CreateCompress ==
  /\ pc = "createCompress"
  /\ Allocate("mem", "memDest") \/ ErrorExit

\* alloc_small and the like, as often as a call needs a new block.
GrowPool(pool) ==
  \E a \in Addresses :
    /\ Free(a)
    /\ heap' = [heap EXCEPT ![a] = "malloc"]
    /\ pools' = [pools EXCEPT ![pool] = @ \union {a}]
    /\ UNCHANGED <<ptr, misused>>

\* jpeg_mem_dest: the destination is in the permanent pool.
NewDestination ==
  /\ pc = "memDest"
  /\ \/ GrowPool("permanent") /\ pc' = "initialBuffer"
     \/ ErrorExit

InitialBuffer ==
  /\ pc = "initialBuffer"
  /\ \/ \E a \in Addresses :
          /\ Free(a)
          /\ heap' = [heap EXCEPT ![a] = "malloc"]
          /\ ptr' = [ptr EXCEPT !["newbuffer"] = a, !["buffer"] = a,
                                !["tmpBuffer"] = a]
          /\ pc' = "setDefaults"
          /\ UNCHANGED <<pools, misused>>
     \/ ErrorExit

\* jpeg_set_defaults and jpeg_set_quality make their tables.
SetDefaults ==
  /\ pc = "setDefaults"
  /\ \/ GrowPool("permanent") /\ pc' = pc
     \/ ErrorExit
     \/ Malloc("rowData", "startCompress")

StartCompress ==
  /\ pc = "startCompress"
  /\ \/ GrowPool("image") /\ pc' \in {pc, "scan"}
     \/ ErrorExit

\* A line is copied to rowData and encoded, into the room that is left.
WriteScanline ==
  /\ pc = "scan"
  /\ IF ptr["rowData"] = NULL THEN End("crashed")
     ELSE Use({"data", "rowData", "mem", "buffer"}, "scan")

\* The new buffer forgets the one before it.
GrowLeaks ==
  /\ pc \in {"scan", "finishCompress"}
  /\ \E a \in Addresses :
       /\ Free(a)
       /\ heap' = [heap EXCEPT ![a] = "malloc"]
       /\ ptr' = [ptr EXCEPT !["newbuffer"] = a, !["buffer"] = a]
  /\ misused' = misused \union Dangling({"buffer"})
  /\ UNCHANGED <<pc, pools>>

\* empty_mem_output_buffer, while a line is written or the image is finished.
Grow ==
  /\ pc \in {"scan", "finishCompress"}
  /\ \E a \in Addresses :
       /\ Free(a)
       /\ heap' = IF ptr["newbuffer"] = NULL
                  THEN [heap EXCEPT ![a] = "malloc"]
                  ELSE [heap EXCEPT ![a] = "malloc",
                                    ![ptr["newbuffer"]] = "unused"]
       /\ ptr' = [ptr EXCEPT !["newbuffer"] = a, !["buffer"] = a]
  /\ misused' = misused \union Dangling({"buffer", "newbuffer"})
  /\ UNCHANGED <<pc, pools>>

GrowFails == pc \in {"scan", "finishCompress"} /\ ErrorExit

\* All lines are written: free(rowData).
FreeRow == pc = "scan" /\ Release("rowData", "finishCompress")

FreedBlocks(blocks) ==
  [a \in Addresses |-> IF a \in blocks THEN "unused" ELSE heap[a]]

\* The caller's pointer is left as it was when the image was begun.
FinishForgets ==
  /\ pc = "finishCompress"
  /\ misused' = misused \union Dangling({"buffer"})
  /\ heap' = FreedBlocks(pools["image"])
  /\ pools' = [pools EXCEPT !["image"] = {}]
  /\ pc' = "destroyCompress"
  /\ UNCHANGED ptr

\* jpeg_finish_compress with term_mem_destination and jpeg_abort
FinishCompress ==
  /\ pc = "finishCompress"
  /\ misused' = misused \union Dangling({"buffer"})
  /\ ptr' = [ptr EXCEPT !["tmpBuffer"] = ptr["buffer"]]
  /\ heap' = FreedBlocks(pools["image"])
  /\ pools' = [pools EXCEPT !["image"] = {}]
  /\ pc' = "destroyCompress"

\* The blocks of all pools.
Pooled == UNION {pools[pool] : pool \in Pools}

\* self_destruct
DestroyCompress ==
  /\ pc = "destroyCompress"
  /\ heap' = FreedBlocks(Pooled \union {ptr["mem"]})
  /\ pools' = [pool \in Pools |-> {}]
  /\ misused' = misused \union Dangling({"mem"})
  /\ pc' = "alignedAlloc"
  /\ UNCHANGED ptr

AlignedAlloc == pc = "alignedAlloc" /\ Malloc("imgData", "copyJpeg")

CopyJpeg ==
  /\ pc = "copyJpeg"
  /\ IF ptr["imgData"] = NULL THEN End("crashed")
     ELSE Use({"imgData", "tmpBuffer"}, "freeTmp")

FreeTmp == pc = "freeTmp" /\ Release("tmpBuffer", "newBuff")

-----------------------------------------------------------------------------
(* SendImage and the end of the command.                                   *)

SendRaw == pc = "sendImage" /\ Malloc("imgData", "copyRaw")

\* Without channels there is nothing to copy, and NULL does no harm.
CopyRaw ==
  /\ pc = "copyRaw"
  /\ \/ Use({"data", "imgData"}, "newBuff")
     \/ ptr["imgData"] = NULL /\ End("crashed")

NewBuff == pc = "newBuff" /\ New("buff", "pack")

Pack == pc = "pack" /\ Use({"img", "imgData", "buff"}, "sendData")

\* SendData, which may end the server.
SendData ==
  /\ pc = "sendData"
  /\ Use({"buff"}, "deleteBuff") \/ End("killed")

DeleteBuff == pc = "deleteBuff" /\ Release("buff", "freeImgData")
FreeImgData == pc = "freeImgData" /\ Release("imgData", "deleteData")
DeleteData == pc = "deleteData" /\ Release("data", "deleteImg")

\* The command is over, and its variables with it.
DeleteImg ==
  /\ pc = "deleteImg"
  /\ FreeBlock("img", "prompt")
  /\ ptr' = NoPointers


Ends == {"terminated", "exited", "wild", "crashed", "killed"}
Ended == pc \in Ends /\ UNCHANGED vars

Next ==
  \/ Command \/ NewData \/ NewTemp \/ Reverse \/ DeleteTemp
  \/ SendJpeg \/ CreateCompress \/ NewDestination \/ InitialBuffer
  \/ SetDefaults \/ StartCompress \/ WriteScanline \/ Grow \/ GrowFails
  \/ FreeRow \/ FinishCompress \/ DestroyCompress
  \/ AlignedAlloc \/ CopyJpeg \/ FreeTmp
  \/ SendRaw \/ CopyRaw \/ NewBuff \/ Pack \/ SendData
  \/ DeleteBuff \/ FreeImgData \/ DeleteData \/ DeleteImg
  \/ Ended

Spec == Init /\ [][Next]_vars

-----------------------------------------------------------------------------
(* Properties.                                                             *)

\* No block is used after it was freed, freed twice, or freed in another way
\* than it was allocated: although tmpBuffer points to a block that is freed
\* as soon as the image outgrows it, and the JPEG is handed from the library
\* to main.cpp and from there to SendImage.
HeapRespected == misused = {}

\* Between two commands nothing of the image is left, however often its buffer
\* grew.
NothingLeaked == pc = "prompt" => \A a \in Addresses : Free(a)
=============================================================================
