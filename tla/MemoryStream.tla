----------------------------- MODULE MemoryStream -----------------------------
(* A stream over an area of memory (MGUI_RWFromMem): what is read, and     *)
(* where the position goes.                                                *)
EXTENDS Integers, Sequences

VARIABLES
  data,     \* the bytes from hidden.mem.base to hidden.mem.stop
  here      \* hidden.mem.here, counted from the base

stream == <<data, here>>

(* mem_seek: the position it moves to and returns, kept inside the area.   *)
SeekTo(offset, whence) ==
  LET to == CASE whence = "SEEK_SET" -> offset
              [] whence = "SEEK_CUR" -> here + offset
              [] whence = "SEEK_END" -> Len(data) + offset
  IN  IF to < 0 THEN 0 ELSE IF to > Len(data) THEN Len(data) ELSE to

(* mem_read: how many whole items it copies.                               *)
Items(size, maxnum) ==
  IF here + maxnum * size > Len(data) THEN (Len(data) - here) \div size ELSE maxnum

Byte(at) == data[at + 1]
=============================================================================
