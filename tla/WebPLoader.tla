------------------------------ MODULE WebPLoader ------------------------------
(***************************************************************************)
(* The loader of WebP images: it feeds the file to an incremental decoder, *)
(* piece by piece, and gives every row that became complete to a callback. *)
(* The decoder (libwebp) is external: how many rows it completes with the  *)
(* bytes it has is its choice.                                             *)
(***************************************************************************)
EXTENDS MemoryStream

CONSTANTS
  HEADER_CHUNK_SIZE, READ_BUFF_SIZE,
  HeaderNeeds,   \* how many bytes WebPGetFeatures may need
  Height         \* the rows of the image

ASSUME WebpAssumption ==
  /\ HEADER_CHUNK_SIZE \in Nat \ {0}
  /\ READ_BUFF_SIZE \in Nat \ {0}
  /\ Height \in Nat

VARIABLES
  webp,          \* "init", "append", "report", "ok", "error", or None
  sz_data,       \* info->sz_data
  appended,      \* bytes the decoder got
  decoded,       \* rows it completed
  last_last_y,
  rows,          \* the rows given to the callback
  whole          \* the file is not truncated

wvars == <<webp, sz_data, appended, decoded, last_last_y, rows, whole>>

(* One round of the loop of __mg_init_webp.                                *)
InitWebp ==
  /\ webp = "init"
  /\ LET n == Items(1, HEADER_CHUNK_SIZE) IN
     IF sz_data + HEADER_CHUNK_SIZE > READ_BUFF_SIZE \/ n = 0
       THEN /\ webp' = "error"
            /\ UNCHANGED <<here, sz_data>>
       ELSE /\ here' = here + n
            /\ sz_data' = sz_data + n
            /\ \E needs \in HeaderNeeds :
                 webp' \in IF sz_data + n >= needs THEN {"append", "error"} ELSE {"init"}
  /\ UNCHANGED <<data, appended, decoded, last_last_y, rows, whole>>

(* WebPIAppend: the decoder completes some rows, all of them when it has   *)
(* the whole file, or finds the data broken.                               *)
Feed ==
  /\ webp = "append"
  /\ \/ /\ appended' = appended + sz_data
        /\ decoded' \in decoded .. Height
        /\ whole /\ appended + sz_data = Len(data) => decoded' = Height
        /\ webp' = "report"
     \/ /\ webp' = "error"
        /\ UNCHANGED <<appended, decoded>>
  /\ UNCHANGED <<data, here, sz_data, last_last_y, rows, whole>>

(* The rows that are new, and the next piece of the file.                  *)
NextRow == decoded                \* mutant: last_y is not decremented
LastRow == decoded - 1

Report ==
  /\ webp = "report"
  /\ \/ /\ decoded > 0 /\ LastRow > last_last_y
        /\ rows' = rows \o [i \in 1 .. LastRow - last_last_y |-> last_last_y + i]
        /\ last_last_y' = LastRow
     \/ /\ ~(decoded > 0 /\ LastRow > last_last_y)
        /\ UNCHANGED <<rows, last_last_y>>
  /\ LET n == Items(1, READ_BUFF_SIZE) IN
       /\ here' = here + n
       /\ sz_data' = IF n > 0 THEN n ELSE sz_data
       /\ webp' = IF n > 0 THEN "append" ELSE "ok"
  /\ UNCHANGED <<data, appended, decoded, whole>>

WebpNext == InitWebp \/ Feed \/ Report

(* Every row is given to the callback once, in order, and only when the    *)
(* decoder completed it; the pieces read from the stream reach the decoder *)
(* without a gap; and a whole file that is loaded has all its rows shown   *)
(* (__mg_load_webp).                                                       *)
RowsOnce ==
  /\ rows = [i \in 1 .. last_last_y + 1 |-> i - 1]
  /\ last_last_y < decoded
  /\ webp = "append" => appended + sz_data = here
  /\ webp = "ok" => /\ Len(rows) = decoded
                    /\ whole => Len(rows) = Height
=============================================================================
