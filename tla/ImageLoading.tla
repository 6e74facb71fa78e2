----------------------------- MODULE ImageLoading -----------------------------
(* The two loaders over one stream: each looks at the first bytes, and the *)
(* one that knows them loads the image from the beginning.                 *)
EXTENDS BitmapLoader, WebPLoader

CONSTANTS
  Bitmaps,       \* headers, with the bytes of their files
  WebpFiles      \* files of the other kind: their bytes and whether whole

(* Bitmaps are complete files, regular or not, and WebP files any bytes.   *)
ASSUME FilesAssumption ==
  /\ \A b \in Bitmaps : b.data \in Seq(0 .. 255) /\ FileCoded(b.header, b.data)
  /\ \A f \in WebpFiles : f.data \in Seq(0 .. 255) /\ f.whole \in BOOLEAN

vars == <<stream, bvars, wvars>>

IdleWebp ==
  /\ sz_data = 0 /\ appended = 0 /\ decoded = 0
  /\ last_last_y = -1 /\ rows = <<>>

Init ==
  /\ here = 0 /\ bmp = "check" /\ webp = "check"
  /\ line = 0 /\ pos = 0 /\ shown = <<>> /\ IdleWebp
  /\ \/ \E b \in Bitmaps :
          /\ header = b.header /\ data = b.data /\ whole = FALSE
          /\ bits = [i \in 0 .. IF b.header.one THEN 0 ELSE b.header.biHeight - 1 |-> b.header.blank]
     \/ \E f \in WebpFiles :
          /\ header = [bfType |-> 0] /\ bits = <<>>
          /\ data = f.data /\ whole = f.whole

(* __mg_check_bmp and __mg_check_webp, and the way back to the start; what *)
(* WebPGetInfo says of other files is libwebp's choice.                    *)
CheckBmp == Items(1, 2) = 2 /\ header.bfType = 19778
WebPGetInfo == IF header.bfType = 19778 THEN {FALSE} ELSE BOOLEAN
CheckWebp(info) == Items(1, 12) = 12 /\ info

Check ==
  /\ bmp = "check" /\ webp = "check"
  /\ bmp' = IF CheckBmp THEN "init" ELSE "none"
  /\ \E info \in WebPGetInfo : webp' = IF ~CheckBmp /\ CheckWebp(info) THEN "init" ELSE "none"
  /\ here' = SeekTo(0, "SEEK_SET")
  /\ UNCHANGED <<data, header, line, pos, bits, shown, sz_data, appended, decoded,
                 last_last_y, rows, whole>>

Next ==
  \/ Check
  \/ BmpNext /\ UNCHANGED wvars
  \/ WebpNext /\ UNCHANGED bvars

Spec == Init /\ [][Next]_vars
=============================================================================
