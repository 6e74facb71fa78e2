------------------------- MODULE ImageLoading_proofs -------------------------
(***************************************************************************)
(* The image loaders give every row and every pixel of a file, for files,  *)
(* buffers and decoders of any size.                                       *)
(***************************************************************************)
EXTENDS ImageLoading, WellFoundedInduction, TLAPS

(* The WebP loader: the bytes that were read are those the decoder got and *)
(* those that wait in the buffer, and the callback got the rows up to      *)
(* last_last_y.                                                            *)
WebpInv ==
  /\ data \in Seq(0 .. 255)
  /\ whole \in BOOLEAN
  /\ webp \in {"check", "none", "init", "append", "report", "ok", "error"}
  /\ webp = "check" => bmp = "check"
  /\ webp \notin {"check", "none"} => bmp = "none" /\ here \in 0 .. Len(data)
  /\ sz_data \in Nat /\ appended \in Nat
  /\ decoded \in 0 .. Height
  /\ last_last_y \in -1 .. decoded - 1
  /\ rows = [i \in 1 .. last_last_y + 1 |-> i - 1]
  /\ webp \in {"check", "none", "init"} =>
       appended = 0 /\ decoded = 0 /\ (webp # "init" => sz_data = 0)
  /\ webp = "init" => sz_data = here
  /\ webp = "append" => appended + sz_data = here
  /\ webp = "report" => appended = here /\ (whole /\ here = Len(data) => decoded = Height)
  /\ webp = "ok" => last_last_y = decoded - 1 /\ (whole => decoded = Height)

(* The bitmap loader: line l is read up to piece k, which begins at the    *)
(* byte the stream is at; what is left of the line is as it was before.    *)
Partial(h, l, k, before) ==
  [x \in DOMAIN before |->
     IF x < l.from[k] THEN Says(l, before)[x]
     ELSE IF h.biCompression = "BI_RLE4" /\ x = l.from[k] /\ x % 2 = 1 THEN 0
     ELSE before[x]]

Line == header.lines[line]
Before == IF header.one /\ shown # <<>> THEN shown[Len(shown)][2] ELSE header.blank
Slots == 0 .. (IF header.one THEN 0 ELSE header.biHeight - 1)

AtPiece(k) ==
  /\ here = Line.at[k]
  /\ pos = Line.from[k]
  /\ Pixels = Partial(header, Line, k, Before)
Reading ==
  /\ line \in Given(header)
  /\ \E k \in 1 .. EndOf(Line) : AtPiece(k) /\ (~Packing(header) => k = 1)

(* The lines below the one that is read were given to the callback, or are *)
(* in the buffer.                                                          *)
ShownBefore(k) == IF k = 1 THEN header.blank ELSE shown[k - 1][2]
ShownExact ==
  /\ shown \in Seq({shown[k] : k \in 1 .. Len(shown)})
  /\ \A k \in 1 .. Len(shown) : Row(header, shown[k][2])
  /\ header.one =>
       /\ Len(shown) = header.biHeight - 1 - line
       /\ \A k \in 1 .. Len(shown) :
            shown[k] = <<header.biHeight - k, Says(header.lines[header.biHeight - k], ShownBefore(k))>>
BitsExact ==
  /\ bits = [i \in Slots |-> bits[i]]
  /\ ~header.one =>
       \A i \in Slots : /\ i > line => bits[i] = Says(header.lines[i], header.blank)
                        /\ i < line => bits[i] = header.blank

RegularInv ==
  /\ bmp \notin {"error", "overrun"}
  /\ bmp \in {"check", "init"} => pos = 0 /\ shown = <<>> /\ bits = [i \in Slots |-> header.blank]
  /\ bmp \in {"load", "ok"} => ShownExact /\ BitsExact
  /\ bmp = "load" => Reading
  /\ bmp = "ok" =>
       /\ here = Len(data) /\ line \in -1 .. header.biHeight - 2
       /\ ~header.one /\ line \in Slots => bits[line] = header.blank

BmpInv ==
  /\ bmp \in {"check", "none", "init", "load", "ok", "error", "overrun"}
  /\ \/ header.bfType = 0 /\ bmp \in {"check", "none"}
     \/ /\ FileCoded(header, data)
        /\ bmp # "none" /\ Regular(header) => RegularInv

-----------------------------------------------------------------------------
(* The WebP loader.                                                        *)

(* A read gives some of the bytes that are left, and none only at the end. *)
LEMMA SomeItems ==
  ASSUME data \in Seq(0 .. 255), here \in 0 .. Len(data), NEW most \in Nat \ {0}
  PROVE  /\ Items(1, most) \in Nat
         /\ here + Items(1, most) \in 0 .. Len(data)
         /\ Items(1, most) = 0 => here = Len(data)
<1> PICK size \in Nat : size = Len(data)
  OBVIOUS
<1> QED
  BY DEF Items

LEMMA WebpInit == Init => WebpInv
<1> SUFFICES ASSUME Init PROVE WebpInv
  OBVIOUS
<1>1. data \in Seq(0 .. 255) /\ whole \in BOOLEAN
  BY FilesAssumption DEF Init
<1>2. <<>> = [i \in 1 .. -1 + 1 |-> i - 1]
  OBVIOUS
<1>3. /\ here = 0 /\ bmp = "check" /\ webp = "check"
      /\ sz_data = 0 /\ appended = 0 /\ decoded = 0 /\ last_last_y = -1 /\ rows = <<>>
  BY DEF Init, IdleWebp
<1>4. decoded \in 0 .. Height /\ last_last_y \in -1 .. decoded - 1
  BY <1>3, WebpAssumption
<1> QED
  BY <1>1, <1>2, <1>3, <1>4 DEF WebpInv

LEMMA CheckWebpInv == WebpInv /\ Check => WebpInv'
<1> SUFFICES ASSUME WebpInv, Check PROVE WebpInv'
  OBVIOUS
<1>1. here' = 0 /\ Len(data) \in Nat
  BY DEF Check, SeekTo, WebpInv
<1>2. /\ webp' \in {"init", "none"} /\ bmp' \in {"init", "none"}
      /\ webp' = "init" => bmp' = "none"
  BY DEF Check
<1> QED
  BY <1>1, <1>2 DEF Check, WebpInv

LEMMA InitWebpInv == WebpInv /\ InitWebp /\ UNCHANGED bvars => WebpInv'
<1> SUFFICES ASSUME WebpInv, InitWebp, UNCHANGED bvars PROVE WebpInv'
  OBVIOUS
<1>1. CASE sz_data + HEADER_CHUNK_SIZE > READ_BUFF_SIZE \/ Items(1, HEADER_CHUNK_SIZE) = 0
  BY <1>1 DEF InitWebp, WebpInv, bvars
<1>2. CASE ~(sz_data + HEADER_CHUNK_SIZE > READ_BUFF_SIZE \/ Items(1, HEADER_CHUNK_SIZE) = 0)
  <2> PICK n : n = Items(1, HEADER_CHUNK_SIZE)
    OBVIOUS
  <2>1. n \in Nat /\ here + n \in 0 .. Len(data)
    BY SomeItems, WebpAssumption DEF InitWebp, WebpInv
  <2>2. /\ here' = here + n /\ sz_data' = sz_data + n
        /\ webp' \in {"append", "error", "init"}
    BY <1>2 DEF InitWebp
  <2> QED
    BY <2>1, <2>2 DEF InitWebp, WebpInv, bvars
<1> QED
  BY <1>1, <1>2

LEMMA FeedInv == WebpInv /\ Feed /\ UNCHANGED bvars => WebpInv'
<1> SUFFICES ASSUME WebpInv, Feed, UNCHANGED bvars PROVE WebpInv'
  OBVIOUS
<1>1. CASE webp' = "error"
  BY <1>1 DEF Feed, WebpInv, bvars
<1>2. CASE webp' = "report"
  <2>1. /\ appended' = here /\ decoded' \in decoded .. Height
        /\ whole /\ here = Len(data) => decoded' = Height
    BY <1>2 DEF Feed, WebpInv
  <2>2. decoded' \in 0 .. Height /\ last_last_y' \in -1 .. decoded' - 1
    <3>1. decoded \in 0 .. Height /\ last_last_y \in -1 .. decoded - 1 /\ last_last_y' = last_last_y
      BY DEF Feed, WebpInv
    <3>2. Height \in Nat
      BY WebpAssumption
    <3> PICK d : d = decoded'
      OBVIOUS
    <3>3. decoded \in Int /\ decoded <= d /\ d <= Height /\ d \in Int
      BY <2>1, <3>1, <3>2
    <3>4. PICK l : l = last_last_y
      OBVIOUS
    <3>5. l \in -1 .. d - 1 /\ d \in 0 .. Height
      BY ONLY <3>1, <3>2, <3>3, <3>4, WebpAssumption
    <3> QED
      BY <3>1, <3>4, <3>5
  <2>3. /\ data' = data /\ here' = here /\ whole' = whole /\ rows' = rows
        /\ last_last_y' = last_last_y /\ sz_data' = sz_data /\ bmp' = bmp
        /\ here \in 0 .. Len(data)
    BY DEF Feed, bvars, WebpInv
  <2> QED
    <3>1. rows = [i \in 1 .. last_last_y + 1 |-> i - 1] /\ sz_data \in Nat /\ appended' = here
          /\ data \in Seq(0 .. 255) /\ whole \in BOOLEAN /\ bmp = "none" /\ Len(data) \in Nat
      BY <2>1, <1>2 DEF WebpInv, Feed
    <3>2. rows' = [i \in 1 .. last_last_y' + 1 |-> i - 1]
      BY <3>1, <2>3
    <3>3. whole' /\ here' = Len(data') => decoded' = Height
      BY <2>1, <2>3, <3>1
    <3>4. /\ data' \in Seq(0 .. 255) /\ whole' \in BOOLEAN /\ bmp' = "none"
          /\ here' \in 0 .. Len(data') /\ sz_data' \in Nat /\ appended' \in Nat
      BY <2>1, <2>3, <3>1
    <3> QED
      BY <1>2, <2>1, <2>2, <2>3, <3>2, <3>3, <3>4 DEF WebpInv
<1> QED
  BY <1>1, <1>2 DEF Feed

(* The rows that are new continue those that were given.                   *)
LEMMA MoreRows ==
  ASSUME NEW l \in Int, NEW m \in Int, -1 <= l, l < m, NEW s, s = [i \in 1 .. l + 1 |-> i - 1]
  PROVE  s \o [i \in 1 .. m - l |-> l + i] = [i \in 1 .. m + 1 |-> i - 1]
<1> DEFINE t == [i \in 1 .. m - l |-> l + i]
<1>1. s \in Seq(Int) /\ Len(s) = l + 1
  OBVIOUS
<1>2. t \in Seq(Int) /\ Len(t) = m - l
  OBVIOUS
<1>3. Len(s \o t) = m + 1 /\ s \o t \in Seq(Int)
  BY <1>1, <1>2
<1>4. ASSUME NEW i \in 1 .. m + 1 PROVE (s \o t)[i] = i - 1
  BY <1>1, <1>2
<1> HIDE DEF t
<1> QED
  BY <1>3, <1>4 DEF t

LEMMA ReportInv == WebpInv /\ Report /\ UNCHANGED bvars => WebpInv'
<1> SUFFICES ASSUME WebpInv, Report, UNCHANGED bvars PROVE WebpInv'
  OBVIOUS
<1>1. last_last_y' = decoded - 1 /\ rows' = [i \in 1 .. last_last_y' + 1 |-> i - 1]
  <2>1. CASE decoded > 0 /\ LastRow > last_last_y
    <3>1. /\ rows' = rows \o [i \in 1 .. (decoded - 1) - last_last_y |-> last_last_y + i]
          /\ last_last_y' = decoded - 1
      BY <2>1 DEF Report, LastRow
    <3> QED
      BY <2>1, <3>1, MoreRows DEF WebpInv, LastRow
  <2>2. CASE ~(decoded > 0 /\ LastRow > last_last_y)
    BY <2>2 DEF Report, LastRow, WebpInv
  <2> QED
    BY <2>1, <2>2
<1> PICK n : n = Items(1, READ_BUFF_SIZE)
  OBVIOUS
<1>2. n \in Nat /\ here + n \in 0 .. Len(data) /\ (n = 0 => here = Len(data))
  BY SomeItems, WebpAssumption DEF Report, WebpInv
<1>3. /\ here' = here + n /\ sz_data' = (IF n > 0 THEN n ELSE sz_data)
      /\ webp' = IF n > 0 THEN "append" ELSE "ok"
  BY DEF Report
<1> QED
  BY <1>1, <1>2, <1>3 DEF Report, WebpInv, bvars

LEMMA WebpStep == WebpInv /\ [Next]_vars => WebpInv'
<1> SUFFICES ASSUME WebpInv, [Next]_vars PROVE WebpInv'
  OBVIOUS
<1>1. CASE Check
  BY <1>1, CheckWebpInv
<1>2. CASE BmpNext /\ UNCHANGED wvars
  <2>1. bmp \in {"init", "load"} /\ data' = data
    BY <1>2 DEF BmpNext, InitBmp, LoadLine
  <2> QED
    BY <1>2, <2>1 DEF WebpInv, wvars
<1>3. CASE WebpNext /\ UNCHANGED bvars
  BY <1>3, InitWebpInv, FeedInv, ReportInv DEF WebpNext
<1>4. CASE UNCHANGED vars
  BY <1>4 DEF vars, stream, bvars, wvars, WebpInv
<1> QED
  BY <1>1, <1>2, <1>3, <1>4 DEF Next

(* Every row is given to the callback once, in order, when the decoder has *)
(* completed it, and all of them of a whole file that is loaded            *)
(* (__mg_load_webp), for buffers of any size and every decoder.            *)
THEOREM RowsGivenOnce == Spec => []RowsOnce
<1>1. WebpInv => RowsOnce
  <2> SUFFICES ASSUME WebpInv PROVE RowsOnce
    OBVIOUS
  <2>1. Len(rows) = last_last_y + 1
    BY DEF WebpInv
  <2> QED
    BY <2>1, WebpAssumption DEF WebpInv, RowsOnce
<1> QED
  BY <1>1, WebpInit, WebpStep, PTL DEF Spec

-----------------------------------------------------------------------------
(* The pieces of a line.                                                   *)

(* Induction up to a bound, by the set of the numbers that are right.      *)
LEMMA Upwards ==
  ASSUME NEW n \in Nat, NEW P, 0 \in P, \A i \in 1 .. n : i - 1 \in P => i \in P
  PROVE  0 .. n \subseteq P
<1> PICK R : R = OpToRel(<, Nat)
  OBVIOUS
<1>1. IsWellFoundedOn(R, Nat)
  BY NatLessThanWellFounded
<1>2. \A x, y \in Nat : x < y => <<x, y>> \in R
  BY DEF OpToRel
<1>3. SUFFICES ASSUME (0 .. n) \ P # {} PROVE FALSE
  OBVIOUS
<1> PICK Q : Q = (0 .. n) \ P
  OBVIOUS
<1>4. Q \subseteq Nat /\ Q # {} /\ \A j : j \in Q <=> (j \in 0 .. n /\ j \notin P)
  <2>1. \A i \in 0 .. n : i \in Nat
    BY ONLY n \in Nat
  <2> QED
    BY <1>3, <2>1, Zenon
<1>5. PICK i \in Q : \A j \in Q : <<j, i>> \notin R
  BY ONLY <1>1, <1>4, WFMin
<1>6. i \in 0 .. n /\ i \notin P
  BY <1>4, <1>5, Zenon
<1>7. i - 1 \in Nat /\ i - 1 < i /\ i - 1 \in 0 .. n /\ i \in 1 .. n /\ i \in Nat
  <2>1. i # 0
    BY <1>6, 0 \in P, Zenon
  <2> QED
    BY ONLY <2>1, <1>6, n \in Nat
<1>8. i - 1 \in P
  BY <1>2, <1>4, <1>5, <1>7
<1> QED
  BY <1>6, <1>7, <1>8

(* A sequence that never goes down from one element to the next.           *)
LEMMA Climbing ==
  ASSUME NEW n \in Nat, NEW f \in [1 .. n -> Nat], \A k \in 1 .. n - 1 : f[k] <= f[k + 1]
  PROVE  \A j, k \in 1 .. n : j <= k => f[j] <= f[k]
<1> TAKE j \in 1 .. n
<1> DEFINE P == {m \in Nat : j + m <= n => f[j] <= f[j + m]}
<1>1. 0 \in P
  OBVIOUS
<1>2. ASSUME NEW m \in 1 .. n, m - 1 \in P PROVE m \in P
  <2> SUFFICES ASSUME j + m <= n PROVE f[j] <= f[j + m]
    OBVIOUS
  <2>1. f[j] <= f[j + (m - 1)]
    BY <1>2
  <2>2. j + (m - 1) \in 1 .. n - 1 /\ (j + (m - 1)) + 1 = j + m
    OBVIOUS
  <2>3. f[j + (m - 1)] <= f[j + m]
    BY <2>2
  <2> QED
    BY <2>1, <2>2, <2>3
<1>3. 0 .. n \subseteq P
  <2> HIDE DEF P
  <2> QED
    BY <1>1, <1>2, Upwards
<1> TAKE k \in 1 .. n
<1> HAVE j <= k
<1>4. k - j \in 0 .. n /\ j + (k - j) = k
  OBVIOUS
<1>5. k - j \in P
  BY <1>3, <1>4
<1> QED
  BY <1>4, <1>5

LEMMA PitchIsNat ==
  ASSUME NEW h, HeaderCoded(h)
  PROVE  PitchOf(h) \in Nat
<1> PICK n : n = h.biWidth * h.biBitCount
  OBVIOUS
<1>1. n \in Nat
  BY DEF HeaderCoded
<1> QED
  BY <1>1 DEF PitchOf

LEMMA SizeIsNat ==
  ASSUME NEW h, NEW d, NEW p, NEW a, HeaderCoded(h), Coded(h, d, p, a)
  PROVE  Size(p) \in Nat /\ p.piece \in {"run", "skip", "list"}
<1>1. h.biWidth \in Nat /\ PitchOf(h) \in Nat
  BY PitchIsNat DEF HeaderCoded
<1>2. CASE At8(d, p, a) \/ At4(d, p, a)
  <2>1. \/ p.piece = "run" /\ p.n \in 1 .. 255
        \/ p.piece = "skip" /\ p.n \in 0 .. 255
        \/ p.piece = "list" /\ Len(p.pixels) \in 3 .. 255
    BY <1>2, Zenon DEF At8, At4
  <2>2. 1 .. 255 \subseteq Nat /\ 0 .. 255 \subseteq Nat /\ 3 .. 255 \subseteq Nat
    OBVIOUS
  <2>3. \/ p.piece = "run" /\ p.n \in Nat
        \/ p.piece = "skip" /\ p.n \in Nat
        \/ p.piece = "list" /\ Len(p.pixels) \in Nat
    BY <2>1, <2>2, Zenon
  <2> QED
    BY ONLY <2>3 DEF Size
<1>4. CASE At16(h, d, p, a)
  <2>1. p.piece = "list" /\ Len(p.pixels) = h.biWidth
    BY <1>4, Zenon DEF At16
  <2> QED
    BY ONLY <1>1, <2>1 DEF Size
<1>5. CASE AtRaw(h, d, p, a)
  BY <1>1, <1>5 DEF AtRaw, Size
<1> QED
  BY <1>2, <1>4, <1>5 DEF Coded

(* Where the pieces of a line and their bytes are.                         *)
LEMMA Places ==
  ASSUME NEW h, NEW d, NEW l, LineCoded(h, d, l)
  PROVE  /\ EndOf(l) \in Nat \ {0} /\ EndOf(l) - 1 = Len(l.pieces) /\ Len(l.pieces) \in Nat
         /\ \A k \in 1 .. EndOf(l) : l.from[k] \in Nat /\ l.at[k] \in Nat
         /\ \A k \in 1 .. Len(l.pieces) : /\ k \in 1 .. EndOf(l) /\ k + 1 \in 1 .. EndOf(l)
                                         /\ k \in Nat
         /\ EndOf(l) \in 1 .. EndOf(l)
<1> PICK n : n = Len(l.pieces)
  OBVIOUS
<1>1. n \in Nat /\ l.from \in [1 .. n + 1 -> Nat] /\ l.at \in [1 .. n + 1 -> Nat]
  BY DEF LineCoded, EndOf
<1> QED
  BY <1>1 DEF EndOf

LEMMA FromClimbs ==
  ASSUME NEW h, NEW d, NEW l, HeaderCoded(h), LineCoded(h, d, l)
  PROVE  \A j, k \in 1 .. EndOf(l) : j <= k => l.from[j] <= l.from[k]
<1> PICK n : n = EndOf(l)
  OBVIOUS
<1> PICK f : f = l.from
  OBVIOUS
<1>1. n \in Nat /\ f \in [1 .. n -> Nat] /\ n - 1 = Len(l.pieces)
  BY DEF LineCoded, EndOf
<1>2. ASSUME NEW k \in 1 .. n - 1 PROVE f[k] <= f[k + 1]
  <2>1. Size(l.pieces[k]) \in Nat /\ f[k + 1] = f[k] + Size(l.pieces[k])
    BY <1>1, SizeIsNat DEF LineCoded
  <2>2. f[k] \in Nat
    BY <1>1
  <2> QED
    BY <2>1, <2>2
<1> QED
  BY <1>1, <1>2, Climbing

(* A pixel is in one piece at most.                                        *)
LEMMA OnePiece ==
  ASSUME NEW h, NEW d, NEW l, HeaderCoded(h), LineCoded(h, d, l),
         NEW j \in 1 .. Len(l.pieces), NEW k \in 1 .. Len(l.pieces), NEW x \in Int,
         x \in l.from[j] .. l.from[j + 1] - 1, x \in l.from[k] .. l.from[k + 1] - 1
  PROVE  j = k
<1>1. /\ j \in Nat /\ k \in Nat
      /\ j \in 1 .. EndOf(l) /\ j + 1 \in 1 .. EndOf(l)
      /\ k \in 1 .. EndOf(l) /\ k + 1 \in 1 .. EndOf(l)
  BY Places
<1>2. /\ l.from[j] \in Nat /\ l.from[j + 1] \in Nat
      /\ l.from[k] \in Nat /\ l.from[k + 1] \in Nat
  BY <1>1, Places
<1>3. j < k => l.from[j + 1] <= l.from[k]
  BY <1>1, FromClimbs
<1>4. k < j => l.from[k + 1] <= l.from[j]
  BY <1>1, FromClimbs
<1> PICK a \in Nat, b \in Nat, c \in Nat, e \in Nat :
       a = l.from[j] /\ b = l.from[j + 1] /\ c = l.from[k] /\ e = l.from[k + 1]
  BY <1>2, Zenon
<1>5. /\ x \in a .. b - 1 /\ x \in c .. e - 1
      /\ j < k => b <= c
      /\ k < j => e <= a
  BY <1>3, <1>4, Zenon
<1>6. ~(j < k) /\ ~(k < j)
  BY ONLY <1>5, a \in Nat, b \in Nat, c \in Nat, e \in Nat, x \in Int
<1> QED
  BY ONLY <1>1, <1>6

(* What a line says of the pixels of its k-th piece.                       *)
LEMMA SaidByPiece ==
  ASSUME NEW h, NEW d, NEW l, HeaderCoded(h), LineCoded(h, d, l), NEW before,
         NEW k \in 1 .. Len(l.pieces), NEW x \in DOMAIN before, x \in Int,
         x \in l.from[k] .. l.from[k + 1] - 1
  PROVE  Says(l, before)[x] = IF l.pieces[k].piece = "skip" THEN before[x]
                              ELSE PixelOf(l.pieces[k], x - l.from[k])
<1> DEFINE At == {j \in 1 .. Len(l.pieces) :
                    l.pieces[j].piece # "skip" /\ x \in l.from[j] .. l.from[j + 1] - 1}
<1>1. \A j \in At : j = k
  BY OnePiece
<1>2. Says(l, before)[x] = IF At = {} THEN before[x]
                           ELSE LET j == CHOOSE j \in At : TRUE
                                IN  PixelOf(l.pieces[j], x - l.from[j])
  BY DEF Says
<1>3. CASE l.pieces[k].piece = "skip"
  <2>1. At = {}
    BY <1>1, <1>3
  <2> QED
    BY <1>2, <1>3, <2>1
<1>4. CASE l.pieces[k].piece # "skip"
  <2>1. At = {k}
    BY <1>1, <1>4
  <2>2. (CHOOSE j \in At : TRUE) = k
    BY <2>1
  <2> QED
    BY <1>2, <1>4, <2>1, <2>2
<1> QED
  BY <1>3, <1>4

(* And of the pixels after its last one.                                   *)
LEMMA SaidOfRest ==
  ASSUME NEW h, NEW d, NEW l, HeaderCoded(h), LineCoded(h, d, l), NEW before,
         NEW x \in DOMAIN before, x \in Int, x >= l.from[EndOf(l)]
  PROVE  Says(l, before)[x] = before[x]
<1> DEFINE At == {j \in 1 .. Len(l.pieces) :
                    l.pieces[j].piece # "skip" /\ x \in l.from[j] .. l.from[j + 1] - 1}
<1>1. Says(l, before)[x] = IF At = {} THEN before[x]
                           ELSE LET j == CHOOSE j \in At : TRUE
                                IN  PixelOf(l.pieces[j], x - l.from[j])
  BY DEF Says
<1>2. ASSUME NEW j \in 1 .. Len(l.pieces) PROVE l.from[j + 1] <= l.from[EndOf(l)] /\ l.from[j + 1] \in Nat
  <2>1. j + 1 \in 1 .. EndOf(l) /\ EndOf(l) \in 1 .. EndOf(l) /\ j + 1 <= EndOf(l)
    BY DEF LineCoded, EndOf
  <2> QED
    BY <2>1, FromClimbs DEF LineCoded
<1>3. l.from[EndOf(l)] \in Nat
  BY Places
<1>4. At = {}
  BY <1>2, <1>3
<1> QED
  BY <1>1, <1>4

(* The beginning and the end of a line.                                    *)
LEMMA PartialStart ==
  ASSUME NEW h, NEW d, NEW l, LineCoded(h, d, l), NEW before, Row(h, before)
  PROVE  Partial(h, l, 1, before) = before
<1>1. l.from[1] = 0
  BY DEF LineCoded
<1>2. before = [x \in 0 .. Cells(h) - 1 |-> before[x]]
  BY DEF Row
<1>3. DOMAIN before = 0 .. Cells(h) - 1
  BY <1>2
<1>4. Partial(h, l, 1, before) = [x \in DOMAIN before |-> before[x]]
  BY <1>1, <1>3 DEF Partial
<1> QED
  BY <1>2, <1>3, <1>4

LEMMA PartialEnd ==
  ASSUME NEW h, NEW d, NEW l, HeaderCoded(h), LineCoded(h, d, l), NEW before, Row(h, before),
         h.biCompression = "BI_RLE4" => EvenLine(h, l)
  PROVE  Partial(h, l, EndOf(l), before) = Says(l, before)
<1>1. DOMAIN before = 0 .. Cells(h) - 1
  BY DEF Row
<1>2. Says(l, before) = [x \in DOMAIN before |-> Says(l, before)[x]]
  BY DEF Says
<1>3. ASSUME NEW x \in DOMAIN before, h.biCompression = "BI_RLE4", x = l.from[EndOf(l)]
      PROVE  x % 2 # 1
  <2>1. l.from[EndOf(l)] % 2 = 0 \/ l.from[EndOf(l)] = h.biWidth
    BY <1>3 DEF EvenLine
  <2>2. Cells(h) = h.biWidth /\ h.biWidth \in Nat
    BY <1>3 DEF Cells, Packing, HeaderCoded
  <2> QED
    BY <1>1, <1>3, <2>1, <2>2
<1>4. ASSUME NEW x \in DOMAIN before
      PROVE  Says(l, before)[x] = IF x < l.from[EndOf(l)] THEN Says(l, before)[x]
               ELSE IF h.biCompression = "BI_RLE4" /\ x = l.from[EndOf(l)] /\ x % 2 = 1 THEN 0
               ELSE before[x]
  <2>1. x \in Int /\ l.from[EndOf(l)] \in Nat
    BY <1>1, Places
  <2>2. CASE x < l.from[EndOf(l)]
    BY <2>2
  <2>3. CASE x >= l.from[EndOf(l)]
    <3>1. Says(l, before)[x] = before[x]
      BY <2>1, <2>3, SaidOfRest
    <3> QED
      BY <1>3, <2>1, <2>3, <3>1
  <2> QED
    BY <2>1, <2>2, <2>3
<1> QED
  BY <1>2, <1>4 DEF Partial

(* From one piece to the next: what the pixel x of the line is then.       *)
Decoded(h, l, before, k, x, pixel) ==
  /\ x < l.from[k] => pixel = Says(l, before)[x]
  /\ x \in l.from[k] .. l.from[k + 1] - 1 =>
       pixel = IF l.pieces[k].piece = "skip" THEN before[x]
               ELSE PixelOf(l.pieces[k], x - l.from[k])
  /\ x >= l.from[k + 1] =>
       pixel = IF h.biCompression = "BI_RLE4" /\ x = l.from[k + 1] /\ x % 2 = 1 THEN 0
               ELSE before[x]

LEMMA Advance ==
  ASSUME NEW h, NEW d, NEW l, HeaderCoded(h), LineCoded(h, d, l), NEW before, Row(h, before),
         NEW k \in 1 .. Len(l.pieces), NEW now, now = [x \in DOMAIN before |-> now[x]],
         \A x \in DOMAIN before : Decoded(h, l, before, k, x, now[x])
  PROVE  now = Partial(h, l, k + 1, before)
<1>1. DOMAIN before = 0 .. Cells(h) - 1
  BY DEF Row
<1>2. l.from[k] \in Nat /\ l.from[k + 1] \in Nat
  BY Places
<1>3. ASSUME NEW x \in DOMAIN before
      PROVE  now[x] = IF x < l.from[k + 1] THEN Says(l, before)[x]
                      ELSE IF h.biCompression = "BI_RLE4" /\ x = l.from[k + 1] /\ x % 2 = 1 THEN 0
                      ELSE before[x]
  <2>1. x \in Int
    BY <1>1
  <2>2. CASE x < l.from[k]
    <3>1. l.from[k] <= l.from[k + 1]
      <4>1. k \in 1 .. EndOf(l) /\ k + 1 \in 1 .. EndOf(l) /\ k <= k + 1
        BY Places
      <4> QED
        BY <4>1, FromClimbs
    <3> QED
      BY <1>2, <2>1, <2>2, <3>1 DEF Decoded
  <2>3. CASE x \in l.from[k] .. l.from[k + 1] - 1
    <3>1. now[x] = Says(l, before)[x]
      BY <2>1, <2>3, SaidByPiece DEF Decoded
    <3> QED
      BY <1>2, <2>1, <2>3, <3>1
  <2>4. CASE x >= l.from[k + 1]
    BY <1>2, <2>1, <2>4 DEF Decoded
  <2> QED
    BY <1>2, <2>1, <2>2, <2>3, <2>4
<1> QED
  BY <1>3 DEF Partial

-----------------------------------------------------------------------------
(* The rounds of the decoders.                                             *)
LineHere ==
  /\ data \in Seq(0 .. 255)
  /\ HeaderCoded(header)
  /\ LineCoded(header, data, Line)
  /\ Row(header, Before)

LEMMA PixelsHere ==
  ASSUME LineHere, NEW k \in 1 .. EndOf(Line), AtPiece(k)
  PROVE  /\ DOMAIN Pixels = DOMAIN Before
         /\ DOMAIN Before = 0 .. Cells(header) - 1
         /\ \A x \in DOMAIN Before : x \in Int
         /\ pos \in Nat /\ pos = Line.from[k]
         /\ \A x \in DOMAIN Before :
              Pixels[x] = IF x < pos THEN Says(Line, Before)[x]
                          ELSE IF header.biCompression = "BI_RLE4" /\ x = pos /\ x % 2 = 1 THEN 0
                          ELSE Before[x]
<1>1. DOMAIN Before = 0 .. Cells(header) - 1
  BY DEF LineHere, Row
<1>2. pos = Line.from[k] /\ Pixels = Partial(header, Line, k, Before)
  BY DEF AtPiece
<1>3. pos \in Nat
  BY <1>2, Places DEF LineHere
<1>4. /\ DOMAIN Pixels = DOMAIN Before
      /\ \A x \in DOMAIN Before :
           Pixels[x] = IF x < pos THEN Says(Line, Before)[x]
                       ELSE IF header.biCompression = "BI_RLE4" /\ x = pos /\ x % 2 = 1 THEN 0
                       ELSE Before[x]
  BY <1>2 DEF Partial
<1> QED
  BY <1>1, <1>2, <1>3, <1>4

(* What is written within the line does not reach the other lines.         *)
InBuffer ==
  /\ line \in Given(header)
  /\ bits = [i \in Slots |-> bits[i]]
  /\ \A i \in Slots : bits[i] = [x \in 0 .. header.biWidth - 1 |-> bits[i][x]]
  /\ Stride \in Nat /\ header.biWidth <= Stride

LEMMA Slot ==
  ASSUME HeaderCoded(header), line \in Given(header)
  PROVE  /\ LineOf(line) \in Slots
         /\ ~header.one => LineOf(line) = line
         /\ header.one => LineOf(line) = 0 /\ Slots = {0}
         /\ line \in Nat /\ header.biHeight \in Nat /\ line <= header.biHeight - 1
         /\ \A i \in Slots : i \in Int
<1>1. line \in Nat /\ line <= header.biHeight - 1 /\ header.biHeight \in Nat \ {0}
  BY DEF Given, HeaderCoded
<1> QED
  BY <1>1 DEF LineOf, Slots

(* The bytes between two lines.                                            *)
LEMMA Multiple ==
  ASSUME NEW a \in Nat, NEW m \in Nat, a >= 1
  PROVE  a * m >= m /\ a * m \in Nat
<1>1. PICK b \in Nat : b = a - 1
  OBVIOUS
<1>2. a * m = b * m + m
  BY <1>1
<1>3. b * m \in Nat
  OBVIOUS
<1> QED
  BY <1>2, <1>3

LEMMA Multiples ==
  ASSUME NEW d \in Int, NEW m \in Nat
  PROVE  /\ d * m \in Int /\ 0 * m = 0
         /\ d > 0 => d * m >= m
         /\ d < 0 => d * m <= -m
<1>1. d > 0 => d * m >= m
  BY Multiple
<1>2. ASSUME d < 0 PROVE d * m <= -m
  <2>1. PICK e \in Nat : e = -d /\ e >= 1
    BY <1>2
  <2>2. e * m >= m /\ e * m \in Nat
    BY <2>1, Multiple
  <2>3. d * m = -(e * m)
    BY <2>1
  <2> QED
    BY <2>2, <2>3
<1> QED
  BY <1>1, <1>2

LEMMA OffsetHere ==
  ASSUME LineHere, InBuffer, pos \in Nat, NEW x \in Int
  PROVE  Offset(LineOf(line), x) = x - pos
<1>1. LineOf(line) \in Int
  BY Slot DEF LineHere, InBuffer
<1>2. (LineOf(line) - LineOf(line)) * Stride = 0
  BY <1>1, Multiples DEF InBuffer
<1> QED
  BY <1>2 DEF Offset

LEMMA OffsetElsewhere ==
  ASSUME LineHere, InBuffer, pos \in Nat, NEW n \in Nat, pos + n <= header.biWidth,
         NEW i \in Slots, i # LineOf(line), NEW x \in 0 .. header.biWidth - 1
  PROVE  ~(Offset(i, x) \in 0 .. n - 1) /\ ~(Offset(i, x) = n /\ x % 2 = 1)
<1>1. i \in Int /\ LineOf(line) \in Int
  BY Slot DEF LineHere, InBuffer
<1> PICK d \in Int : d = i - LineOf(line) /\ d # 0
  BY <1>1
<1> PICK m \in Nat : m = Stride
  BY DEF InBuffer
<1> PICK w \in Nat : w = header.biWidth
  BY DEF LineHere, HeaderCoded
<1>2. d * m \in Int /\ (d > 0 => d * m >= m) /\ (d < 0 => d * m <= -m)
  BY Multiples
<1> PICK g \in Int : g = d * m
  BY <1>2
<1>3. Offset(i, x) = g + x - pos
  BY DEF Offset
<1>4. (g >= m \/ g <= -m) /\ w <= m /\ pos + n <= w /\ x \in 0 .. w - 1
  BY <1>2 DEF InBuffer
<1>5. CASE g >= m
  <2>1. g + x - pos >= n + x /\ x \in Nat
    BY ONLY <1>4, <1>5, g \in Int, m \in Nat, w \in Nat, n \in Nat, pos \in Nat
  <2>2. ~(g + x - pos \in 0 .. n - 1)
    BY ONLY <2>1, n \in Nat
  <2>3. g + x - pos = n => x = 0
    BY ONLY <2>1, n \in Nat
  <2>4. 0 % 2 = 0
    OBVIOUS
  <2> QED
    BY <1>3, <2>2, <2>3, <2>4
<1>6. CASE g <= -m
  <2>1. g + x - pos < 0
    BY ONLY <1>4, <1>6, g \in Int, m \in Nat, w \in Nat, n \in Nat, pos \in Nat
  <2>2. ~(g + x - pos \in 0 .. n - 1) /\ g + x - pos # n
    BY ONLY <2>1, n \in Nat, g \in Int, pos \in Nat, x \in 0 .. w - 1, w \in Nat
  <2> QED
    BY <1>3, <2>2
<1> QED
  BY <1>4, <1>5, <1>6

LEMMA RoomLeft ==
  ASSUME LineHere, InBuffer, pos \in Nat, NEW n \in Nat, pos + n <= header.biWidth
  PROVE  Fits(n)
<1>1. header.biWidth \in Nat /\ Stride \in Nat /\ header.biWidth <= Stride
  BY DEF LineHere, HeaderCoded, InBuffer
<1> PICK lines \in Nat : lines = (IF header.one THEN 1 ELSE header.biHeight - line) /\ lines >= 1
  BY Slot DEF LineHere, InBuffer
<1>2. lines * Stride >= Stride /\ Stride * lines = lines * Stride /\ lines * Stride \in Nat
  BY <1>1, Multiple
<1> QED
  BY <1>1, <1>2 DEF Fits

(* The pixels of the line alone.                                           *)
FillLine(n, val) ==
  [x \in DOMAIN Pixels |-> IF x \in pos .. pos + n - 1 THEN val[x - pos] ELSE Pixels[x]]
PackLine(n, val) ==
  [x \in DOMAIN Pixels |->
     IF x \in pos .. pos + n - 1
       THEN IF x = pos /\ x % 2 = 1 THEN Or(Pixels[x], val[0]) ELSE val[x - pos]
     ELSE IF n > 0 /\ x = pos + n /\ x % 2 = 1 THEN 0
     ELSE Pixels[x]]

LEMMA WithNow ==
  ASSUME LineHere, InBuffer, NEW now, NEW picture,
         picture = [i \in DOMAIN bits |-> picture[i]],
         picture[LineOf(line)] = now,
         \A i \in Slots : i # LineOf(line) => picture[i] = bits[i]
  PROVE  picture = With(now)
<1>1. LineOf(line) \in Slots /\ DOMAIN bits = Slots
  BY Slot DEF LineHere, InBuffer
<1>2. With(now) = [i \in Slots |-> IF i = LineOf(line) THEN now ELSE bits[i]]
  BY <1>1 DEF With
<1>3. picture = [i \in Slots |-> IF i = LineOf(line) THEN now ELSE bits[i]]
  BY <1>1
<1> QED
  BY <1>2, <1>3

LEMMA SameBits ==
  ASSUME LineHere, InBuffer
  PROVE  bits = With(Pixels)
<1>1. bits = [i \in DOMAIN bits |-> bits[i]]
  BY DEF InBuffer
<1> QED
  BY <1>1, WithNow DEF Pixels

LEMMA FillIsLine ==
  ASSUME LineHere, InBuffer, pos \in Nat, NEW n \in Nat, pos + n <= header.biWidth, NEW val
  PROVE  Fill(n, val) = With(FillLine(n, val))
<1> PICK picture : picture = Fill(n, val)
  OBVIOUS
<1>1. LineOf(line) \in Slots /\ DOMAIN bits = Slots
  BY Slot DEF LineHere, InBuffer
<1>2. picture = [i \in DOMAIN bits |-> picture[i]]
  BY DEF Fill
<1>3. \A i \in Slots :
        picture[i] = [x \in DOMAIN bits[i] |->
                        IF Offset(i, x) \in 0 .. n - 1 THEN val[Offset(i, x)] ELSE bits[i][x]]
  BY <1>1 DEF Fill
<1>4. \A i \in Slots : DOMAIN bits[i] = 0 .. header.biWidth - 1
  BY DEF InBuffer
<1>5. picture[LineOf(line)] = FillLine(n, val)
  <2>1. DOMAIN Pixels = 0 .. header.biWidth - 1 /\ Pixels = bits[LineOf(line)]
    BY <1>1, <1>4 DEF Pixels
  <2>2. ASSUME NEW x \in 0 .. header.biWidth - 1
        PROVE  /\ Offset(LineOf(line), x) = x - pos
               /\ x - pos \in 0 .. n - 1 <=> x \in pos .. pos + n - 1
    <3>1. x \in Int
      OBVIOUS
    <3>2. Offset(LineOf(line), x) = x - pos
      BY <3>1, OffsetHere
    <3> QED
      BY <3>1, <3>2
  <2>3. \A x \in 0 .. header.biWidth - 1 :
          (IF Offset(LineOf(line), x) \in 0 .. n - 1 THEN val[Offset(LineOf(line), x)]
           ELSE bits[LineOf(line)][x])
          = (IF x \in pos .. pos + n - 1 THEN val[x - pos] ELSE Pixels[x])
    BY <2>1, <2>2, Zenon
  <2> QED
    BY <1>1, <1>3, <2>1, <2>3 DEF FillLine
<1>6. ASSUME NEW i \in Slots, i # LineOf(line) PROVE picture[i] = bits[i]
  <2>1. \A x \in 0 .. header.biWidth - 1 : ~(Offset(i, x) \in 0 .. n - 1)
    BY <1>6, OffsetElsewhere
  <2>2. picture[i] = [x \in 0 .. header.biWidth - 1 |-> bits[i][x]]
    BY <1>3, <1>4, <2>1
  <2> QED
    BY <2>2 DEF InBuffer
<1> QED
  BY <1>2, <1>5, <1>6, WithNow

LEMMA PackIsLine ==
  ASSUME LineHere, InBuffer, pos \in Nat, NEW n \in Nat, pos + n <= header.biWidth, NEW val
  PROVE  Pack(n, val) = With(PackLine(n, val))
<1> PICK picture : picture = Pack(n, val)
  OBVIOUS
<1>1. LineOf(line) \in Slots /\ DOMAIN bits = Slots
  BY Slot DEF LineHere, InBuffer
<1>2. picture = [i \in DOMAIN bits |-> picture[i]]
  BY DEF Pack
<1>3. \A i \in Slots :
        picture[i] = [x \in DOMAIN bits[i] |->
          IF Offset(i, x) \in 0 .. n - 1
            THEN IF Offset(i, x) = 0 /\ x % 2 = 1 THEN Or(bits[i][x], val[0]) ELSE val[Offset(i, x)]
          ELSE IF n > 0 /\ Offset(i, x) = n /\ x % 2 = 1 THEN 0
          ELSE bits[i][x]]
  BY <1>1 DEF Pack
<1>4. \A i \in Slots : DOMAIN bits[i] = 0 .. header.biWidth - 1
  BY DEF InBuffer
<1>5. picture[LineOf(line)] = PackLine(n, val)
  <2>1. DOMAIN Pixels = 0 .. header.biWidth - 1 /\ Pixels = bits[LineOf(line)]
    BY <1>1, <1>4 DEF Pixels
  <2>2. ASSUME NEW x \in 0 .. header.biWidth - 1
        PROVE  /\ Offset(LineOf(line), x) = x - pos
               /\ x - pos \in 0 .. n - 1 <=> x \in pos .. pos + n - 1
               /\ x - pos = 0 <=> x = pos
               /\ x - pos = n <=> x = pos + n
    <3>1. x \in Int
      OBVIOUS
    <3>2. Offset(LineOf(line), x) = x - pos
      BY <3>1, OffsetHere
    <3> QED
      BY <3>1, <3>2
  <2>3. \A x \in 0 .. header.biWidth - 1 :
          (IF Offset(LineOf(line), x) \in 0 .. n - 1
             THEN IF Offset(LineOf(line), x) = 0 /\ x % 2 = 1 THEN Or(bits[LineOf(line)][x], val[0])
                  ELSE val[Offset(LineOf(line), x)]
           ELSE IF n > 0 /\ Offset(LineOf(line), x) = n /\ x % 2 = 1 THEN 0
           ELSE bits[LineOf(line)][x])
          = (IF x \in pos .. pos + n - 1
               THEN IF x = pos /\ x % 2 = 1 THEN Or(Pixels[x], val[0]) ELSE val[x - pos]
             ELSE IF n > 0 /\ x = pos + n /\ x % 2 = 1 THEN 0
             ELSE Pixels[x])
    BY <2>1, <2>2, Zenon
  <2>4. DOMAIN bits[LineOf(line)] = DOMAIN Pixels
    BY <2>1
  <2>5. picture[LineOf(line)] = [x \in DOMAIN Pixels |->
          IF Offset(LineOf(line), x) \in 0 .. n - 1
            THEN IF Offset(LineOf(line), x) = 0 /\ x % 2 = 1 THEN Or(bits[LineOf(line)][x], val[0])
                 ELSE val[Offset(LineOf(line), x)]
          ELSE IF n > 0 /\ Offset(LineOf(line), x) = n /\ x % 2 = 1 THEN 0
          ELSE bits[LineOf(line)][x]]
    BY <1>1, <1>3, <2>4
  <2>6. picture[LineOf(line)] = [x \in DOMAIN Pixels |->
          IF x \in pos .. pos + n - 1
            THEN IF x = pos /\ x % 2 = 1 THEN Or(Pixels[x], val[0]) ELSE val[x - pos]
          ELSE IF n > 0 /\ x = pos + n /\ x % 2 = 1 THEN 0
          ELSE Pixels[x]]
    BY <2>1, <2>3, <2>5, Zenon
  <2> QED
    BY <2>6 DEF PackLine
<1>6. ASSUME NEW i \in Slots, i # LineOf(line) PROVE picture[i] = bits[i]
  <2>1. \A x \in 0 .. header.biWidth - 1 :
          ~(Offset(i, x) \in 0 .. n - 1) /\ ~(Offset(i, x) = n /\ x % 2 = 1)
    BY <1>6, OffsetElsewhere
  <2>2. picture[i] = [x \in 0 .. header.biWidth - 1 |-> bits[i][x]]
    BY <1>3, <1>4, <2>1
  <2> QED
    BY <2>2 DEF InBuffer
<1> QED
  BY <1>2, <1>5, <1>6, WithNow

(* Eight bits: the pixels of a run or a list.                              *)
LEMMA Filled ==
  ASSUME LineHere, NEW k \in 1 .. Len(Line.pieces), AtPiece(k),
         header.biCompression = "BI_RLE8", Line.pieces[k].piece # "skip",
         NEW n, n = Size(Line.pieces[k]), NEW val,
         \A j \in 0 .. n - 1 : val[j] = PixelOf(Line.pieces[k], j)
  PROVE  FillLine(n, val) = Partial(header, Line, k + 1, Before)
<1> PICK now : now = FillLine(n, val)
  OBVIOUS
<1> PICK p : p = Line.pieces[k]
  OBVIOUS
<1>1. k \in 1 .. EndOf(Line) /\ k + 1 \in 1 .. EndOf(Line)
  BY Places DEF LineHere
<1>2. /\ n \in Nat /\ Line.from[k] \in Nat /\ Line.from[k + 1] = Line.from[k] + n
      /\ HeaderCoded(header) /\ LineCoded(header, data, Line) /\ Row(header, Before)
  BY <1>1, Places, SizeIsNat DEF LineHere, LineCoded
<1>3. /\ now = [x \in DOMAIN Before |-> now[x]]
      /\ \A x \in DOMAIN Before :
           now[x] = IF x \in pos .. pos + n - 1 THEN val[x - pos] ELSE Pixels[x]
  BY <1>1, PixelsHere DEF FillLine
<1>4. ASSUME NEW x \in DOMAIN Before
      PROVE  Decoded(header, Line, Before, k, x, now[x])
  <2>1. /\ x \in Int /\ pos = Line.from[k]
        /\ Pixels[x] = IF x < pos THEN Says(Line, Before)[x] ELSE Before[x]
    BY <1>1, PixelsHere
  <2>2. pos \in Nat /\ Line.from[k + 1] = pos + n /\ n \in Nat /\ x \in Int
    BY <1>2, <2>1
  <2>3. /\ x \in pos .. pos + n - 1 => x - pos \in 0 .. n - 1
        /\ x < pos => ~(x \in pos .. pos + n - 1)
        /\ x >= pos + n => ~(x \in pos .. pos + n - 1) /\ ~(x < pos)
    BY ONLY <2>2
  <2>4. x < pos => now[x] = Says(Line, Before)[x]
    BY <1>3, <2>1, <2>3, Zenon
  <2>5. x \in pos .. pos + n - 1 => now[x] = PixelOf(Line.pieces[k], x - pos)
    BY <1>3, <2>3, Zenon
  <2>6. x >= pos + n => now[x] = Before[x]
    BY <1>3, <2>1, <2>3, Zenon
  <2>7. header.biCompression # "BI_RLE4" /\ Line.pieces[k].piece # "skip"
    OBVIOUS
  <2>8. pos = Line.from[k]
    BY <2>1
  <2> QED
    BY ONLY SMTT(20), <2>2, <2>4, <2>5, <2>6, <2>7, <2>8 DEF Decoded
<1> QED
  BY <1>2, <1>3, <1>4, Advance

(* Four bits.                                                              *)
LEMMA OrNothing ==
  ASSUME NEW v \in 0 .. 15
  PROVE  Or(0, v) = v
BY DEF Or, Bit

LEMMA Packed ==
  ASSUME LineHere, NEW k \in 1 .. Len(Line.pieces), AtPiece(k),
         header.biCompression = "BI_RLE4", Line.pieces[k].piece # "skip",
         NEW n \in Nat \ {0}, n = Size(Line.pieces[k]), NEW val,
         \A j \in 0 .. n - 1 : val[j] = PixelOf(Line.pieces[k], j) /\ val[j] \in 0 .. 15
  PROVE  PackLine(n, val) = Partial(header, Line, k + 1, Before)
<1> PICK now : now = PackLine(n, val)
  OBVIOUS
<1>1. k \in 1 .. EndOf(Line) /\ k + 1 \in 1 .. EndOf(Line)
  BY Places DEF LineHere
<1>2. /\ Line.from[k] \in Nat /\ Line.from[k + 1] = Line.from[k] + n
      /\ HeaderCoded(header) /\ LineCoded(header, data, Line) /\ Row(header, Before)
  BY <1>1, Places DEF LineHere, LineCoded
<1>3. /\ now = [x \in DOMAIN Before |-> now[x]]
      /\ \A x \in DOMAIN Before :
           now[x] = IF x \in pos .. pos + n - 1
                      THEN IF x = pos /\ x % 2 = 1 THEN Or(Pixels[x], val[0]) ELSE val[x - pos]
                    ELSE IF n > 0 /\ x = pos + n /\ x % 2 = 1 THEN 0
                    ELSE Pixels[x]
  BY <1>1, PixelsHere DEF PackLine
<1>4. ASSUME NEW x \in DOMAIN Before
      PROVE  Decoded(header, Line, Before, k, x, now[x])
  <2>1. /\ x \in Int /\ pos = Line.from[k]
        /\ Pixels[x] = IF x < pos THEN Says(Line, Before)[x]
                       ELSE IF x = pos /\ x % 2 = 1 THEN 0 ELSE Before[x]
    BY <1>1, PixelsHere
  <2>2. pos \in Nat /\ Line.from[k + 1] = pos + n /\ n \in Nat /\ x \in Int
    BY <1>2, <2>1
  <2>3. /\ x \in pos .. pos + n - 1 => x - pos \in 0 .. n - 1 /\ (x = pos => x - pos = 0)
        /\ x < pos \/ x \in pos .. pos + n - 1 \/ x >= pos + n
        /\ x < pos => /\ ~(x \in pos .. pos + n - 1) /\ ~(x >= pos + n)
                      /\ x # pos + n /\ x # pos
        /\ x >= pos + n => ~(x \in pos .. pos + n - 1) /\ ~(x < pos)
        /\ x \in pos .. pos + n - 1 => ~(x < pos) /\ ~(x >= pos + n)
    BY ONLY <2>2
  <2>4. CASE x \in pos .. pos + n - 1
    <3>1. now[x] = val[x - pos]
      <4>1. CASE x = pos /\ x % 2 = 1
        <5>1. Pixels[x] = 0 /\ val[0] \in 0 .. 15 /\ now[x] = Or(Pixels[x], val[0]) /\ x - pos = 0
          BY <1>3, <2>1, <2>3, <2>4, <4>1
        <5> QED
          BY <5>1, OrNothing
      <4>2. CASE ~(x = pos /\ x % 2 = 1)
        BY <1>3, <2>4, <4>2, Zenon
      <4> QED
        BY <4>1, <4>2
    <3>2. now[x] = PixelOf(Line.pieces[k], x - pos)
      BY <2>3, <2>4, <3>1
    <3> QED
      BY <2>1, <2>2, <2>3, <2>4, <3>2 DEF Decoded
  <2>5. CASE x < pos
    <3>1. now[x] = Says(Line, Before)[x]
      BY <1>3, <2>1, <2>3, <2>5, Zenon
    <3> QED
      BY <2>1, <2>2, <2>3, <2>5, <3>1 DEF Decoded
  <2>6. CASE x >= pos + n
    <3>1. Pixels[x] = Before[x] /\ n > 0
      <4>1. x # pos
        BY ONLY <2>1, <2>2, <2>6, n \in Nat \ {0}
      <4>2. n > 0
        BY ONLY n \in Nat \ {0}
      <4> QED
        BY <2>1, <2>3, <2>6, <4>1, <4>2, Zenon
    <3>2. now[x] = IF x = pos + n /\ x % 2 = 1 THEN 0 ELSE Before[x]
      BY <1>3, <2>3, <2>6, <3>1, Zenon
    <3> QED
      BY <2>1, <2>2, <2>3, <2>6, <3>2 DEF Decoded
  <2> QED
    BY <2>3, <2>4, <2>5, <2>6, Zenon
<1> QED
  BY <1>2, <1>3, <1>4, Advance

(* The pixels that are left out.                                           *)
LEMMA Skipped ==
  ASSUME LineHere, NEW k \in 1 .. Len(Line.pieces), AtPiece(k), Line.pieces[k].piece = "skip",
         header.biCompression = "BI_RLE4" => EvenLine(header, Line)
  PROVE  Pixels = Partial(header, Line, k + 1, Before)
<1> PICK now : now = Pixels
  OBVIOUS
<1>1. k \in 1 .. EndOf(Line) /\ k + 1 \in 1 .. EndOf(Line)
  BY Places DEF LineHere
<1>2. /\ Size(Line.pieces[k]) \in Nat
      /\ Line.from[k] \in Nat /\ Line.from[k + 1] = Line.from[k] + Size(Line.pieces[k])
      /\ HeaderCoded(header) /\ LineCoded(header, data, Line) /\ Row(header, Before)
  BY <1>1, Places, SizeIsNat DEF LineHere, LineCoded
<1>3. now = [x \in DOMAIN Before |-> now[x]]
  BY DEF AtPiece, Partial
<1>4. header.biCompression = "BI_RLE4" => Line.from[k] % 2 = 0 /\ Line.from[k + 1] % 2 = 0
  BY DEF EvenLine
<1>5. ASSUME NEW x \in DOMAIN Before
      PROVE  Decoded(header, Line, Before, k, x, now[x])
  <2>1. /\ x \in Int /\ pos = Line.from[k]
        /\ now[x] = IF x < pos THEN Says(Line, Before)[x]
                    ELSE IF header.biCompression = "BI_RLE4" /\ x = pos /\ x % 2 = 1 THEN 0 ELSE Before[x]
    BY <1>1, PixelsHere
  <2> QED
    BY <1>2, <1>4, <2>1 DEF Decoded
<1> QED
  BY <1>2, <1>3, <1>5, Advance

(* The bytes of the piece that comes.                                      *)
LEMMA PieceHere ==
  ASSUME LineHere, NEW k \in 1 .. Len(Line.pieces), AtPiece(k)
  PROVE  /\ here \in Nat /\ pos \in Nat
         /\ Coded(header, data, Line.pieces[k], here)
         /\ Line.from[k + 1] = pos + Size(Line.pieces[k])
         /\ Line.at[k + 1] = here + Bytes(header, Line.pieces[k])
         /\ Size(Line.pieces[k]) \in Nat
<1>1. k \in 1 .. EndOf(Line)
  BY Places DEF LineHere
<1>2. /\ here = Line.at[k] /\ pos = Line.from[k]
  BY DEF AtPiece
<1>3. here \in Nat /\ pos \in Nat
  BY <1>1, <1>2, Places DEF LineHere
<1>4. /\ Coded(header, data, Line.pieces[k], here)
      /\ Line.from[k + 1] = pos + Size(Line.pieces[k])
      /\ Line.at[k + 1] = here + Bytes(header, Line.pieces[k])
  BY <1>2 DEF LineHere, LineCoded
<1> QED
  BY <1>3, <1>4, SizeIsNat DEF LineHere

LEMMA SmallMod ==
  ASSUME NEW j \in Nat, NEW n \in Nat, j < n
  PROVE  j % n = j
OBVIOUS

LEMMA Cases8 ==
  ASSUME RLE8, NEW count, count = Byte(here), NEW code, code = Byte(here + 1)
  PROVE  \/ /\ count > 0
            /\ GoOn(here + 2, pos + count, Fill(count, [j \in 0 .. count - 1 |-> code]))
         \/ count = 0 /\ Escape(code)
         \/ /\ count = 0 /\ code > 2
            /\ GoOn(here + 2 + Aligned(code), pos + code,
                    Fill(code, [j \in 0 .. code - 1 |-> Byte(here + 2 + j)]))
         \/ ~Fits(IF count > 0 THEN count ELSE IF code > 2 THEN code ELSE 0)
BY DEF RLE8

(* The code of pixels that are left out, in both formats.                  *)
LEMMA EscapeSkip ==
  ASSUME LineHere, NEW k \in 1 .. Len(Line.pieces), AtPiece(k), Line.pieces[k].piece = "skip",
         header.biCompression = "BI_RLE4" => EvenLine(header, Line),
         NEW code, code = 2, Escape(code),
         data[here + 3] = Line.pieces[k].n, InBuffer
  PROVE  GoOn(Line.at[k + 1], Line.from[k + 1], With(Partial(header, Line, k + 1, Before)))
<1>1. GoOn(here + 4, pos + Byte(here + 2), bits)
  <2>1. code # 0 /\ code # 1
    OBVIOUS
  <2> QED
    BY <2>1, Zenon DEF Escape
<1>2. here \in Nat /\ Line.from[k + 1] = pos + Size(Line.pieces[k])
      /\ Line.at[k + 1] = here + Bytes(header, Line.pieces[k])
  BY PieceHere
<1>3. Byte(here + 2) = Line.pieces[k].n
  BY <1>2 DEF Byte
<1>4. Size(Line.pieces[k]) = Line.pieces[k].n /\ Bytes(header, Line.pieces[k]) = 4
  BY DEF Size, Bytes
<1>5. bits = With(Partial(header, Line, k + 1, Before))
  BY Skipped, SameBits
<1> QED
  BY <1>1, <1>2, <1>3, <1>4, <1>5

LEMMA Round8 ==
  ASSUME LineHere, NEW k \in 1 .. Len(Line.pieces), AtPiece(k),
         header.biCompression = "BI_RLE8", RLE8,
         InBuffer, Line.from[k + 1] <= header.biWidth
  PROVE  GoOn(Line.at[k + 1], Line.from[k + 1], With(Partial(header, Line, k + 1, Before)))
<1> PICK p : p = Line.pieces[k]
  OBVIOUS
<1>1. /\ here \in Nat /\ pos \in Nat /\ Line.from[k + 1] = pos + Size(p)
      /\ Line.at[k + 1] = here + Bytes(header, p)
      /\ At8(data, p, here)
  BY PieceHere DEF Coded, Packing, Deep
<1> PICK count : count = Byte(here)
  OBVIOUS
<1> PICK code : code = Byte(here + 1)
  OBVIOUS
<1>2. count = data[here + 1] /\ code = data[here + 2]
  BY <1>1 DEF Byte
<1>3. CASE p.piece = "run"
  <2>1. count = p.n /\ p.n \in 1 .. 255 /\ Len(p.pixels) = 1 /\ code = p.pixels[1]
    BY <1>1, <1>2, <1>3 DEF At8
  <2>2. count > 0 /\ count # 0
    <3>1. count \in 1 .. 255
      BY <2>1, Zenon
    <3> QED
      BY ONLY <3>1
  <2> PICK val : val = [j \in 0 .. count - 1 |-> code]
    OBVIOUS
  <2>4. Size(p) = count /\ Bytes(header, p) = 2
    BY <1>3, <2>1 DEF Size, Bytes
  <2>7. count \in Nat /\ pos + count <= header.biWidth
    <3>1. count \in 1 .. 255
      BY <2>1, Zenon
    <3>2. count \in Nat
      BY ONLY <3>1
    <3> QED
      BY <1>1, <2>4, <3>2
  <2>8. Fits(count)
    BY <1>1, <2>7, RoomLeft
  <2>3. GoOn(here + 2, pos + count, Fill(count, val))
    BY <2>2, <2>8, Cases8, Zenon
  <2>5. ASSUME NEW j \in 0 .. count - 1 PROVE val[j] = PixelOf(p, j)
    <3>1. j \in Int /\ val[j] = code
      BY <2>1
    <3>2. (j % 1) + 1 = 1
      BY <3>1
    <3> QED
      BY <2>1, <3>1, <3>2 DEF PixelOf
  <2>6. Fill(count, val) = With(Partial(header, Line, k + 1, Before))
    <3>3. Fill(count, val) = With(FillLine(count, val))
      BY <1>1, <2>7, FillIsLine
    <3>1. Line.pieces[k].piece # "skip" /\ count = Size(Line.pieces[k])
      BY <1>3, <2>4
    <3>2. \A j \in 0 .. count - 1 : val[j] = PixelOf(Line.pieces[k], j)
      BY <2>5, Zenon
    <3> QED
      BY <3>1, <3>2, <3>3, Filled
  <2> QED
    BY <1>1, <2>3, <2>4, <2>6
<1>4. CASE p.piece = "skip"
  <2>1. count = 0 /\ code = 2 /\ data[here + 3] = p.n
    BY <1>1, <1>2, <1>4 DEF At8
  <2>2. Escape(code)
    <3>1. ~(count > 0) /\ ~(code > 2)
      BY ONLY <2>1
    <3>2. Fits(0)
      BY DEF Fits
    <3> QED
      BY <3>1, <3>2, Cases8, Zenon
  <2> QED
    BY <1>4, <2>1, <2>2, EscapeSkip
<1>5. CASE p.piece = "list"
  <2>1. /\ count = 0 /\ code = Len(p.pixels) /\ Len(p.pixels) \in 3 .. 255
        /\ \A j \in 1 .. Len(p.pixels) : data[here + 2 + j] = p.pixels[j]
    BY <1>1, <1>2, <1>5 DEF At8
  <2>0. code \in 3 .. 255
    BY <2>1, Zenon
  <2> PICK val : val = [j \in 0 .. code - 1 |-> Byte(here + 2 + j)]
    OBVIOUS
  <2>7. code \in Nat /\ pos + code <= header.biWidth
    <3>1. code \in Nat
      BY ONLY <2>0
    <3>2. Size(p) = code
      BY <1>5, <2>1 DEF Size
    <3> QED
      BY <1>1, <3>1, <3>2
  <2>8. Fits(code)
    BY <1>1, <2>7, RoomLeft
  <2>2. GoOn(here + 2 + Aligned(code), pos + code, Fill(code, val))
    <3>0. count = 0
      BY <2>1, Zenon
    <3>4. code > 2
      BY ONLY <2>0
    <3>1. code # 0 /\ code # 1 /\ code # 2 /\ ~(count > 0)
      BY ONLY <2>0, <3>0
    <3>2. ~Escape(code)
      BY <3>1, Zenon DEF Escape
    <3> QED
      BY <2>8, <3>1, <3>2, <3>4, Cases8, Zenon
  <2>3. Size(p) = code /\ Bytes(header, p) = 2 + Aligned(code)
    <3>1. Bytes(header, p) = 2 + Len(p.pixels) + (Len(p.pixels) % 2)
      BY <1>5 DEF Bytes, BytesOfList
    <3>2. 2 + code + (code % 2) = 2 + (code + (code % 2))
      BY ONLY <2>0
    <3> QED
      BY <1>5, <2>1, <3>1, <3>2 DEF Size, Aligned
  <2>4. ASSUME NEW j \in 0 .. code - 1 PROVE val[j] = PixelOf(p, j)
    <3>1. j \in Nat /\ j < code /\ j + 1 \in 1 .. code /\ code \in Nat
      BY ONLY <2>0, <2>4
    <3>2. val[j] = data[here + 2 + (j + 1)]
      <4>1. (here + 2 + j) + 1 = here + 2 + (j + 1)
        BY <1>1, <3>1
      <4> QED
        BY <4>1 DEF Byte
    <3>3. PixelOf(p, j) = p.pixels[j + 1]
      <4>1. j % code = j
        BY ONLY <3>1, SmallMod
      <4> QED
        BY <2>1, <4>1, Zenon DEF PixelOf
    <3>4. data[here + 2 + (j + 1)] = p.pixels[j + 1]
      BY <2>1, <3>1, Zenon
    <3> QED
      BY <3>2, <3>3, <3>4, Zenon
  <2>5. Fill(code, val) = With(Partial(header, Line, k + 1, Before))
    <3>1. FillLine(code, val) = Partial(header, Line, k + 1, Before)
      BY <1>5, <2>3, <2>4, Filled
    <3>2. Fill(code, val) = With(FillLine(code, val))
      BY <1>1, <2>7, FillIsLine
    <3> QED
      BY <3>1, <3>2
  <2>6. here + 2 + Aligned(code) = here + Bytes(header, p)
    <3>1. Aligned(code) \in Int
      BY ONLY <2>0 DEF Aligned
    <3> QED
      BY ONLY <1>1, <2>3, <3>1
  <2> QED
    BY <1>1, <2>2, <2>3, <2>5, <2>6
<1> QED
  BY <1>1, <1>3, <1>4, <1>5 DEF At8

(* The mark at the end of a line.                                          *)
Ended ==
  \/ Line.end /\ Return("BMP_END", After(header, Line), With(Says(Line, Before)))
  \/ ~Line.end /\ Return("BMP_LINE", After(header, Line), With(Says(Line, Before)))

LEMMA EscapeMark ==
  ASSUME LineHere, AtPiece(EndOf(Line)), Packing(header),
         header.biCompression = "BI_RLE4" => EvenLine(header, Line),
         NEW code, code = Mark(Line), Escape(code), InBuffer
  PROVE  Ended
<1>1. bits = With(Says(Line, Before))
  <2>1. Pixels = Says(Line, Before)
    BY PartialEnd DEF AtPiece, LineHere
  <2> QED
    BY <2>1, SameBits
<1>2. After(header, Line) = here + 2
  BY DEF After, AtPiece
<1>3. CASE Line.end
  <2>1. code = 1 /\ code # 0 /\ code # 2
    BY <1>3 DEF Mark
  <2>2. Return("BMP_END", here + 2, bits)
    BY <2>1, Zenon DEF Escape
  <2> QED
    BY <1>1, <1>2, <1>3, <2>2 DEF Ended
<1>4. CASE ~Line.end
  <2>1. code = 0 /\ code # 1 /\ code # 2
    BY <1>4 DEF Mark
  <2>2. Return("BMP_LINE", here + 2, bits)
    BY <2>1, Zenon DEF Escape
  <2> QED
    BY <1>1, <1>2, <1>4, <2>2 DEF Ended
<1> QED
  BY <1>3, <1>4

LEMMA MarkHere ==
  ASSUME LineHere, AtPiece(EndOf(Line)), Packing(header)
  PROVE  Byte(here) = 0 /\ Byte(here + 1) = Mark(Line)
<1>1. here = Line.at[EndOf(Line)] /\ here \in Nat
  BY Places DEF AtPiece, LineHere
<1>2. data[here + 1] = 0 /\ data[here + 2] = Mark(Line)
  BY <1>1 DEF LineHere, LineCoded
<1> QED
  BY <1>1, <1>2 DEF Byte

LEMMA End8 ==
  ASSUME LineHere, AtPiece(EndOf(Line)), header.biCompression = "BI_RLE8", RLE8, InBuffer
  PROVE  Ended
<1> PICK count : count = Byte(here)
  OBVIOUS
<1> PICK code : code = Byte(here + 1)
  OBVIOUS
<1>1. Packing(header) /\ header.biCompression # "BI_RLE4"
  BY DEF Packing
<1>2. count = 0 /\ code = Mark(Line)
  BY <1>1, MarkHere
<1>3. ~(count > 0) /\ ~(code > 2)
  BY <1>2 DEF Mark
<1>5. Fits(0)
  BY DEF Fits
<1>4. Escape(code)
  BY <1>3, <1>5, Cases8, Zenon
<1> QED
  BY <1>1, <1>2, <1>4, EscapeMark

Halves(code, n) == [j \in 0 .. n - 1 |-> Nibble(code, pos + j)]
LEMMA Cases4 ==
  ASSUME RLE4, NEW count, count = Byte(here), NEW code, code = Byte(here + 1)
  PROVE  \/ count > 0 /\ pos + count > header.biWidth
         \/ /\ count > 0 /\ pos + count <= header.biWidth
            /\ GoOn(here + 2, pos + count, Pack(count, Halves(code, count)))
         \/ count = 0 /\ Escape(code)
         \/ /\ count = 0 /\ code > 2
            /\ GoOn(here + 2 + 2 * ((code + 3) \div 4), pos + code,
                    Pack(code, [j \in 0 .. code - 1 |-> Nibble(Byte(here + 2 + j \div 2), j)]))
         \/ ~Fits(IF count > 0 THEN IF pos + count <= header.biWidth THEN count
                                     ELSE header.biWidth - pos + 1
                   ELSE IF code > 2 THEN code ELSE 0)
BY DEF RLE4, Halves

LEMMA End4 ==
  ASSUME LineHere, AtPiece(EndOf(Line)), header.biCompression = "BI_RLE4",
         EvenLine(header, Line), RLE4, InBuffer
  PROVE  Ended
<1> PICK count : count = Byte(here)
  OBVIOUS
<1> PICK code : code = Byte(here + 1)
  OBVIOUS
<1>1. Packing(header)
  BY DEF Packing
<1>2. count = 0 /\ code = Mark(Line)
  BY <1>1, MarkHere
<1>3. ~(count > 0) /\ ~(code > 2)
  BY <1>2 DEF Mark
<1>5. Fits(0)
  BY DEF Fits
<1>4. Escape(code)
  BY <1>3, <1>5, Cases4, Zenon
<1> QED
  BY <1>1, <1>2, <1>4, EscapeMark

(* The pixels of a run of four bits: one, or two in turn that begin at an  *)
(* even position.                                                          *)
RunHere(p, code) ==
  /\ Len(p.pixels) \in {1, 2} /\ Nibbles(p.pixels)
  /\ code \div 16 = PixelOf(p, 0) /\ code % 16 = PixelOf(p, 1)
  /\ p.pixels[1] # PixelOf(p, 1) => pos % 2 = 0
LEMMA RunHalves ==
  ASSUME NEW p, NEW code, NEW n \in Nat, pos \in Nat, RunHere(p, code),
         NEW j \in 0 .. n - 1
  PROVE  Halves(code, n)[j] = PixelOf(p, j) /\ Halves(code, n)[j] \in 0 .. 15
<1>1. Halves(code, n)[j] = IF (pos + j) % 2 = 0 THEN PixelOf(p, 0) ELSE PixelOf(p, 1)
  BY DEF Halves, Nibble, RunHere
<1>2. j \in Nat
  OBVIOUS
<1>3. CASE Len(p.pixels) = 1
  <2>1. j % 1 = 0 /\ 0 % 1 = 0 /\ 1 % 1 = 0
    BY <1>2
  <2>2. PixelOf(p, j) = p.pixels[1] /\ PixelOf(p, 0) = p.pixels[1] /\ PixelOf(p, 1) = p.pixels[1]
    BY <1>3, <2>1 DEF PixelOf
  <2>3. p.pixels[1] \in 0 .. 15
    BY <1>3 DEF Nibbles, RunHere
  <2> QED
    BY <1>1, <2>2, <2>3
<1>4. CASE Len(p.pixels) = 2
  <2>1. /\ PixelOf(p, 0) = p.pixels[1] /\ PixelOf(p, 1) = p.pixels[2]
        /\ PixelOf(p, j) = p.pixels[(j % 2) + 1]
    BY <1>4 DEF PixelOf
  <2>2. p.pixels[1] \in 0 .. 15 /\ p.pixels[2] \in 0 .. 15
    BY <1>4 DEF Nibbles, RunHere
  <2>3. j % 2 \in {0, 1}
    BY <1>2
  <2>4. p.pixels[1] # p.pixels[2] => (pos + j) % 2 = j % 2
    BY <1>2, <2>1 DEF RunHere
  <2> QED
    BY <1>1, <2>1, <2>2, <2>3, <2>4
<1> QED
  BY <1>3, <1>4 DEF RunHere

LEMMA Round4 ==
  ASSUME LineHere, NEW k \in 1 .. Len(Line.pieces), AtPiece(k),
         header.biCompression = "BI_RLE4", EvenLine(header, Line),
         Line.from[k + 1] <= header.biWidth, RLE4, InBuffer
  PROVE  GoOn(Line.at[k + 1], Line.from[k + 1], With(Partial(header, Line, k + 1, Before)))
<1> PICK p : p = Line.pieces[k]
  OBVIOUS
<1>1. /\ here \in Nat /\ pos \in Nat /\ Line.from[k + 1] = pos + Size(p)
      /\ Line.at[k + 1] = here + Bytes(header, p)
      /\ At4(data, p, here)
  BY PieceHere DEF Coded, Packing, Deep
<1> PICK count : count = Byte(here)
  OBVIOUS
<1> PICK code : code = Byte(here + 1)
  OBVIOUS
<1>2. count = data[here + 1] /\ code = data[here + 2]
  BY <1>1 DEF Byte
<1>3. CASE p.piece = "run"
  <2>1. /\ count = p.n /\ p.n \in 1 .. 255
        /\ Len(p.pixels) \in {1, 2} /\ Nibbles(p.pixels)
        /\ code \div 16 = PixelOf(p, 0) /\ code % 16 = PixelOf(p, 1)
    BY <1>1, <1>2, <1>3 DEF At4
  <2>2. count \in 1 .. 255
    BY <2>1, Zenon
  <2>3. count > 0 /\ count # 0 /\ count \in Nat \ {0}
    BY ONLY <2>2
  <2>4. Size(p) = count /\ Bytes(header, p) = 2
    BY <1>3, <2>1 DEF Size, Bytes
  <2>5. ~(pos + count > header.biWidth)
    <3>1. Line.from[k + 1] = pos + count
      BY <1>1, <2>4
    <3>2. header.biWidth \in Nat /\ pos + count \in Nat
      <4>1. header.biWidth \in Nat
        BY DEF LineHere, HeaderCoded
      <4> QED
        BY <1>1, <2>3, <4>1
    <3> QED
      BY <3>1, <3>2
  <2> PICK val : val = Halves(code, count)
    OBVIOUS
  <2>10. pos + count <= header.biWidth
    BY <1>1, <2>4
  <2>11. Fits(count)
    BY <1>1, <2>3, <2>10, RoomLeft
  <2>6. GoOn(here + 2, pos + count, Pack(count, val))
    BY <2>3, <2>5, <2>10, <2>11, Cases4, Zenon
  <2>7. p.pixels[1] # PixelOf(p, 1) => pos % 2 = 0
    BY <1>3 DEF EvenLine, AtPiece
  <2>8. ASSUME NEW j \in 0 .. count - 1 PROVE val[j] = PixelOf(p, j) /\ val[j] \in 0 .. 15
    <3>1. Halves(code, count)[j] = PixelOf(p, j) /\ Halves(code, count)[j] \in 0 .. 15
      <4>1. count \in Nat /\ pos \in Nat /\ j \in 0 .. count - 1
        BY <1>1, <2>3, <2>8
      <4>2. RunHere(p, code)
        BY ONLY <2>1, <2>7 DEF RunHere
      <4> QED
        BY ONLY <4>1, <4>2, RunHalves
    <3> QED
      BY <3>1
  <2>9. Pack(count, val) = With(Partial(header, Line, k + 1, Before))
    <3>1. PackLine(count, val) = Partial(header, Line, k + 1, Before)
      BY <1>3, <2>3, <2>4, <2>8, Packed
    <3>2. Pack(count, val) = With(PackLine(count, val))
      BY <1>1, <2>3, <2>10, PackIsLine
    <3> QED
      BY <3>1, <3>2
  <2> QED
    BY <1>1, <2>4, <2>6, <2>9
<1>4. CASE p.piece = "skip"
  <2>1. count = 0 /\ code = 2 /\ data[here + 3] = p.n
    BY <1>1, <1>2, <1>4 DEF At4
  <2>2. Escape(code)
    <3>1. ~(count > 0) /\ ~(code > 2)
      BY ONLY <2>1
    <3>2. Fits(0)
      BY DEF Fits
    <3> QED
      BY <3>1, <3>2, Cases4, Zenon
  <2> QED
    BY <1>4, <2>1, <2>2, EscapeSkip
<1>5. CASE p.piece = "list"
  <2>1. /\ count = 0 /\ code = Len(p.pixels) /\ Len(p.pixels) \in 3 .. 255
        /\ Nibbles(p.pixels)
        /\ \A j \in 0 .. Len(p.pixels) - 1 :
             p.pixels[j + 1] = Nibble(data[here + 3 + j \div 2], j)
    BY <1>1, <1>2, <1>5 DEF At4, Nibble
  <2>2. code \in 3 .. 255
    BY <2>1, Zenon
  <2> PICK val : val = [j \in 0 .. code - 1 |-> Nibble(Byte(here + 2 + j \div 2), j)]
    OBVIOUS
  <2>8. code \in Nat /\ pos + code <= header.biWidth
    <3>1. code \in Nat
      BY ONLY <2>2
    <3>2. Size(p) = code
      BY <1>5, <2>1 DEF Size
    <3> QED
      BY <1>1, <3>1, <3>2
  <2>9. Fits(code)
    BY <1>1, <2>8, RoomLeft
  <2>3. GoOn(here + 2 + 2 * ((code + 3) \div 4), pos + code, Pack(code, val))
    <3>1. count = 0
      BY <2>1, Zenon
    <3>4. code > 2
      BY ONLY <2>2
    <3>2. code # 0 /\ code # 1 /\ code # 2 /\ ~(count > 0)
      BY ONLY <2>2, <3>1
    <3>3. ~Escape(code)
      BY <3>2, Zenon DEF Escape
    <3> QED
      BY <2>9, <3>2, <3>3, <3>4, Cases4, Zenon
  <2>4. Size(p) = code /\ Bytes(header, p) = 2 + 2 * ((code + 3) \div 4)
    BY <1>5, <2>1 DEF Size, Bytes, BytesOfList
  <2>5. ASSUME NEW j \in 0 .. code - 1 PROVE val[j] = PixelOf(p, j) /\ val[j] \in 0 .. 15
    <3>0. j \in Nat /\ j < code /\ j + 1 \in 1 .. code /\ j \div 2 \in Nat
      BY ONLY <2>2, <2>5
    <3>1. /\ j \in Nat /\ j < Len(p.pixels) /\ j + 1 \in 1 .. Len(p.pixels)
          /\ j \in 0 .. Len(p.pixels) - 1 /\ j \div 2 \in Nat
      BY <2>1, <2>5, <3>0, Zenon
    <3>2. val[j] = Nibble(data[here + 3 + j \div 2], j)
      <4>1. (here + 2 + j \div 2) + 1 = here + 3 + j \div 2
        BY <1>1, <3>1
      <4> QED
        BY <4>1 DEF Byte
    <3>3. (j % Len(p.pixels)) + 1 = j + 1
      <4>1. code \in Nat
        BY ONLY <2>2
      <4>2. j % code = j
        BY <3>0, <4>1, SmallMod
      <4> QED
        BY <2>1, <4>2
    <3>4. p.pixels[j + 1] \in 0 .. 15
      BY <2>1, <3>1 DEF Nibbles
    <3> QED
      BY <2>1, <3>1, <3>2, <3>3, <3>4 DEF PixelOf
  <2>6. Pack(code, val) = With(Partial(header, Line, k + 1, Before))
    <3>1. code \in Nat \ {0}
      BY ONLY <2>2
    <3>2. PackLine(code, val) = Partial(header, Line, k + 1, Before)
      BY <1>5, <2>4, <2>5, <3>1, Packed
    <3>3. Pack(code, val) = With(PackLine(code, val))
      BY <1>1, <2>8, PackIsLine
    <3> QED
      BY <3>2, <3>3
  <2>7. here + 2 + 2 * ((code + 3) \div 4) = here + Bytes(header, p)
    <3>1. (code + 3) \div 4 \in Int
      BY ONLY <2>2
    <3> QED
      BY ONLY <1>1, <2>4, <3>1
  <2> QED
    BY <1>1, <2>3, <2>4, <2>6, <2>7
<1> QED
  BY <1>1, <1>3, <1>4, <1>5 DEF At4

(* A line that is not compressed is one list.                              *)
LEMMA PlainLine ==
  ASSUME LineHere, AtPiece(1), ~Packing(header), NEW p, p = Line.pieces[1], NEW n, n = Len(p.pixels)
  PROVE  /\ Len(Line.pieces) = 1 /\ ~Line.end
         /\ here \in Nat /\ Coded(header, data, p, here)
         /\ n = Cells(header) /\ n \in Nat /\ p.piece = "list"
         /\ After(header, Line) = here + BytesOfList(header, n)
         /\ DOMAIN Before = 0 .. n - 1
         /\ \A x \in 0 .. n - 1 : x \in Nat /\ Says(Line, Before)[x] = p.pixels[x + 1]
<1>1. Len(Line.pieces) = 1 /\ ~Line.end
  BY DEF LineHere, LineCoded
<1>2. 1 \in 1 .. Len(Line.pieces)
  BY <1>1
<1>3. /\ here \in Nat /\ Coded(header, data, p, here)
      /\ Line.from[2] = pos + Size(p) /\ Line.at[2] = here + Bytes(header, p)
      /\ Size(p) \in Nat /\ pos = 0
  <2>1. pos = 0
    BY DEF AtPiece, LineHere, LineCoded
  <2> QED
    BY <1>2, <2>1, PieceHere
<1>4. p.piece = "list" /\ n = Cells(header)
  <2>1. CASE Deep(header)
    BY <1>3, <2>1 DEF Coded, At16, Cells, Packing
  <2>2. CASE ~Deep(header)
    BY <1>3, <2>2 DEF Coded, AtRaw, Cells, Packing
  <2> QED
    BY <2>1, <2>2
<1>5. Size(p) = n /\ Bytes(header, p) = BytesOfList(header, n)
  BY <1>4 DEF Size, Bytes
<1>6. After(header, Line) = here + BytesOfList(header, n)
  <2>1. EndOf(Line) = 2
    BY <1>1 DEF EndOf
  <2>2. BytesOfList(header, n) \in Int
    BY <1>3, <1>5 DEF BytesOfList
  <2> QED
    BY <1>3, <1>5, <2>1, <2>2 DEF After
<1>7. DOMAIN Before = 0 .. n - 1
  BY <1>4 DEF LineHere, Row
<1>8. ASSUME NEW x \in 0 .. n - 1 PROVE x \in Nat /\ Says(Line, Before)[x] = p.pixels[x + 1]
  <2>1. n \in Nat /\ x \in Nat /\ x < n
    BY <1>3, <1>5
  <2>2. x \in Line.from[1] .. Line.from[2] - 1 /\ Line.from[1] = 0
    <3>1. Line.from[1] = 0 /\ Line.from[2] = n
      <4>1. Line.from[1] = 0
        BY DEF LineHere, LineCoded
      <4> QED
        BY <1>3, <1>5, <2>1, <4>1
    <3> QED
      BY <2>1, <3>1
  <2>3. Says(Line, Before)[x] = PixelOf(p, x - Line.from[1])
    <3> PICK k \in Nat : k = 1
      OBVIOUS
    <3>1. /\ HeaderCoded(header) /\ LineCoded(header, data, Line)
          /\ x \in DOMAIN Before /\ x \in Int
      BY <1>7, <2>1 DEF LineHere
    <3>2. k \in 1 .. Len(Line.pieces) /\ Line.pieces[k] = p /\ p.piece # "skip"
      BY <1>2, <1>4
    <3>3. x \in Line.from[k] .. Line.from[k + 1] - 1 /\ Line.from[k] = Line.from[1]
      BY <2>2
    <3>4. Says(Line, Before)[x] = IF Line.pieces[k].piece = "skip" THEN Before[x]
                                  ELSE PixelOf(Line.pieces[k], x - Line.from[k])
      BY ONLY <3>1, <3>2, <3>3, SaidByPiece
    <3> QED
      BY <3>2, <3>3, <3>4, Zenon
  <2>4. x - Line.from[1] = x /\ x % n = x
    <3>1. x % n = x
      BY ONLY <2>1, SmallMod
    <3> QED
      BY <2>1, <2>2, <3>1
  <2> QED
    BY <2>1, <2>3, <2>4 DEF PixelOf
<1> QED
  BY <1>1, <1>3, <1>4, <1>5, <1>6, <1>7, <1>8

LEMMA Channels555 ==
  ASSUME NEW color, NEW w, In555(color, w), header.gmask = 992
  PROVE  Channels(w) = color
<1>1. PICK b \in 0 .. 31, g \in 0 .. 31, r \in 0 .. 31 :
        color = <<b * 8, g * 8, r * 8>> /\ w = b + 32 * g + 1024 * r
  BY DEF In555
<1> PICK v \in Int : v = b + 32 * g + 1024 * r
  OBVIOUS
<1>2. v % 32 = b /\ (v \div 32) % 32 = g /\ (v \div 1024) % 32 = r
  OBVIOUS
<1>3. w = v
  BY <1>1
<1> QED
  BY <1>1, <1>2, <1>3 DEF Channels

LEMMA Channels565 ==
  ASSUME NEW color, NEW w, In565(color, w), header.gmask # 992
  PROVE  Channels(w) = color
<1>1. PICK b \in 0 .. 31, g \in 0 .. 63, r \in 0 .. 31 :
        color = <<b * 8, g * 4, r * 8>> /\ w = b + 32 * g + 2048 * r
  BY DEF In565
<1> PICK v \in Int : v = b + 32 * g + 2048 * r
  OBVIOUS
<1>2. v % 32 = b /\ (v \div 32) % 64 = g /\ (v \div 2048) % 32 = r
  OBVIOUS
<1>3. w = v
  BY <1>1
<1> QED
  BY <1>1, <1>2, <1>3 DEF Channels

LEMMA Line16 ==
  ASSUME LineHere, AtPiece(1), Deep(header), Read16
  PROVE  Ended
<1> PICK p : p = Line.pieces[1]
  OBVIOUS
<1> PICK n : n = Len(p.pixels)
  OBVIOUS
<1>1. ~Packing(header)
  BY DEF Deep
<1>2. /\ ~Line.end /\ here \in Nat /\ At16(header, data, p, here) /\ n = header.biWidth /\ n \in Nat
      /\ After(header, Line) = here + BytesOfList(header, n)
      /\ DOMAIN Before = 0 .. n - 1
      /\ \A x \in 0 .. n - 1 : x \in Nat /\ Says(Line, Before)[x] = p.pixels[x + 1]
  <2>1. Coded(header, data, p, here) => At16(header, data, p, here)
    BY DEF Coded, Deep, Packing
  <2>2. Cells(header) = header.biWidth
    BY DEF Cells
  <2> QED
    BY <1>1, <2>1, <2>2, PlainLine
<1>3. ASSUME NEW x \in 0 .. n - 1 PROVE Channels(Word(here + 2 * x)) = Says(Line, Before)[x]
  <2>1. x \in Nat /\ x + 1 \in 1 .. n /\ Says(Line, Before)[x] = p.pixels[x + 1]
    BY <1>2
  <2> PICK w : w = Word(here + 2 * x)
    OBVIOUS
  <2>2. w = data[here + 2 * (x + 1) - 1] + 256 * data[here + 2 * (x + 1)]
    <3>1. (here + 2 * x) + 1 = here + 2 * (x + 1) - 1 /\ ((here + 2 * x) + 1) + 1 = here + 2 * (x + 1)
      BY <1>2, <2>1
    <3> QED
      BY <3>1 DEF Word, Byte
  <2>3. IF header.gmask = 992 THEN In555(p.pixels[x + 1], w) ELSE In565(p.pixels[x + 1], w)
    BY <1>2, <2>1, <2>2 DEF At16
  <2> QED
    BY <2>1, <2>3, Channels555, Channels565
<1>4. [x \in 0 .. header.biWidth - 1 |-> Channels(Word(here + 2 * x))] = Says(Line, Before)
  <2>1. Says(Line, Before) = [x \in 0 .. n - 1 |-> Says(Line, Before)[x]]
    BY <1>2 DEF Says
  <2> QED
    BY <1>2, <1>3, <2>1
<1>5. here + 2 * header.biWidth + 2 * (header.biWidth % 2) = After(header, Line)
  <2>1. BytesOfList(header, n) = 2 * n + 2 * (n % 2)
    BY <1>1 DEF BytesOfList, Packing, Deep
  <2> QED
    BY <1>2, <2>1
<1> QED
  BY <1>2, <1>4, <1>5 DEF Read16, Ended

LEMMA LineRaw ==
  ASSUME LineHere, AtPiece(1), ~Packing(header), ~Deep(header), ReadRaw
  PROVE  Ended
<1> PICK p : p = Line.pieces[1]
  OBVIOUS
<1> PICK n : n = Len(p.pixels)
  OBVIOUS
<1>1. /\ ~Line.end /\ here \in Nat /\ AtRaw(header, data, p, here) /\ n = Pitch /\ n \in Nat
      /\ After(header, Line) = here + BytesOfList(header, n)
      /\ DOMAIN Before = 0 .. n - 1
      /\ \A x \in 0 .. n - 1 : x \in Nat /\ Says(Line, Before)[x] = p.pixels[x + 1]
  <2>1. Coded(header, data, p, here) => AtRaw(header, data, p, here)
    BY DEF Coded, Packing
  <2>2. Cells(header) = Pitch
    BY DEF Cells, Pitch, PitchOf
  <2> QED
    BY <2>1, <2>2, PlainLine
<1>2. After(header, Line) = here + n
  BY <1>1 DEF BytesOfList, Packing
<1>3. After(header, Line) <= Len(data) /\ Len(data) \in Nat
  BY DEF LineHere, LineCoded
<1>4. Items(1, Pitch) = n
  <2>1. Pitch * 1 = n /\ ~(here + n > Len(data))
    BY <1>1, <1>2, <1>3
  <2> QED
    BY <1>1, <2>1 DEF Items
<1>5. DOMAIN Pixels = 0 .. n - 1
  BY <1>1 DEF AtPiece, Partial
<1>6. ASSUME NEW x \in 0 .. n - 1
      PROVE  (IF x < n THEN Byte(here + x) ELSE Pixels[x]) = Says(Line, Before)[x]
  <2>1. x \in Nat /\ x < n /\ x + 1 \in 1 .. n /\ Says(Line, Before)[x] = p.pixels[x + 1]
    BY <1>1
  <2>2. (here + x) + 1 = here + (x + 1)
    BY <1>1, <2>1
  <2>3. data[here + (x + 1)] = p.pixels[x + 1]
    BY <1>1, <2>1 DEF AtRaw
  <2> QED
    BY <2>1, <2>2, <2>3 DEF Byte
<1>7. [x \in DOMAIN Pixels |-> IF x < n THEN Byte(here + x) ELSE Pixels[x]] = Says(Line, Before)
  <2>1. Says(Line, Before) = [x \in 0 .. n - 1 |-> Says(Line, Before)[x]]
    BY <1>1 DEF Says
  <2> QED
    BY <1>5, <1>6, <2>1
<1> QED
  BY <1>1, <1>2, <1>4, <1>7 DEF ReadRaw, Ended

-----------------------------------------------------------------------------
(* The lines of a file.                                                    *)
LEMMA FileLine ==
  ASSUME FileCoded(header, data), NEW i \in Given(header)
  PROVE  /\ HeaderCoded(header) /\ Row(header, header.blank)
         /\ LineCoded(header, data, header.lines[i])
         /\ i = 0 \/ header.lines[i].end => Len(data) = After(header, header.lines[i])
         /\ i # 0 /\ ~header.lines[i].end => header.lines[i - 1].at[1] = After(header, header.lines[i])
BY DEF FileCoded

LEMMA GivenLine ==
  ASSUME HeaderCoded(header), NEW i \in Given(header)
  PROVE  /\ i \in Nat /\ i <= header.biHeight - 1 /\ header.biHeight \in Nat \ {0}
         /\ i # 0 /\ ~header.lines[i].end => i - 1 \in Given(header)
<1>1. /\ i \in 0 .. header.biHeight - 1 /\ header.biHeight \in Nat \ {0}
      /\ \A j \in i + 1 .. header.biHeight - 1 : ~header.lines[j].end
  BY DEF Given, HeaderCoded
<1>2. ASSUME i # 0, ~header.lines[i].end PROVE i - 1 \in Given(header)
  <2>1. i - 1 \in 0 .. header.biHeight - 1
    BY <1>1, <1>2
  <2>2. ASSUME NEW j \in (i - 1) + 1 .. header.biHeight - 1 PROVE ~header.lines[j].end
    <3>1. j = i \/ j \in i + 1 .. header.biHeight - 1
      BY <1>1
    <3> QED
      BY <1>1, <1>2, <3>1
  <2> QED
    BY <2>1, <2>2 DEF Given
<1> QED
  BY <1>1, <1>2

LEMMA LineIsHere ==
  ASSUME FileCoded(header, data), data \in Seq(0 .. 255), line \in Given(header), ShownExact
  PROVE  LineHere
<1>1. HeaderCoded(header) /\ LineCoded(header, data, Line) /\ Row(header, header.blank)
  BY FileLine DEF Line
<1>2. Row(header, Before)
  <2>1. CASE header.one /\ shown # <<>>
    <3>1. Len(shown) \in 1 .. Len(shown)
      BY <2>1 DEF ShownExact
    <3> QED
      BY <2>1, <3>1 DEF ShownExact, Before
  <2>2. CASE ~(header.one /\ shown # <<>>)
    BY <1>1, <2>2 DEF Before
  <2> QED
    BY <2>1, <2>2
<1> QED
  BY <1>1, <1>2 DEF LineHere

(* The buffer of a picture whose lines were read so far.                   *)
LEMMA BufferIs ==
  ASSUME FileCoded(header, data), Regular(header), line \in Given(header), Packing(header),
         LineHere, BitsExact, NEW k, AtPiece(k)
  PROVE  InBuffer
<1>1. header.biWidth \in Nat /\ Row(header, header.blank) /\ Row(header, Before)
      /\ Cells(header) = header.biWidth
  BY DEF LineHere, HeaderCoded, FileCoded, Cells
<1>2. Stride \in Nat /\ header.biWidth <= Stride
  <2> PICK w \in Nat : w = header.biWidth
    BY <1>1
  <2>1. CASE header.biCompression = "BI_RLE8"
    <3>1. Stride = ((w * 8 + 31) \div 32) * 4
      BY <2>1 DEF Stride, Pitch, Regular
    <3> QED
      BY <3>1
  <2>2. CASE header.biCompression = "BI_RLE4"
    <3>1. Stride = 2 * (((w * 4 + 31) \div 32) * 4)
      BY <2>2 DEF Stride, Pitch, Regular
    <3> QED
      BY <3>1
  <2> QED
    BY <2>1, <2>2 DEF Packing
<1>3. ASSUME NEW i \in Slots
      PROVE  Row(header, bits[i])
  <2>0. Slots \subseteq Int /\ line \in Int
    BY Slot DEF LineHere
  <2>1. CASE i = LineOf(line)
    <3>1. bits[i] = Partial(header, Line, k, Before)
      BY <2>1 DEF AtPiece, Pixels
    <3>2. DOMAIN Before = 0 .. Cells(header) - 1
      BY <1>1 DEF Row
    <3> QED
      BY <3>1, <3>2 DEF Row, Partial
  <2>2. CASE i # LineOf(line)
    <3>1. ~header.one /\ i # line /\ i \in Int /\ line \in Int
      BY <2>0, <2>2, Slot DEF LineHere
    <3>2. bits[i] = Says(header.lines[i], header.blank) \/ bits[i] = header.blank
      BY <3>1 DEF BitsExact
    <3>3. DOMAIN header.blank = 0 .. Cells(header) - 1
      BY <1>1 DEF Row
    <3> QED
      BY <1>1, <3>2, <3>3 DEF Row, Says
  <2> QED
    BY <2>1, <2>2
<1> QED
  BY <1>1, <1>2, <1>3 DEF InBuffer, BitsExact, Row

(* A step within a line.                                                   *)
LEMMA GoOnInv ==
  ASSUME LineHere, line \in Given(header), ShownExact, BitsExact, Packing(header),
         NEW k \in 1 .. Len(Line.pieces), Line.from[k + 1] <= header.biWidth,
         GoOn(Line.at[k + 1], Line.from[k + 1], With(Partial(header, Line, k + 1, Before))),
         UNCHANGED <<data, header>>
  PROVE  RegularInv'
<1> PICK now : now = Partial(header, Line, k + 1, Before)
  OBVIOUS
<1>1. /\ here' = Line.at[k + 1] /\ pos' = Line.from[k + 1]
      /\ bits' = [bits EXCEPT ![LineOf(line)] = now]
      /\ bmp' = "load" /\ line' = line /\ shown' = shown /\ header' = header
  BY DEF GoOn, Put, With
<1>2. Line' = Line /\ Before' = Before /\ Slots' = Slots
  BY <1>1 DEF Line, Before, Slots
<1>3. LineOf(line) \in Slots /\ (~header.one => LineOf(line) = line) /\ DOMAIN bits = Slots
      /\ line \in Nat /\ \A i \in Slots : i \in Int
  BY Slot, GivenLine DEF LineHere, BitsExact
<1>4. Pixels' = now
  <2>1. LineOf(line)' = LineOf(line)
    BY <1>1 DEF LineOf
  <2> QED
    BY <1>1, <1>3, <2>1 DEF Pixels
<1>5. ShownExact'
  BY <1>1 DEF ShownExact, ShownBefore
<1>6. BitsExact'
  <2>1. bits' = [i \in Slots' |-> bits'[i]]
    BY <1>1, <1>2, <1>3
  <2>2. ASSUME ~header.one, NEW i \in Slots, i # line PROVE bits'[i] = bits[i]
    BY <1>1, <1>3, <2>2
  <2>3. ASSUME ~header.one, NEW i \in Slots
        PROVE  /\ i > line => bits'[i] = Says(header.lines[i], header.blank)
               /\ i < line => bits'[i] = header.blank
    BY <1>3, <2>2, <2>3 DEF BitsExact
  <2> QED
    BY <1>1, <1>2, <2>1, <2>3 DEF BitsExact
<1>7. Reading'
  <2>1. k + 1 \in 1 .. EndOf(Line)
    BY Places DEF LineHere
  <2>2. AtPiece(k + 1)'
    BY <1>1, <1>2, <1>4 DEF AtPiece
  <2>3. (line \in Given(header))' /\ Packing(header)' /\ EndOf(Line)' = EndOf(Line)
    BY <1>1, <1>2
  <2> QED
    BY <2>1, <2>2, <2>3 DEF Reading
<1> QED
  BY <1>1, <1>5, <1>6, <1>7 DEF RegularInv

(* The end of a line.                                                      *)
LEMMA SaidIsRow ==
  ASSUME LineHere
  PROVE  Row(header, Says(Line, Before))
BY DEF LineHere, Row, Says

(* One more element of a sequence.                                         *)
LEMMA Appended ==
  ASSUME NEW S, NEW s \in Seq(S), NEW e, NEW t, t = Append(s, e)
  PROVE  /\ Len(t) = Len(s) + 1
         /\ \A k \in 1 .. Len(s) : k \in 1 .. Len(s) + 1 /\ t[k] = s[k]
         /\ t[Len(s) + 1] = e
         /\ t \in Seq({t[k] : k \in 1 .. Len(t)})
<1> PICK T : T = S \cup {e}
  OBVIOUS
<1>1. s \in Seq(T) /\ e \in T
  OBVIOUS
<1>2. t \in Seq(T) /\ Len(t) = Len(s) + 1 /\ Len(s) \in Nat
  BY <1>1
<1>3. \A k \in 1 .. Len(s) : k \in 1 .. Len(s) + 1 /\ t[k] = s[k]
  BY <1>1
<1>4. t[Len(s) + 1] = e
  BY <1>1
<1>5. t \in Seq({t[k] : k \in 1 .. Len(t)})
  BY <1>2
<1> QED
  BY <1>2, <1>3, <1>4, <1>5

LEMMA ShownMore ==
  ASSUME LineHere, line \in Given(header), ShownExact, UNCHANGED header, line' = line - 1,
         NEW now, now = Says(Line, Before),
         shown' = IF header.one THEN Append(shown, <<line, now>>) ELSE shown
  PROVE  ShownExact' /\ (header.one => Before' = now)
<1> PICK S : S = {shown[k] : k \in 1 .. Len(shown)}
  OBVIOUS
<1> PICK n : n = Len(shown)
  OBVIOUS
<1>1. shown \in Seq(S) /\ n \in Nat
  BY DEF ShownExact
<1>2. /\ line \in Nat /\ header.biHeight \in Nat /\ line <= header.biHeight - 1
      /\ Row(header, now)
  BY GivenLine, SaidIsRow DEF LineHere
<1>3. CASE ~header.one
  BY <1>3 DEF ShownExact
<1>4. CASE header.one
  <2>1. shown' = Append(shown, <<line, now>>) /\ n = header.biHeight - 1 - line
    BY <1>4 DEF ShownExact
  <2>2. /\ Len(shown') = n + 1
        /\ \A k \in 1 .. n : k \in 1 .. n + 1 /\ shown'[k] = shown[k]
        /\ shown'[n + 1] = <<line, now>>
        /\ shown' \in Seq({shown'[k] : k \in 1 .. Len(shown')})
    <3> PICK t : t = shown'
      OBVIOUS
    <3> PICK e : e = <<line, now>>
      OBVIOUS
    <3>1. t = Append(shown, e)
      BY <2>1
    <3>2. /\ Len(t) = Len(shown) + 1
          /\ \A k \in 1 .. Len(shown) : k \in 1 .. Len(shown) + 1 /\ t[k] = shown[k]
          /\ t[Len(shown) + 1] = e
          /\ t \in Seq({t[k] : k \in 1 .. Len(t)})
      BY ONLY <1>1, <3>1, Appended
    <3> QED
      BY <3>2
  <2>3. Before = IF n + 1 = 1 THEN header.blank ELSE shown[n][2]
    BY <1>1, <1>4 DEF Before
  <2>4. ASSUME NEW k \in 1 .. n + 1
        PROVE  /\ Row(header, shown'[k][2])
               /\ shown'[k] = <<header.biHeight - k,
                                Says(header.lines[header.biHeight - k], ShownBefore(k)')>>
    <3>1. CASE k \in 1 .. n
      <4>1. ShownBefore(k)' = ShownBefore(k)
        <5>1. k # 1 => k - 1 \in 1 .. n
          BY <1>1, <3>1
        <5> QED
          BY <2>2, <5>1 DEF ShownBefore
      <4> QED
        BY <1>4, <2>2, <3>1, <4>1 DEF ShownExact
    <3>2. CASE k = n + 1
      <4>1. header.biHeight - k = line
        <5> PICK h \in Nat : h = header.biHeight
          BY <1>2
        <5>1. n = h - 1 - line /\ line \in Nat
          BY <1>2, <2>1
        <5>2. h - k = line
          BY ONLY <1>1, <3>2, <5>1, h \in Nat
        <5> QED
          BY <5>2
      <4>2. ShownBefore(k)' = Before
        <5>1. n # 0 => n \in 1 .. n /\ (n + 1) - 1 = n
          BY <1>1
        <5> QED
          BY <1>1, <2>2, <2>3, <3>2, <5>1 DEF ShownBefore
      <4>3. shown'[k] = <<line, now>> /\ shown'[k][2] = now
        BY <2>2, <3>2
      <4> QED
        BY <1>2, <4>1, <4>2, <4>3 DEF Line
    <3> QED
      BY <1>1, <3>1, <3>2
  <2>5. n + 1 = header.biHeight - 1 - line'
    <3> PICK h \in Nat : h = header.biHeight
      BY <1>2
    <3>1. n = h - 1 - line /\ line \in Nat /\ line' = line - 1
      BY <1>2, <2>1
    <3>2. n + 1 = h - 1 - line'
      BY ONLY <3>1, h \in Nat
    <3> QED
      BY <3>2
  <2>6. ShownExact'
    BY <1>4, <2>2, <2>4, <2>5 DEF ShownExact
  <2>7. Before' = now
    <3>1. shown' # <<>>
      BY <1>1, <2>2
    <3> QED
      BY <1>4, <2>2, <3>1 DEF Before
  <2> QED
    BY <2>6, <2>7
<1> QED
  BY <1>3, <1>4

LEMMA BitsMore ==
  ASSUME LineHere, line \in Given(header), BitsExact, UNCHANGED header, line' = line - 1,
         NEW now, now = Says(Line, Before),
         bits' = [bits EXCEPT ![LineOf(line)] = now]
  PROVE  BitsExact'
<1>1. LineOf(line) \in Slots /\ (~header.one => LineOf(line) = line) /\ DOMAIN bits = Slots
      /\ line \in Nat /\ \A i \in Slots : i \in Int
  BY Slot, GivenLine DEF LineHere, BitsExact
<1>2. bits' = [i \in Slots' |-> bits'[i]] /\ Slots' = Slots
  BY <1>1 DEF Slots
<1>3. ASSUME ~header.one, NEW i \in Slots
      PROVE  /\ i > line - 1 => bits'[i] = Says(header.lines[i], header.blank)
             /\ i < line - 1 => bits'[i] = header.blank
  <2>1. i # line => bits'[i] = bits[i]
    BY <1>1, <1>3
  <2>2. i = line => bits'[i] = Says(header.lines[i], header.blank)
    BY <1>1, <1>3 DEF Line, Before
  <2>3. /\ i > line - 1 => i > line \/ i = line
        /\ i < line - 1 => i < line /\ i # line
    BY <1>1
  <2> QED
    BY <1>3, <2>1, <2>2, <2>3 DEF BitsExact
<1> QED
  BY <1>2, <1>3 DEF BitsExact

LEMMA EndedInv ==
  ASSUME FileCoded(header, data), data \in Seq(0 .. 255), line \in Given(header),
         ShownExact, BitsExact, Ended, bmp = "load", UNCHANGED <<data, header>>
  PROVE  RegularInv'
<1> PICK now : now = Says(Line, Before)
  OBVIOUS
<1>1. LineHere
  BY LineIsHere
<1>2. /\ here' = After(header, Line) /\ pos' = 0
      /\ bits' = [bits EXCEPT ![LineOf(line)] = now]
      /\ line' = line - 1
      /\ shown' = IF header.one THEN Append(shown, <<line, now>>) ELSE shown
      /\ bmp' = IF Line.end \/ line = 0 THEN "ok" ELSE "load"
  <2>1. DOMAIN bits = Slots /\ (header.one => LineOf(line) = 0 /\ 0 \in Slots)
    BY <1>1, Slot DEF LineHere, BitsExact
  <2>2. header.one => With(now)[0] = now
    BY <2>1 DEF With
  <2>3. /\ here' = After(header, Line) /\ pos' = 0 /\ bits' = With(now) /\ line' = line - 1
        /\ shown' = IF header.one THEN Append(shown, <<line, With(now)[0]>>) ELSE shown
        /\ bmp' = IF Line.end \/ line = 0 THEN "ok" ELSE "load"
    BY DEF Ended, Return, Put
  <2> QED
    <3>1. /\ here' = After(header, Line) /\ pos' = 0 /\ line' = line - 1
          /\ bmp' = IF Line.end \/ line = 0 THEN "ok" ELSE "load"
      BY <2>3
    <3>2. bits' = [bits EXCEPT ![LineOf(line)] = now]
      BY <2>3, Zenon DEF With
    <3>3. shown' = IF header.one THEN Append(shown, <<line, now>>) ELSE shown
      BY <2>2, <2>3, Zenon
    <3> QED
      BY <3>1, <3>2, <3>3, Zenon
<1>3. ShownExact' /\ (header.one => Before' = now)
  BY <1>1, <1>2, ShownMore
<1>4. BitsExact'
  BY <1>1, <1>2, BitsMore
<1>5. line \in Nat /\ line <= header.biHeight - 1 /\ header.biHeight \in Nat \ {0}
  BY <1>1, GivenLine DEF LineHere
<1>6. CASE Line.end \/ line = 0
  <2>1. here' = Len(data)
    BY <1>2, <1>6, FileLine DEF Line
  <2>2. line' \in -1 .. header'.biHeight - 2
    BY <1>2, <1>5
  <2>3. ASSUME ~header.one, line - 1 \in Slots PROVE bits'[line - 1] = header.blank
    <3>1. LineOf(line) = line /\ DOMAIN bits = Slots
      BY <1>1, <2>3, Slot DEF BitsExact, LineHere
    <3>2. line - 1 < line /\ line - 1 # line
      BY <1>5
    <3> QED
      BY <1>2, <2>3, <3>1, <3>2 DEF BitsExact
  <2>4. Slots' = Slots
    BY DEF Slots
  <2> QED
    BY <1>2, <1>3, <1>4, <1>6, <2>1, <2>2, <2>3, <2>4 DEF RegularInv
<1>7. CASE ~(Line.end \/ line = 0)
  <2>1. line - 1 \in Given(header) /\ header.lines[line - 1].at[1] = After(header, Line)
    BY <1>1, <1>7, GivenLine, FileLine DEF Line, LineHere
  <2>2. (line \in Given(header))' /\ Line' = header.lines[line - 1]
    BY <1>2, <2>1 DEF Line
  <2>3. LineHere'
    <3>1. FileCoded(header, data)' /\ (data \in Seq(0 .. 255))'
      OBVIOUS
    <3> QED
      BY <1>3, <2>2, <3>1, LineIsHere, PTL
  <2>4. Pixels' = Before'
    <3>1. LineOf(line)' = IF header.one THEN 0 ELSE line - 1
      BY <1>2 DEF LineOf
    <3>2. CASE header.one
      <4>1. LineOf(line) = 0 /\ 0 \in Slots /\ DOMAIN bits = Slots
        BY <1>1, <3>2, Slot DEF LineOf, BitsExact, LineHere
      <4> QED
        BY <1>2, <1>3, <3>1, <3>2, <4>1 DEF Pixels
    <3>3. CASE ~header.one
      <4>1. line - 1 \in Slots /\ line - 1 < line /\ line - 1 # line
        BY <1>5, <1>7, <3>3 DEF Slots
      <4>2. bits'[line - 1] = bits[line - 1] /\ bits[line - 1] = header.blank
        <5>1. LineOf(line) = line /\ DOMAIN bits = Slots
          BY <1>1, <3>3, Slot DEF BitsExact, LineHere
        <5> QED
          BY <1>2, <3>3, <4>1, <5>1 DEF BitsExact
      <4>3. Before' = header.blank
        BY <3>3 DEF Before
      <4> QED
        BY <3>1, <3>3, <4>2, <4>3 DEF Pixels
    <3> QED
      BY <3>2, <3>3
  <2>5. AtPiece(1)'
    <3>1. Partial(header, Line, 1, Before)' = Before'
      <4>1. LineCoded(header, data, Line)' /\ Row(header, Before)'
        BY <2>3 DEF LineHere
      <4> QED
        BY <4>1, PartialStart
    <3>2. Line'.from[1] = 0
      BY <2>3 DEF LineHere, LineCoded
    <3> QED
      BY <1>2, <2>1, <2>2, <2>4, <3>1, <3>2 DEF AtPiece
  <2>6. 1 \in 1 .. EndOf(Line)'
    <3>1. LineCoded(header, data, Line)'
      BY <2>3 DEF LineHere
    <3>2. EndOf(Line') \in Nat \ {0}
      BY <3>1, Places
    <3> QED
      BY <3>2
  <2>7. Reading'
    BY <2>2, <2>5, <2>6 DEF Reading
  <2> QED
    BY <1>2, <1>3, <1>4, <1>7, <2>7 DEF RegularInv
<1> QED
  BY <1>6, <1>7

(* One round of the loop, in a line of a regular file.                     *)
LEMMA RegularLine ==
  ASSUME FileCoded(header, data), Regular(header), line \in Given(header)
  PROVE  /\ Packing(header) => Line.from[EndOf(Line)] <= header.biWidth
         /\ header.biCompression = "BI_RLE4" => EvenLine(header, Line)
BY DEF Regular, Line

LEMMA PieceFits ==
  ASSUME LineHere, NEW k \in 1 .. Len(Line.pieces), Line.from[EndOf(Line)] <= header.biWidth
  PROVE  Line.from[k + 1] <= header.biWidth
<1>1. /\ k + 1 \in 1 .. EndOf(Line) /\ EndOf(Line) \in 1 .. EndOf(Line) /\ k + 1 <= EndOf(Line)
      /\ HeaderCoded(header) /\ LineCoded(header, data, Line)
  BY Places DEF LineHere
<1>2. Line.from[k + 1] <= Line.from[EndOf(Line)]
  BY <1>1, FromClimbs
<1>3. Line.from[k + 1] \in Nat /\ Line.from[EndOf(Line)] \in Nat
  BY <1>1, Places
<1>4. header.biWidth \in Nat
  BY <1>1 DEF HeaderCoded
<1> QED
  BY <1>2, <1>3, <1>4

LEMMA RoundInv ==
  ASSUME FileCoded(header, data), data \in Seq(0 .. 255), Regular(header),
         bmp = "load", RegularInv, LoadLine
  PROVE  RegularInv'
<1>1. line \in Given(header) /\ ShownExact /\ BitsExact /\ UNCHANGED <<data, header>>
  BY DEF RegularInv, Reading, LoadLine
<1>2. LineHere
  BY <1>1, LineIsHere
<1>3. /\ Packing(header) => Line.from[EndOf(Line)] <= header.biWidth
      /\ header.biCompression = "BI_RLE4" => EvenLine(header, Line)
  BY <1>1, RegularLine
<1>4. PICK k \in 1 .. EndOf(Line) : AtPiece(k) /\ (~Packing(header) => k = 1)
  BY DEF RegularInv, Reading
<1>5. k \in 1 .. Len(Line.pieces) \/ k = EndOf(Line)
  BY <1>2, <1>4, Places DEF LineHere
<1>9. Packing(header) => InBuffer
  BY <1>1, <1>2, <1>4, BufferIs
<1>6. CASE header.biCompression = "BI_RLE8"
  <2>1. Packing(header) /\ RLE8
    BY <1>6 DEF LoadLine, Packing, Compressions
  <2>2. CASE k \in 1 .. Len(Line.pieces)
    <3>1. Line.from[k + 1] <= header.biWidth
      BY <1>2, <1>3, <2>1, <2>2, PieceFits
    <3>2. GoOn(Line.at[k + 1], Line.from[k + 1], With(Partial(header, Line, k + 1, Before)))
      BY <1>2, <1>4, <1>6, <1>9, <2>1, <2>2, <3>1, Round8
    <3> QED
      BY <1>1, <1>2, <2>1, <2>2, <3>1, <3>2, GoOnInv
  <2>3. CASE k = EndOf(Line)
    <3>1. Ended
      BY <1>2, <1>4, <1>6, <1>9, <2>1, <2>3, End8
    <3> QED
      BY <1>1, <3>1, EndedInv
  <2> QED
    BY <1>5, <2>2, <2>3
<1>7. CASE header.biCompression = "BI_RLE4"
  <2>1. Packing(header) /\ RLE4 /\ EvenLine(header, Line)
    BY <1>3, <1>7 DEF LoadLine, Packing, Compressions
  <2>2. CASE k \in 1 .. Len(Line.pieces)
    <3>1. Line.from[k + 1] <= header.biWidth
      BY <1>2, <1>3, <2>1, <2>2, PieceFits
    <3>2. GoOn(Line.at[k + 1], Line.from[k + 1], With(Partial(header, Line, k + 1, Before)))
      BY <1>2, <1>4, <1>7, <1>9, <2>1, <2>2, <3>1, Round4
    <3> QED
      BY <1>1, <1>2, <2>1, <2>2, <3>1, <3>2, GoOnInv
  <2>3. CASE k = EndOf(Line)
    <3>1. Ended
      BY <1>2, <1>4, <1>7, <1>9, <2>1, <2>3, End4
    <3> QED
      BY <1>1, <3>1, EndedInv
  <2> QED
    BY <1>5, <2>2, <2>3
<1>8. CASE ~Packing(header)
  <2>1. AtPiece(1)
    BY <1>4, <1>8
  <2>2. (Deep(header) /\ Read16) \/ (~Deep(header) /\ ReadRaw)
    BY <1>8 DEF LoadLine, Packing, Deep, Regular, Compressions
  <2>3. Ended
    BY <1>2, <1>8, <2>1, <2>2, Line16, LineRaw
  <2> QED
    BY <1>1, <2>3, EndedInv
<1> QED
  BY <1>6, <1>7, <1>8 DEF Packing

(* The headers.                                                            *)
LEMMA InitBmpInv ==
  ASSUME FileCoded(header, data), data \in Seq(0 .. 255), Regular(header),
         RegularInv, InitBmp
  PROVE  RegularInv'
<1>1. /\ pos = 0 /\ shown = <<>> /\ bits = [i \in Slots |-> header.blank]
      /\ UNCHANGED <<data, header, pos, bits, shown>>
  BY DEF RegularInv, InitBmp
<1>2. HeaderCoded(header) /\ Row(header, header.blank)
      /\ header.lines[header.biHeight - 1].at[1] = header.bfOffBits
  BY DEF FileCoded
<1>3. header.biHeight \in Nat \ {0}
  BY <1>2 DEF HeaderCoded
<1>4. ~(header.bfType # 19778 \/ (header.biSize < 40 /\ header.biSize # 12))
  BY <1>2 DEF HeaderCoded, Regular
<1>5. /\ bmp' = "load" /\ line' = header.biHeight - 1
      /\ here' = AfterInfo + Colors * ColorSize
                   + (IF header.biCompression = "BI_BITFIELDS" THEN 12 ELSE 0)
  BY <1>4 DEF InitBmp
<1>6. here' = header.bfOffBits
  <2> PICK size \in Nat, off \in Nat, depth \in Nat :
        size = header.biSize /\ off = header.bfOffBits /\ depth = header.biBitCount
    BY <1>2 DEF HeaderCoded
  <2> PICK masks \in {0, 12} : masks = IF header.biCompression = "BI_BITFIELDS" THEN 12 ELSE 0
    OBVIOUS
  <2> PICK c : c = Colors
    OBVIOUS
  <2>1. size = 12 \/ size >= 40
    BY DEF Regular
  <2>2. /\ depth > 8 => off - 14 - size - masks = 0
        /\ ~(depth > 8) => /\ masks = 0 /\ off - 14 - size - masks >= 0
                           /\ (off - 14 - size - masks) % (IF size >= 40 THEN 4 ELSE 3) = 0
    BY <1>2 DEF HeaderCoded
  <2>3. AfterInfo = 14 + size
    BY <2>1 DEF AfterInfo
  <2>4. /\ c = IF depth > 8 THEN 0
               ELSE IF size >= 40 THEN (off - size - 14) \div 4 ELSE (off - 26) \div 3
        /\ ColorSize = IF size >= 40 THEN 4 ELSE 3
    BY DEF Colors, ColorSize
  <2>5. here' = (14 + size) + c * ColorSize + masks
    BY <1>5, <2>3
  <2>6. CASE depth > 8
    <3>1. c = 0 /\ off = 14 + size + masks
      BY ONLY <2>2, <2>4, <2>6
    <3> QED
      BY <2>4, <2>5, <3>1
  <2>7. CASE ~(depth > 8) /\ size >= 40
    <3>1. masks = 0 /\ (off - 14 - size) % 4 = 0 /\ c = (off - size - 14) \div 4
      BY ONLY <2>2, <2>4, <2>7
    <3>2. c \in Int /\ c * 4 = off - 14 - size
      BY ONLY <3>1
    <3>3. ColorSize = 4
      BY ONLY <2>4, <2>7
    <3>4. off = (14 + size) + c * 4 + masks
      BY ONLY <3>1, <3>2
    <3> QED
      BY <2>5, <3>3, <3>4
  <2>8. CASE ~(depth > 8) /\ size = 12
    <3>1. masks = 0 /\ (off - 26) % 3 = 0 /\ c = (off - 26) \div 3
      BY ONLY <2>2, <2>4, <2>8
    <3>2. c \in Int /\ c * 3 = off - 26
      BY ONLY <3>1
    <3>3. ColorSize = 3
      BY ONLY <2>4, <2>8
    <3> QED
      BY <2>5, <2>8, <3>1, <3>2, <3>3
  <2> QED
    BY <2>1, <2>6, <2>7, <2>8
<1>7. header.biHeight - 1 \in Given(header)
  BY <1>3 DEF Given
<1>8. LineCoded(header, data, header.lines[header.biHeight - 1])
  BY <1>7, FileLine
<1>9. Line' = header.lines[header.biHeight - 1] /\ Before' = header.blank /\ Slots' = Slots
  BY <1>1, <1>5 DEF Line, Before, Slots
<1>10. Pixels' = header.blank
  <2>1. LineOf(line)' \in Slots
    BY <1>1, <1>3, <1>5 DEF LineOf, Slots
  <2> QED
    BY <1>1, <2>1 DEF Pixels
<1>11. AtPiece(1)'
  <2>1. Line'.from[1] = 0 /\ Partial(header, Line', 1, header.blank) = header.blank
    BY <1>2, <1>8, <1>9, PartialStart DEF LineCoded
  <2> QED
    BY <1>1, <1>2, <1>6, <1>9, <1>10, <2>1 DEF AtPiece
<1>12. Reading'
  <2>1. 1 \in 1 .. EndOf(Line')
    BY <1>8, <1>9, Places
  <2> QED
    BY <1>1, <1>5, <1>7, <1>11, <2>1 DEF Reading
<1>13. ShownExact'
  <2>1. shown' = <<>> /\ Len(shown') = 0
    BY <1>1
  <2> QED
    BY <1>1, <1>3, <1>5, <2>1 DEF ShownExact
<1>14. BitsExact'
  <2>1. DOMAIN bits' = Slots' /\ \A i \in Slots' : bits'[i] = header.blank
    BY <1>1, <1>9
  <2>2. \A i \in Slots : ~header.one => ~(i > header.biHeight - 1)
    BY <1>3 DEF Slots
  <2> QED
    BY <1>1, <1>5, <1>9, <2>1, <2>2 DEF BitsExact
<1> QED
  BY <1>5, <1>12, <1>13, <1>14 DEF RegularInv

LEMMA BmpInit == Init => BmpInv
<1> SUFFICES ASSUME Init PROVE BmpInv
  OBVIOUS
<1>1. bmp = "check" /\ pos = 0 /\ shown = <<>>
  BY DEF Init
<1>2. CASE \E b \in Bitmaps :
             /\ header = b.header /\ data = b.data /\ whole = FALSE
             /\ bits = [i \in 0 .. IF b.header.one THEN 0 ELSE b.header.biHeight - 1 |-> b.header.blank]
  <2>1. FileCoded(header, data) /\ bits = [i \in Slots |-> header.blank]
    BY <1>2, FilesAssumption DEF Slots
  <2> QED
    BY <1>1, <2>1 DEF BmpInv, RegularInv
<1>3. CASE header = [bfType |-> 0]
  BY <1>1, <1>3 DEF BmpInv
<1> QED
  BY <1>2, <1>3 DEF Init

LEMMA BmpStep == WebpInv /\ BmpInv /\ [Next]_vars => BmpInv'
<1> SUFFICES ASSUME WebpInv, BmpInv, [Next]_vars PROVE BmpInv'
  OBVIOUS
<1>1. CASE Check
  <2>1. /\ bmp = "check" /\ bmp' = IF CheckBmp THEN "init" ELSE "none"
        /\ UNCHANGED <<data, header, pos, bits, shown>>
    BY <1>1 DEF Check
  <2>2. header.bfType = 0 => bmp' = "none"
    BY <2>1 DEF CheckBmp
  <2>3. RegularInv /\ bmp' = "init" => RegularInv'
    BY <2>1 DEF RegularInv, Slots
  <2> QED
    BY <2>1, <2>2, <2>3 DEF BmpInv
<1>2. CASE BmpNext
  <2>1. bmp \in {"init", "load"} /\ UNCHANGED <<data, header>> /\ data \in Seq(0 .. 255)
    BY <1>2 DEF BmpNext, InitBmp, LoadLine, WebpInv
  <2>2. FileCoded(header, data) /\ (Regular(header) => RegularInv)
    BY <2>1 DEF BmpInv
  <2>3. Regular(header) => RegularInv'
    BY <1>2, <2>1, <2>2, RoundInv, InitBmpInv DEF BmpNext, LoadLine
  <2>4. bmp' \in {"init", "load", "ok", "error", "overrun"}
    <3>1. CASE InitBmp
      BY <3>1 DEF InitBmp
    <3>2. CASE LoadLine
      <4>1. \A flag, at, pixels : Return(flag, at, pixels) => bmp' \in {"load", "ok", "error"}
        BY Zenon DEF Return
      <4>2. \A at, to, pixels : GoOn(at, to, pixels) => bmp' \in {"load", "error"}
        BY DEF GoOn
      <4>3. \A code : Escape(code) => bmp' \in {"load", "ok", "error"}
        BY <4>1, <4>2 DEF Escape
      <4> QED
        BY <3>2, <4>1, <4>2, <4>3
           DEF LoadLine, RLE8, RLE4, Read16, ReadRaw, Overrun, UnknownCompression
    <3> QED
      BY <1>2, <3>1, <3>2 DEF BmpNext
  <2> QED
    BY <2>1, <2>2, <2>3, <2>4 DEF BmpInv
<1>3. CASE WebpNext /\ UNCHANGED bvars
  <2>1. webp \in {"init", "append", "report"} /\ data' = data
    BY <1>3 DEF WebpNext, InitWebp, Feed, Report
  <2>2. bmp = "none"
    BY <2>1 DEF WebpInv
  <2> QED
    BY <1>3, <2>1, <2>2 DEF BmpInv, bvars
<1>4. CASE UNCHANGED vars
  <2>1. UNCHANGED <<data, here, header, bmp, line, pos, bits, shown>>
    BY <1>4 DEF vars, stream, bvars
  <2>2. RegularInv => RegularInv'
    BY <2>1 DEF RegularInv, ShownExact, ShownBefore, BitsExact, Slots, Reading, AtPiece, Line,
                Pixels, LineOf, Before
  <2> QED
    BY <2>1, <2>2 DEF BmpInv
<1> QED
  BY <1>1, <1>2, <1>3, <1>4 DEF Next

(* A complete file of a known kind, compressed or not, is read to its last *)
(* byte and each of its lines, or of those before the end it marks, is     *)
(* given as the file says it, in the buffer of all lines or in that of one *)
(* (__mg_init_bmp, __mg_load_bmp), for pictures of any size.               *)
THEOREM BitmapsLoadedExactly == Spec => []LoadedExact
<1>1. BmpInv => LoadedExact
  <2> SUFFICES ASSUME BmpInv, bmp \in {"ok", "error", "overrun"}, Regular(header)
               PROVE  /\ bmp = "ok" /\ here = Len(data)
                      /\ header.one =>
                           /\ Len(shown) = header.biHeight - 1 - line
                           /\ \A k \in DOMAIN shown :
                                shown[k] = <<header.biHeight - k,
                                             Says(header.lines[header.biHeight - k], ShownBefore(k))>>
                      /\ ~header.one =>
                           \A i \in DOMAIN bits :
                             bits[i] = IF i \in Loaded THEN Says(header.lines[i], header.blank)
                                       ELSE header.blank
    BY Zenon DEF LoadedExact, ShownBefore
  <2>1. FileCoded(header, data) /\ RegularInv /\ bmp = "ok"
    BY DEF BmpInv, RegularInv
  <2>2. /\ here = Len(data) /\ line \in -1 .. header.biHeight - 2
        /\ ShownExact /\ BitsExact /\ header.biHeight \in Nat \ {0}
    BY <2>1 DEF RegularInv, FileCoded, HeaderCoded
  <2>3. DOMAIN shown = 1 .. Len(shown)
    BY <2>2 DEF ShownExact
  <2>4. ASSUME ~header.one, NEW i \in DOMAIN bits
        PROVE  bits[i] = IF i \in Loaded THEN Says(header.lines[i], header.blank) ELSE header.blank
    <3>1. i \in Slots /\ i \in Int /\ line \in Int /\ (i \in Loaded <=> i > line)
      BY <2>2, <2>4 DEF BitsExact, Slots, Loaded
    <3>2. i < line \/ i = line \/ i > line
      BY <3>1
    <3> QED
      BY <2>1, <2>2, <2>4, <3>1, <3>2 DEF BitsExact, RegularInv
  <2> QED
    BY <2>1, <2>2, <2>3, <2>4 DEF ShownExact
<1> QED
  BY <1>1, WebpInit, WebpStep, BmpInit, BmpStep, PTL DEF Spec
=============================================================================
