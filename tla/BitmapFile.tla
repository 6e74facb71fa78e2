------------------------------ MODULE BitmapFile ------------------------------
(***************************************************************************)
(* What a file of a bitmap says.  A header h has, besides its fields, the  *)
(* picture it stands for: h.blank, the pixels of a line before it is read, *)
(* and the lines h.lines[i] as [pieces, from, at, end], where piece k says *)
(* the pixels from position from[k] on and is coded by the bytes d from    *)
(* place at[k] on, and `end` tells whether the picture ends after it:      *)
(*   [piece |-> "run", n, pixels]   one pixel, or two in turn, n in all,   *)
(*   [piece |-> "list", pixels]     pixels one by one,                     *)
(*   [piece |-> "skip", n]          pixels left as they are.               *)
(***************************************************************************)
EXTENDS Integers, Sequences

Size(p) == IF p.piece = "list" THEN Len(p.pixels) ELSE p.n
PixelOf(p, j) == p.pixels[(j % Len(p.pixels)) + 1]

(* The pixels of line l when they were `before`.                           *)
Says(l, before) ==
  [x \in DOMAIN before |->
     LET At == {k \in 1 .. Len(l.pieces) :
                  l.pieces[k].piece # "skip" /\ x \in l.from[k] .. l.from[k + 1] - 1}
     IN  IF At = {} THEN before[x]
         ELSE LET k == CHOOSE k \in At : TRUE IN PixelOf(l.pieces[k], x - l.from[k])]

-----------------------------------------------------------------------------
(* The formats: the bytes of a piece, and how many they are.               *)
Compressions == {"BI_RGB", "BI_RLE8", "BI_RLE4", "BI_BITFIELDS"}
Packing(h) == h.biCompression \in {"BI_RLE8", "BI_RLE4"}
Deep(h) == ~Packing(h) /\ h.biBitCount = 16
PitchOf(h) == ((h.biWidth * h.biBitCount + 31) \div 32) * 4

At8(d, p, a) ==
  \/ /\ p.piece = "run" /\ p.n \in 1 .. 255 /\ Len(p.pixels) = 1
     /\ d[a + 1] = p.n /\ d[a + 2] = p.pixels[1]
  \/ /\ p.piece = "skip" /\ p.n \in 0 .. 255
     /\ d[a + 1] = 0 /\ d[a + 2] = 2 /\ d[a + 3] = p.n
  \/ /\ p.piece = "list" /\ Len(p.pixels) \in 3 .. 255
     /\ d[a + 1] = 0 /\ d[a + 2] = Len(p.pixels)
     /\ \A j \in 1 .. Len(p.pixels) : d[a + 2 + j] = p.pixels[j]

Nibbles(s) == \A j \in 1 .. Len(s) : s[j] \in 0 .. 15
At4(d, p, a) ==
  \/ /\ p.piece = "run" /\ p.n \in 1 .. 255
     /\ Len(p.pixels) \in {1, 2} /\ Nibbles(p.pixels)
     /\ d[a + 1] = p.n
     /\ d[a + 2] \div 16 = PixelOf(p, 0) /\ d[a + 2] % 16 = PixelOf(p, 1)
  \/ /\ p.piece = "skip" /\ p.n \in 0 .. 255
     /\ d[a + 1] = 0 /\ d[a + 2] = 2 /\ d[a + 3] = p.n
  \/ /\ p.piece = "list" /\ Len(p.pixels) \in 3 .. 255 /\ Nibbles(p.pixels)
     /\ d[a + 1] = 0 /\ d[a + 2] = Len(p.pixels)
     /\ \A j \in 0 .. Len(p.pixels) - 1 :
          LET byte == d[a + 3 + j \div 2] IN
          p.pixels[j + 1] = IF j % 2 = 0 THEN byte \div 16 ELSE byte % 16

(* Five bits of blue, five or six of green, five of red in a word.         *)
In555(color, w) ==
  \E b \in 0 .. 31, g \in 0 .. 31, r \in 0 .. 31 :
    color = <<b * 8, g * 8, r * 8>> /\ w = b + 32 * g + 1024 * r
In565(color, w) ==
  \E b \in 0 .. 31, g \in 0 .. 63, r \in 0 .. 31 :
    color = <<b * 8, g * 4, r * 8>> /\ w = b + 32 * g + 2048 * r
At16(h, d, p, a) ==
  /\ p.piece = "list" /\ Len(p.pixels) = h.biWidth
  /\ \A j \in 1 .. Len(p.pixels) :
       LET w == d[a + 2 * j - 1] + 256 * d[a + 2 * j] IN
       IF h.gmask = 992 THEN In555(p.pixels[j], w) ELSE In565(p.pixels[j], w)

AtRaw(h, d, p, a) ==
  /\ p.piece = "list"
  /\ Len(p.pixels) = PitchOf(h)
  /\ \A j \in 1 .. Len(p.pixels) : d[a + j] = p.pixels[j]

Coded(h, d, p, a) ==
  \/ h.biCompression = "BI_RLE8" /\ At8(d, p, a)
  \/ h.biCompression = "BI_RLE4" /\ At4(d, p, a)
  \/ Deep(h) /\ At16(h, d, p, a)
  \/ ~Packing(h) /\ ~Deep(h) /\ AtRaw(h, d, p, a)

BytesOfList(h, n) ==
  IF h.biCompression = "BI_RLE8" THEN 2 + n + (n % 2)
  ELSE IF h.biCompression = "BI_RLE4" THEN 2 + 2 * ((n + 3) \div 4)
  ELSE IF Deep(h) THEN 2 * n + 2 * (n % 2)
  ELSE n
Bytes(h, p) ==
  IF p.piece = "run" THEN 2 ELSE IF p.piece = "skip" THEN 4 ELSE BytesOfList(h, Len(p.pixels))

-----------------------------------------------------------------------------
(* A line, and the place of the line after it, or of the end of the file.  *)
EndOf(l) == Len(l.pieces) + 1
Mark(l) == IF l.end THEN 1 ELSE 0
After(h, l) == l.at[EndOf(l)] + (IF Packing(h) THEN 2 ELSE 0)

LineCoded(h, d, l) ==
  /\ Len(l.pieces) \in Nat
  /\ l.end \in BOOLEAN
  /\ l.from \in [1 .. EndOf(l) -> Nat]
  /\ l.at \in [1 .. EndOf(l) -> Nat]
  /\ l.from[1] = 0
  /\ \A k \in 1 .. Len(l.pieces) :
       /\ Coded(h, d, l.pieces[k], l.at[k])
       /\ l.from[k + 1] = l.from[k] + Size(l.pieces[k])
       /\ l.at[k + 1] = l.at[k] + Bytes(h, l.pieces[k])
  /\ IF Packing(h) THEN d[l.at[EndOf(l)] + 1] = 0 /\ d[l.at[EndOf(l)] + 2] = Mark(l)
     ELSE Len(l.pieces) = 1 /\ ~l.end
  /\ After(h, l) <= Len(d)

(* The lines before the end of the picture.                                *)
Given(h) == {i \in 0 .. h.biHeight - 1 : \A j \in i + 1 .. h.biHeight - 1 : ~h.lines[j].end}

(* A complete file: headers, a palette when a pixel has at most eight      *)
(* bits, masks when the compression says so, and the lines from the last   *)
(* one up.                                                                 *)
HeaderCoded(h) ==
  /\ h.bfType = 19778
  /\ {h.biSize, h.bfOffBits, h.biBitCount, h.biWidth} \subseteq Nat
  /\ h.biHeight \in Nat \ {0}
  /\ h.one \in BOOLEAN
  /\ LET masks == IF h.biCompression = "BI_BITFIELDS" THEN 12 ELSE 0
         color == IF h.biSize >= 40 THEN 4 ELSE 3
         palette == h.bfOffBits - 14 - h.biSize - masks IN
     IF h.biBitCount > 8 THEN palette = 0
     ELSE masks = 0 /\ palette >= 0 /\ palette % color = 0

Cells(h) == IF Packing(h) \/ Deep(h) THEN h.biWidth ELSE PitchOf(h)
Row(h, pixels) == pixels = [x \in 0 .. Cells(h) - 1 |-> pixels[x]]

FileCoded(h, d) ==
  /\ HeaderCoded(h)
  /\ Row(h, h.blank)
  /\ h.lines[h.biHeight - 1].at[1] = h.bfOffBits
  /\ \A i \in Given(h) :
       LET l == h.lines[i] IN
       /\ LineCoded(h, d, l)
       /\ IF i = 0 \/ l.end THEN Len(d) = After(h, l)
          ELSE h.lines[i - 1].at[1] = After(h, l)

-----------------------------------------------------------------------------
(* A file of a known kind whose lines are no longer than the picture.  In  *)
(* four bits a pixel at an odd position shares its byte with the one       *)
(* before it: two pixels in turn from there on come out the wrong way      *)
(* round, and a pixel left out is cleared or mixed with what was there.    *)
EvenLine(h, l) ==
  /\ l.from[EndOf(l)] % 2 = 0 \/ l.from[EndOf(l)] = h.biWidth
  /\ \A k \in 1 .. Len(l.pieces) :
       LET p == l.pieces[k] IN
       /\ p.piece = "run" /\ p.pixels[1] # PixelOf(p, 1) => l.from[k] % 2 = 0
       /\ p.piece = "skip" => l.from[k] % 2 = 0 /\ l.from[k + 1] % 2 = 0

Regular(h) ==
  /\ h.biSize = 12 \/ h.biSize >= 40
  /\ h.biCompression \in Compressions
  /\ h.biCompression = "BI_RLE8" => h.biBitCount = 8
  /\ h.biCompression = "BI_RLE4" => h.biBitCount = 4
  /\ \A i \in Given(h) :
       LET l == h.lines[i] IN
       /\ Packing(h) => l.from[EndOf(l)] <= h.biWidth
       /\ h.biCompression = "BI_RLE4" => EvenLine(h, l)
=============================================================================
