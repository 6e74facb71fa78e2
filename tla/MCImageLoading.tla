---------------------------- MODULE MCImageLoading ----------------------------
(* Bitmaps of two lines in every format, and in an unknown one; their      *)
(* lines are made of up to three pieces, of which some run past the line.  *)
(* WebP files of three rows, whole and truncated.                          *)
EXTENDS ImageLoading, SequencesExt

Run(n, pixels) == [piece |-> "run", n |-> n, pixels |-> pixels]
List(pixels) == [piece |-> "list", pixels |-> pixels]
Skip(n) == [piece |-> "skip", n |-> n]

Long == [i \in 1 .. 9 |-> i]         \* past the pitch of a line of five pixels
Pieces8 == {Run(9, <<4>>), List(Long), Run(1, <<7>>), Run(3, <<5>>), List(<<1, 2, 3>>),
            List(<<1, 2, 3, 4>>), Skip(2)}
Pieces4 == {List(Long), Run(4, <<8>>), Run(1, <<7>>), Run(3, <<5>>), Run(2, <<6, 9>>), List(<<1, 2, 3>>),
            List(<<1, 2, 3, 4, 5>>), Skip(1), Skip(2)}
SumOf(s, first) == [k \in 1 .. Len(s) + 1 |-> FoldLeft(LAMBDA a, b : a + b, first, SubSeq(s, 1, k - 1))]
Sizes(l) == [k \in DOMAIN l |-> Size(l[k])]
LinesOf(pieces, most) ==
  {l \in UNION {[1 .. n -> pieces] : n \in 0 .. most} :
     Len(l) = 1 \/ SumOf(Sizes(l), 0)[Len(l) + 1] <= 6}

(* The bytes of a piece: a byte, or half of one, for a pixel.              *)
Pairs(s) ==
  [i \in 1 .. (Len(s) + 1) \div 2 |->
     16 * s[2 * i - 1] + (IF 2 * i <= Len(s) THEN s[2 * i] ELSE 0)]
Padded(s) == IF Len(s) % 2 = 0 THEN s ELSE Append(s, 0)
BytesOf(p, four) ==
  CASE p.piece = "run"  -> <<p.n>> \o (IF ~four THEN p.pixels
                                       ELSE Pairs(IF Len(p.pixels) = 1 THEN p.pixels \o p.pixels ELSE p.pixels))
    [] p.piece = "skip" -> <<0, 2, p.n, 0>>
    [] OTHER -> <<0, Len(p.pixels)>> \o Padded(IF four THEN Pairs(p.pixels) ELSE p.pixels)
Codes(l, four) == [k \in DOMAIN l |-> BytesOf(l[k], four)]
Lengths(s) == [k \in DOMAIN s |-> Len(s[k])]
LineAt(l, codes, place, end) ==
  [pieces |-> l, from |-> SumOf(Sizes(l), 0), at |-> SumOf(Lengths(codes), place), end |-> end]

Filler(n) == [i \in 1 .. n |-> 0]
Header(size, colors, count, compression, width) ==
  [bfType |-> 19778, biSize |-> size, biBitCount |-> count, biCompression |-> compression,
   bfOffBits |-> 14 + size + colors * (IF size < 40 THEN 3 ELSE 4)
                 + (IF compression = "BI_BITFIELDS" THEN 12 ELSE 0),
   biWidth |-> width, biHeight |-> 2, gmask |-> 992, one |-> FALSE]

(* A compressed file; the picture may end after the first line.            *)
Compressed(compression, width, one, low, high, end) ==
  LET four == compression = "BI_RLE4"
      codes(l) == Codes(l, four)
      first == FlattenSeq(codes(high)) \o <<0, IF end = "early" THEN 1 ELSE 0>>
      second == FlattenSeq(codes(low)) \o <<0, IF end = "end" THEN 1 ELSE 0>> IN
  [header |-> [Header(40, 2, IF four THEN 4 ELSE 8, compression, width) EXCEPT !.one = one]
                @@ [lines |-> [i \in 0 .. 1 |->
                      IF i = 0 THEN LineAt(low, codes(low), 62 + Len(first), end = "end")
                      ELSE LineAt(high, codes(high), 62, end = "early")],
                    blank |-> [x \in 0 .. width - 1 |-> 0]],
   data |-> Filler(62) \o first \o (IF end = "early" THEN <<>> ELSE second)]

(* Words of five or six bits a channel, and rows of plain bytes.           *)
WordBytes(p, gmask) ==
  LET w == IF gmask = 992 THEN p[1] \div 8 + 4 * p[2] + 128 * p[3]
           ELSE p[1] \div 8 + 8 * p[2] + 256 * p[3]
  IN  <<w % 256, w \div 256>>
Plain(size, colors, count, compression, gmask, width, one, low, high) ==
  LET cells == IF count = 16 THEN width ELSE Len(low)
      RowBytes(s) == IF count # 16 THEN s
                ELSE FlattenSeq([x \in DOMAIN s |-> WordBytes(s[x], gmask)]) \o Filler(2 * (width % 2))
      header_ == Header(size, colors, count, compression, width)
      Of(l, place) == LineAt(<<List(l)>>, <<RowBytes(l)>>, place, FALSE) IN
  [header |-> [header_ EXCEPT !.one = one, !.gmask = gmask]
                @@ [lines |-> [i \in 0 .. 1 |->
                      IF i = 0 THEN Of(low, header_.bfOffBits + Len(RowBytes(high)))
                      ELSE Of(high, header_.bfOffBits)],
                    blank |-> [x \in 0 .. cells - 1 |-> IF count = 16 THEN <<0, 0, 0>> ELSE 0]],
   data |-> Filler(header_.bfOffBits) \o RowBytes(high) \o RowBytes(low)]

PlainRows == {<<1, 2, 3, 4>>, <<9, 8, 7, 6>>}
ColorRows(green) == {<< <<8, green, 240>>, <<248, 128, 0>>, <<0, 248, 8>> >>,
                     << <<16, 0, 8>>, <<0, green, 0>>, <<8, 8, 8>> >>}

MCBitmaps ==
  {Compressed("BI_RLE8", 5, one, low, high, end) :
     one \in BOOLEAN, low \in LinesOf(Pieces8, 1), high \in LinesOf(Pieces8, 3), end \in {"line", "end", "early"}}
  \cup {Compressed("BI_RLE4", 5, one, low, high, end) :
     one \in BOOLEAN, low \in LinesOf(Pieces4, 1), high \in LinesOf(Pieces4, 3), end \in {"line", "early"}}
  \cup {Plain(size, 2, 8, "BI_RGB", 992, 3, one, low, high) :
     size \in {12, 20, 40, 44}, one \in BOOLEAN, low \in PlainRows, high \in PlainRows}
  \cup {Plain(40, 0, 16, "BI_RGB", 992, 3, one, low, high) :
     one \in BOOLEAN, low \in ColorRows(88), high \in ColorRows(88)}
  \cup {Plain(40, 2, 8, "BI_JPEG", 992, 3, one, low, high) :
     one \in BOOLEAN, low \in PlainRows, high \in PlainRows}
  \cup {Plain(40, 0, 16, "BI_BITFIELDS", 2016, 3, one, low, high) :
     one \in BOOLEAN, low \in ColorRows(84), high \in ColorRows(84)}

MCWebpFiles == {[data |-> Filler(n), whole |-> w] : n \in {5, 13, 21, 40}, w \in BOOLEAN}
=============================================================================
