----------------------------- MODULE BitmapLoader -----------------------------
(***************************************************************************)
(* The loader of Windows and OS/2 bitmaps: the headers and the palette     *)
(* (__mg_init_bmp), then the scan lines from the last one up               *)
(* (__mg_load_bmp), compressed or not.  The fields of the headers are a    *)
(* record; of their bytes only the number counts.  A round of a decoder's  *)
(* loop is a step.                                                         *)
(***************************************************************************)
EXTENDS MemoryStream, BitmapFile

VARIABLES
  header,   \* the fields of the file: biSize, bfOffBits, biBitCount...
  bmp,      \* "init", "load", "ok", "error": how far the loader is, or None;
            \*   "overrun" when it wrote past the pixels
  line,     \* i, the scan line that is read
  pos,      \* in it, the position of the next pixel
  bits,     \* the pixels of the scan lines; of one line only, at 0, when
            \*   MYBMP_LOAD_ALLOCATE_ONE is set
  shown     \* the lines given to the callback, with their pixels

bvars == <<header, bmp, line, pos, bits, shown>>

(* Where the pixels of line i go.                                          *)
LineOf(i) == IF header.one THEN 0 ELSE i
Pixels == bits[LineOf(line)]

-----------------------------------------------------------------------------
(* __mg_init_bmp, to the first byte after the palette.                     *)
Colors ==
  IF header.biBitCount > 8 THEN 0
  ELSE IF header.biSize >= 40 THEN (header.bfOffBits - header.biSize - 14) \div 4
  ELSE (header.bfOffBits - 26) \div 3
ColorSize == IF header.biSize >= 40 THEN 4 ELSE 3
AfterInfo ==                                \* read_win_ or read_os2_bminfoheader
  IF header.biSize >= 40 THEN 14 + 40 + (header.biSize - 40) ELSE 14 + 12

InitBmp ==
  /\ bmp = "init"
  /\ IF header.bfType # 19778 \/ (header.biSize < 40 /\ header.biSize # 12)
       THEN bmp' = "error" /\ UNCHANGED <<here, line>>
       ELSE /\ bmp' = "load"
            /\ here' = AfterInfo + Colors * ColorSize
                         + (IF header.biCompression = "BI_BITFIELDS" THEN 12 ELSE 0)
            /\ line' = header.biHeight - 1
  /\ UNCHANGED <<data, header, pos, bits, shown>>

-----------------------------------------------------------------------------
(* The picture is this now, with the bytes read up to at.                  *)
Put(at, picture) ==
  /\ here' = at
  /\ bits' = picture

(* The decoder's loop goes round, unless it is past the line.              *)
GoOn(at, to, picture) ==
  /\ Put(at, picture)
  /\ pos' = to
  /\ bmp' = IF to <= header.biWidth THEN "load" ELSE "error"
  /\ UNCHANGED <<line, shown>>

(* The decoder returns, and __mg_load_bmp takes the next line.             *)
Return(flag, at, picture) ==
  /\ Put(at, picture)
  /\ pos' = 0
  /\ bmp' = CASE flag = "BMP_ERR" -> "error"
              [] flag = "BMP_END" \/ (flag = "BMP_LINE" /\ line = 0) -> "ok"
              [] OTHER -> "load"
  /\ line' = IF flag = "BMP_ERR" THEN line ELSE line - 1
  /\ shown' = IF flag # "BMP_ERR" /\ header.one THEN Append(shown, <<line, picture[0]>>) ELSE shown

(* The pixels of a line lie bmp->pitch bytes after those of the line       *)
(* before.  The decoders do not look where a line ends: what they write    *)
(* past it lands in the next line, which was read before, and past the     *)
(* last one outside the buffer, where anything may be.                     *)
Pitch == ((header.biWidth * header.biBitCount + 31) \div 32) * 4
Stride == IF header.biCompression = "BI_RLE4" THEN 2 * Pitch ELSE Pitch
Offset(i, x) == (i - LineOf(line)) * Stride + x - pos
Fits(n) == n > 0 => pos + n <= Stride * (IF header.one THEN 1 ELSE header.biHeight - line)

Overrun ==
  /\ bmp' = "overrun"
  /\ UNCHANGED <<here, line, pos, bits, shown>>

(* The codes of both decoders that give no pixels.                         *)
Escape(code) ==
  \/ code = 0 /\ Return("BMP_LINE", here + 2, bits)
  \/ code = 1 /\ Return("BMP_END", here + 2, bits)
  \/ code = 2 /\ GoOn(here + 4, pos + Byte(here + 2), bits)

Unaligned(n) == n              \* mutant: no alignment to a word boundary
Aligned(n) == n + (n % 2)

(* val[j] at position pos + j, for j below n.                              *)
Fill(n, val) ==
  [i \in DOMAIN bits |-> [x \in DOMAIN bits[i] |->
     IF Offset(i, x) \in 0 .. n - 1 THEN val[Offset(i, x)] ELSE bits[i][x]]]

RLE8 ==
  LET count == Byte(here)
      code == Byte(here + 1) IN
  \/ /\ count > 0 /\ Fits(count)
     /\ GoOn(here + 2, pos + count, Fill(count, [j \in 0 .. count - 1 |-> code]))
  \/ count = 0 /\ Escape(code)
  \/ /\ count = 0 /\ code > 2 /\ Fits(code)
     /\ GoOn(here + 2 + Aligned(code), pos + code,
             Fill(code, [j \in 0 .. code - 1 |-> Byte(here + 2 + j)]))
  \/ /\ ~Fits(IF count > 0 THEN count ELSE IF code > 2 THEN code ELSE 0)
     /\ Overrun

(* Two pixels of four bits are in one byte: the left one, at an even       *)
(* position, overwrites both; the right one is added to what is there,     *)
(* which is nothing when the left one was written just before.             *)
Nibble(byte, i) == IF i % 2 = 0 THEN byte \div 16 ELSE byte % 16
Bit(v, b) == (v \div b) % 2
Or(v, w) ==
  LET bit(b) == IF Bit(v, b) = 1 \/ Bit(w, b) = 1 THEN b ELSE 0
  IN  bit(8) + bit(4) + bit(2) + bit(1)
Pack(n, val) ==
  [i \in DOMAIN bits |-> [x \in DOMAIN bits[i] |->
     LET j == Offset(i, x) IN
     IF j \in 0 .. n - 1 THEN IF j = 0 /\ x % 2 = 1 THEN Or(bits[i][x], val[0]) ELSE val[j]
     ELSE IF n > 0 /\ j = n /\ x % 2 = 1 THEN 0
     ELSE bits[i][x]]]

(* A run is given up only after its first pixel past the line.             *)
RLE4 ==
  LET count == Byte(here)
      code == Byte(here + 1)
      run == IF pos + count <= header.biWidth THEN count ELSE header.biWidth - pos + 1
      Run(n) == Pack(n, [j \in 0 .. n - 1 |-> Nibble(code, pos + j)]) IN
  \/ /\ count > 0 /\ Fits(run) /\ pos + count <= header.biWidth
     /\ GoOn(here + 2, pos + count, Run(count))
  \/ /\ count > 0 /\ Fits(run) /\ pos + count > header.biWidth
     /\ Return("BMP_ERR", here + 2, Run(run))
  \/ count = 0 /\ Escape(code)
  \/ /\ count = 0 /\ code > 2 /\ Fits(code)
     /\ GoOn(here + 2 + 2 * ((code + 3) \div 4), pos + code,
             Pack(code, [j \in 0 .. code - 1 |-> Nibble(Byte(here + 2 + j \div 2), j)]))
  \/ /\ ~Fits(IF count > 0 THEN run ELSE IF code > 2 THEN code ELSE 0)
     /\ Overrun

(* read_16bit_image: blue, green and red of each word, and then the gap.   *)
Word(at) == Byte(at) + 256 * Byte(at + 1)
Channels(w) ==
  IF header.gmask = 992                                       \* 5-5-5
    THEN <<(w % 32) * 8, ((w \div 32) % 32) * 8, ((w \div 1024) % 32) * 8>>
    ELSE <<(w % 32) * 8, ((w \div 32) % 64) * 4, ((w \div 2048) % 32) * 8>>
With(pixels) == [bits EXCEPT ![LineOf(line)] = pixels]
Read16 ==
  Return("BMP_LINE", here + 2 * header.biWidth + 2 * (header.biWidth % 2),
         With([x \in 0 .. header.biWidth - 1 |-> Channels(Word(here + 2 * x))]))

ReadRaw ==
  LET n == Items(1, Pitch) IN
  Return("BMP_LINE", here + n,
         With([x \in DOMAIN Pixels |-> IF x < n THEN Byte(here + x) ELSE Pixels[x]]))

(* __mg_load_bmp gives up what it does not know.                           *)
UnknownCompression ==
  /\ bmp' = "error"
  /\ UNCHANGED <<here, line, pos, bits, shown>>

(* One round of the loop of __mg_load_bmp, or of the decoder in it.        *)
LoadLine ==
  /\ bmp = "load"
  /\ \/ header.biCompression = "BI_RLE8" /\ RLE8
     \/ header.biCompression = "BI_RLE4" /\ RLE4
     \/ header.biCompression \in {"BI_RGB", "BI_BITFIELDS"} /\ header.biBitCount = 16 /\ Read16
     \/ header.biCompression \in {"BI_RGB", "BI_BITFIELDS"} /\ header.biBitCount # 16 /\ ReadRaw
     \/ header.biCompression \notin Compressions /\ UnknownCompression
  /\ UNCHANGED <<data, header>>

BmpNext == InitBmp \/ LoadLine

-----------------------------------------------------------------------------
(* A regular file is loaded to its last byte, each line as the file says   *)
(* it, in the buffer of all lines or in that of one line whose pixels the  *)
(* next one skips or overwrites (__mg_load_bmp).                           *)
Loaded == (line + 1) .. (header.biHeight - 1)
LoadedExact ==
  bmp \in {"ok", "error", "overrun"} /\ Regular(header) =>
    /\ bmp = "ok"
    /\ here = Len(data)
    /\ IF header.one
         THEN LET before(k) == IF k = 1 THEN header.blank ELSE shown[k - 1][2] IN
              /\ Len(shown) = header.biHeight - 1 - line
              /\ \A k \in DOMAIN shown :
                   shown[k] = <<header.biHeight - k, Says(header.lines[header.biHeight - k], before(k))>>
         ELSE \A i \in DOMAIN bits :
                bits[i] = IF i \in Loaded THEN Says(header.lines[i], header.blank) ELSE header.blank
=============================================================================
