# TLA+ models of the code in bpcp

The repository accompanies a course on C programming. Beside slides, vendored
code and headers it holds a few bodies of code with behaviour of their own: the
variant module of the PurC interpreter, parts of the MiniGUI window server, the
skeleton of a library called foobar, and small samples. This directory holds
TLA+ models of that code, the TLC configurations that check them on small
instances, and proofs, checked by TLAPS, that hold for every instance.

Paths below are relative to `src/`. `variant.c` is
`book-list/purc/src/variant/variant.c`, `compsor-manager.c` is in
`book-list/minigui/`.

## 1. Inventory

| component | code | state | operations | status |
|---|---|---|---|---|
| variant heap | `variant.c` 137-537, `private/variant.h` | the heap of an instance: four constants, wrappers, the reserve, statistics | init/cleanup of an instance, get, put, ref, unref, extra size, usage statistics | modelled, proved |
| casts | `variant.c` 811-1485 | none | casts to int32, uint32, longint, ulongint, number, long double, byte sequence | integer casts modelled, proved |
| comparison | `variant.c` 539-785, 2833-3504 | none | equality, structural comparison, difference for sets | modelled, proved |
| comparison by method, MD5 | `variant.c` 1487-1617, 3564-3706 | none | compare by number, string, caseless, automatically; MD5 and difference by unique keys | modelled, proved |
| numerify, booleanize, stringify | `variant.c` 1863-2606 | a growing buffer | conversions of every type | partly: what they give, not how it is spelled |
| dynamic object loader | `variant.c` 1669-1861 | library handles | load, unload | modelled, proved |
| containers, constructors, JSON | `variant.c` 1620-1667, 2611-2831, 3507-3562 | none | wrappers of code that is not in the repository | not modelled |
| compositor registry | `compsor-manager.c` 73-130, 396-622 | table of compositors, the selected one, its context, data on znodes, library handle | register, unregister, look up, select, start, end | modelled, proved |
| compositing pass | `compsor-manager.c` 132-391 | locks and noted ages of znodes | lock, merge, refresh, unlock, reset, message to clients | modelled, proved |
| sample server | `mginit.c` (= `customized-compositor.c`) | child processes, number of clients, layers | event hook, client hook, child handler, layer transition | modelled, proved |
| stream layer | `rwops.c` | position in a memory area | read, write, seek, eof | partly: reading and seeking in memory |
| bitmap loader | `winbmp.c` | header, output row, position in it | headers, RLE4, RLE8, 16 bits, scan lines | partly: loading, proved; not saving |
| WebP loader | `webp.c` | decoder, last row | incremental loop | modelled, proved |
| foobar skeleton | `source/foobar/` | an instance with two modules, a linked list | init, cleanup, list operations | not modelled |
| samples | `source/samples/`, `book-list/samples/` | none | binary search, splitting an array, exercises | not modelled |
| gtest, glibc headers, CMake, docs | | | | vendored or without behaviour |

How they interact. Everything in PurC goes through the heap: constructors call
`pcvariant_get`, the last `purc_variant_unref` calls a type's releaser, which
drops the references of members, may call the program back (native values),
and ends in `pcvariant_put`. The comparison functions are called by the search
tree of a set, which decides with them whether a member is already there; the
casts are called wherever a number is wanted, the loader of dynamic objects
among them (it keeps a library handle as an integer in an object).
In MiniGUI the server's only thread runs the window manager, the registry and
the pass. Clients are other processes: they share the memory of their surfaces
with the server, under a read-write lock and with an age that counts drawings,
and receive messages from it.
`mginit` is a program over both: it starts and reaps child processes, some of
which become clients, and puts a transition of its own in the place of the
fallback compositor's. The image loaders read from a stream and give finished
rows to a callback.

What is hard here, and what makes each component correct:

* *heap*: releases nest and call the program back while a count is already
  zero; a wrapper is reused with the payload of its former value in it. Counts
  must equal references, nothing may be lost, used after it was put back, kept
  twice; the statistics must add up.
* *reserve*: two implementations, chosen at build time, must keep one promise.
* *casts*: limits in `double`, unions read through the wrong field, conversions
  that cut. Force must only add answers; an unforced answer must be exact.
* *comparison*: an order used by a search tree must be one: antisymmetric,
  transitive, and zero exactly for equal values, through nested containers.
* *registry*: any callback may fail or find data another compositor left. A
  callback must get its own live context; nothing may leak or be left current
  without being registered.
* *pass*: clients draw between any two steps of the server and messages are
  delayed or lost. No drawn rectangle may be forgotten, no lock kept, and a
  refresh must show what the pass locked.
* *loader*: a library's code is called by releases of values it made. The
  library must not be closed before, however loads, unloads and releases nest.
* *server*: SIGCHLD is raised once for several children, and process ids are
  used again; a client may close its connection and run on. No child may be
  forgotten, no signal reach the wrong process, no program start too early.
* *images*: one byte too many or too few shifts everything that follows. Every
  pixel must be what the file says, every row be shown once.

The hazards, each at its line and with the properties that watch it, are the
list "hazards" of `PROJECT.json`.

## 2. Modules

```
ReservePool            what the reserve promises
  <- VariantHeap         refined by the list reserve
       <- DynamicObjects   the heap, with libraries          DynamicObjects_proofs
  <- RingReserve         refined by the loop buffer       RingReserve_proofs
VariantCast            integer casts                      VariantCast_proofs
VariantCompare         the three comparisons
  <- VariantText         conversions, comparison by way     VariantText_proofs
                         of them
CompositorRegistry     the compositor manager             CompositorRegistry_proofs
Compositing            the pass, with drawing clients     Compositing_proofs
SampleServer           mginit: processes, clients, keys   SampleServer_proofs
BitmapFile             what a bitmap file says
MemoryStream           a stream over memory
  <- BitmapLoader        Windows and OS/2 bitmaps, by BitmapFile
  <- WebPLoader          WebP
       <- ImageLoading     both over one stream             ImageLoading_proofs
MC*                    instances for TLC
```

`DynamicObjects_proofs` holds the proofs about the heap as well.

### VariantHeap

A *place* is anything that stores a `purc_variant_t`: a variable of the program
(`Root`) or a member position of a container (`Member`). `place` is what each
holds, `refc`, `type` and `word` are the wrapper's fields; `word` is
`sz_ptr[0]`, the accounted extra size, which the payloads of other types
overlay. The stack `releasing` holds the calls of `purc_variant_unref` whose
count reached zero and whose `pcvariant_put` has not run.

| action | code |
|---|---|
| `Make` | a constructor: `pcvariant_get`, payload, extra size |
| `MakeConstant` | `purc_variant_make_null` and the like |
| `Ref`, `Unref` | `purc_variant_ref`, `purc_variant_unref` up to the releaser |
| `ReleaseMember` | one iteration of a container's releaser |
| `Put` | the end of the releaser (extra memory given back) and `pcvariant_put` |
| `Resize` | `pcvariant_stat_set_extra_size` when a value grows or shrinks |
| `UsageStat` | `purc_variant_usage_stat`, which writes the counts of constants |
| `Cleanup`, `InitInstance` | `_cleanup_instance`, `_init_instance` |

`ProgramRuns` lets the program act when no release is under way or when the
innermost one is that of a native value: its `on_release` callback may make,
reference and drop other values. What it references is in one of its variables
or a member it borrows from a container that these reach (`Held`, `Accessible`).
Releasers and constructors are not in the
repository; they are modelled from how `variant.c` calls them. Containers are
never put inside themselves (`Fillable`), which the container code refuses.
Memory is counted in units of `sizeof(purc_variant)`.

### ReservePool and RingReserve

`ReservePool` says what both reserves promise: a wrapper is allocated only when
none is kept, the one kept longest is reused first, at most `Capacity` are kept,
none is handed out while in use. `VariantHeap` implements it with
`kept <- reserve` and `Capacity <- MaxReserved`, `RingReserve` (the build with
`USE(LOOP_BUFFER_FOR_RESERVED)`) with the slots from `tailpos` to `headpos` in
reading order and one wrapper less than it has slots.

### VariantCast

One operator per cast, one `CASE` branch per source type. A floating-point value
is counted in halves, so that fractions exist, with infinities and NaN beside.
`NumberHalves` are the long doubles that are doubles. Limits are converted to
double before they are compared, so `INT64_MAX` is compared as the next power
of two. `Disguised` are the long doubles whose 64-bit mantissa is
`0xFFF0000000000000`, 1.99951171875 for one: line 877 asks `isinf(v->d)`, which
reads that mantissa as a double and finds minus infinity. String parsers are not
in the repository: a string spells an integer or nothing.

### VariantCompare

The three functions on values `[type, x]`; a string is its position in `strcmp`
order, an object the sequence of its key-value pairs in tree order. A function
that calls itself on the members of a container is written as one round
(`EqualStep`, `CompareStep`), given the answers about members, and a table of
the answers by depth over it (`EqualAt`, `CompareAt`): `Nests[d]` are the values
with at most `d` levels, and `Depth` is enough for all that are compared, which
is finite because containers are never put inside themselves. `CompareAssumption`
says what the constructors ensure: a value has the payload of its type, the keys
of an object are unique and in order, everything in a container is a value too,
a scalar is spelled as some string. It also says that two exceptions with
different atoms have different names, because both atoms are of the bucket
`PURC_ATOM_BUCKET_EXCEPT`, where a name has one atom; atom strings of different
buckets may share one. `Epsilon` stands for `1 / DBL_EPSILON`: with 8, the numbers 8 and 9
are as close as numbers that count as equal. Byte sequences of up to
`InlineBytes` bytes live in the wrapper (`private/variant.h:110`); the two
comparisons take their content for an address and a length all the same.
`beyond` is what `memcmp` finds then, or when `pcvar_compare_ex` reads the
shorter of two byte sequences past its end; `Aborts` is an assertion of the code
that fails. NaN is left out. Objects are
compared by the common prefix of their members and then by length, as the code
does. Walking two containers of one kind is, for `pcvariant_diff`, the business
of code that is not in the repository.

### VariantText

What a variant is as a number, a truth value, a text and bytes, as operators by
type, and over them `purc_variant_compare_ex` with its four methods,
`pcvariant_md5_by_set` and `pcvariant_diff_by_set`. A text is a sequence of
strings, with the newline and the colon among them; what `strtod` and
`pcutils_parse_double` make of a string are functions given as constants, and a
digest stands for its text: two texts never have the same one. Dynamic and
native variants answer through a getter, which returns a scalar or nothing.
`CompareByMethod` and `CompareInSet` are questions beside those of
`VariantCompare`. Byte sequences are numbers of their last `LongBytes` bytes,
the first of these the lowest, with the sign of a long integer. Integers and long
doubles that are no doubles are `Rounded`; sums of them are exact. `Numerify` and
`Stringify` go by depth like the comparisons.

### DynamicObjects

`VariantHeap` with the loader beside it: `opens` counts what `dlopen` opened and
`dlclose` did not close, `handle` is the library noted in an object, `code` the
library whose functions a native value calls, `calls` the stack of loads and
unloads under way. `LoadBegin` searches the directories as the code does
(`EnvTries`: those of the environment, up to the first that is not absolute) and
calls the entry function, which may make values, load and unload (`MayCall`).
`LoadEnd` takes what it returns: an object gets the handle, anything else is
dropped and the library closed. `Unload` drops the reference; the releases it
starts run, with their callbacks, and then `DlClose` closes the library. A call
that fails before the entry function runs changes nothing and is no step.
`kept` (not in the code) are the values that others hold when their library is
being closed: no comment says who must hold none, so they are excused.

### CompositorRegistry

The table, the current operations and context, the private data on znodes and
the library handle. `call` is the callback the manager is in: initialize, purge,
terminate, on_showing, and the last purge and terminate when the server ends; so
what a selection does in sequence is a sequence of steps, and initialize may
fail at its step. `Stored` is the cut of a name to 15 characters. Operation tables are chosen by
the caller: the same one may be registered under several names.
The window manager shows and hides znodes between selections, and the current
compositor may attach data to them. It also makes another layer the topmost one
(`SetTopmost`), while the manager reaches the menus of the topmost layer only
(`Reached`): data on another layer's menu can be left `Stale`, and
`DataHasOwner` says that nothing else can. Assumed, because the compositors are not in
the repository: one only attaches data to the kinds of znode it purges, and the
server is not started again after it ended.

### Compositing

`pc`, `layers`, `layer` and `at` say where the pass is: `Order(l)` lists the menus,
windows and wallpaper of a layer, `at` is the place reached in it, and places that
are not `Visited` are passed over. One step locks one
znode, one refreshes the screen, one unlocks and one resets a znode. `dirty_age`
and `dirty_rcs` are shared with the client, `changes` is the age the server
noted, `stale` (not in the code) is what the screen does not show yet.
A client's actions: `BeginDraw` takes the write lock, `EndDraw` draws and releases it,
`Composited` handles `MSG_WINCOMPOSITED`. Messages are a set: they arrive late,
in any order, or never. Assumed: every compositor shows the topmost layer; the
menus stay the same. Each layer has a znode 0 of its own (`Wallpaper[l]`), and
all of them note the age of the one surface of the screen, which is passed over
when its width or height is 0 (`ScreenHasSize`). A client's menu in slot 0 is in
`ResetEarly`: line 173 takes the slot for the wallpaper's, resets the client's
surface without a lock, and loses what the client drew after the unlock.
`NothingLost` and `NotedIsShown` leave these menus out and fail without that.

### SampleServer

| action | code |
|---|---|
| `MiniGUIMain`, `StartupFails` | the start, by its first argument |
| `NewClient`, `DelClient` | `on_new_del_client` |
| `KeyDown` and its disjuncts | `my_event_hook`: end the session, interrupt or start the wallpaper, start a program, switch or create a layer |
| `child_wait` | the handler of SIGCHLD, at any point of the loop |
| `Close` | a client closes its connection and runs on |
| `Exit`, `Stranger` | the kernel: processes end, and others take their ids |

`exec_app` is a set of outcomes, because `vfork` may fail (-1) or return any
unused id. `sigchld` is one bit, as signals are. `lost` (not in the code)
notes that `pid_dynamic` no longer stands for the wallpaper: it was reaped
without having been interrupted, or never started; `closed`, which welcome program
has closed its connection; `dropped`, that `vfork` failed for the command.
`Animated` is the transition
between two layers, with the share of each at its ends. `pid_scrnsaver` is never
assigned in the code; its branch is dead and left out.

### MemoryStream, BitmapFile, BitmapLoader, WebPLoader, ImageLoading

`data` and `here` are the memory area and the position. `InitBmp` goes to the
first byte after the palette. `LoadLine` is one round of the loop of
`__mg_load_bmp`, or of the loop of the decoder it calls, with `line` and `pos`
for the scan line and the position in it: a run, a list, a displacement or a
mark (`RLE8`, `RLE4`), or a whole line (`Read16`, `ReadRaw`). `GoOn` is the way
round the decoder's loop and `Return` the way out of it, with the callback and
the next line. Pixels go into the buffer of all lines, or into that of one
line; the decoders do not look where a line ends, so what is too long goes into
the next line in memory (`Offset`) or out of the buffer, after which anything may
happen (`Overrun`). Two pixels of four bits share a byte: `Pack` and `Or` say what that byte
holds after the left and after the right one.

`BitmapFile` has no state and is not a decoder: it says what a file means.
Beside its fields, a header has the lines of the picture as pieces, each with
the position and the place in the file where it begins, and `FileCoded` says
which bytes must be there, format by format. `Says` gives the pixels, piece by
piece, of a line; so `LoadedExact` compares the decoder with a description of
the picture and not with another decoder. `Regular` excludes lines longer than
the picture, headers of an unknown size or compression and what four bits do at odd positions,
see section 4. `FileCoded` is an assumption on the files (`FilesAssumption`):
bitmaps are complete, their masks and palette are where the header says, and
every line but the last is followed by the next. WebP files are any bytes.

The WebP loader is a loop over an external decoder, which completes rows when it
likes: `InitWebp` reads the header piece by piece, `Feed` gives the decoder what
was read, `Report` shows the new rows and reads the next piece. `Check` in
`ImageLoading` is the choice of the loader; what `WebPGetInfo` says of a file that
is no bitmap is libwebp's choice.

## 3. Runs

| run | instance | question |
|---|---|---|
| `heap_nesting` | 3 wrappers, 2 variables, 1 member per container, a reserve of 2, all four kinds of type | are counts exact, is nothing lost, dangling or revived through nested releases and callbacks; is the reserve the promised one? |
| `heap_stat` | 2 wrappers, reserve of 1, payload words 0 and 1, a constant in use | do the statistics add up, is the reserve sound, over several lives of an instance? |
| `heap_sz_mem` | 2 wrappers, reserve of 1 | **violated**: `sz_mem` of a type falls below zero |
| `dynamic_objects` | 3 wrappers, no reserve, a library opened up to twice, 2 calls nested | is a library closed only after what it made is released? |
| `ring_reserve` | 3 slots, 4 wrappers | does the loop buffer count right and keep the promise when it is full and wraps? |
| `compositor_switch` | 3 slots, 4 names (one too long), 3 operation tables, 2 contexts, a window and a menu, the menu's layer and another one | does every callback get its own live context, whatever is registered, fails or is replaced? |
| `compositor_last_fallback` | the same, the fallback may fail | **violated**: at the end it terminates another compositor's context |
| `compositing_pass` | 2 layers with a client's window and a znode 0 each, a client's menu in slot 0; up to 2 drawings per surface | is no drawing lost, no lock kept, and does a refresh show what was locked? |
| `cast_integers` | 3- and 5-bit integers, all halves from -18 to 34 | the casts, with and without force |
| `compare_orders` | 51 variants, all pairs, every third; every method, sets with none, one and two unique keys | are the comparisons orders that agree, and are equal variants the same in every conversion? |
| `sample_server` | 3 process ids, 2 clients, 3 layers beside the default one | is every child reaped, no signal misdirected, no wallpaper doubled, no command too early or forgotten; does a transition between any two layers show the one asked for? |
| `image_loading` | 11,000 bitmaps of two lines, WebP files of 5 to 40 bytes, whole and truncated | is every pixel what the file says, and every row shown once? |

Why the bounds are enough. In the heap, three wrappers give a container in a
container in a container, a shared member and a callback inside a nested
release; a fourth adds no new relation between two. The reserve of two is empty,
partly filled and full. The memory accounted to one type can drift without bound
(that is what `heap_sz_mem` shows), so the state constraint `Drift` looks at
drifts of up to two wrappers (`DriftBound`); it restricts nothing else, since a
type can be made and dropped at any drift. The symmetry sets are the wrappers
and the program's variables, which no action tells apart. A library opened twice
(`MaxOpens`) and two calls
under way (`MaxCalls`) are the smallest numbers with a close inside a load, a
close inside a close, and one close too many; the action constraint `OfLibraries`
leaves out natives of code that is no library, which the other heap runs have.
Three slots are the smallest ring in which full, empty and wrapped differ. Two
contexts suffice for the registry because at most two are ever live, the old and
the new; one menu suffices because it is treated by its layer only, and two
layers make it the topmost one's or not. Two drawings (`MaxAge`) of the first window, the
menu and the screen give an age noted, an age since, and an old message, and to
the screen the same age noted in two layers' znodes 0; the second window, drawn
once, tells the layers apart; one rectangle tells lost from kept. Three process ids
are the welcome program or the wallpaper, one more child and a stranger that
takes an id again; two clients are the welcome program's connection with and
without another, in either order. No action looks at the layers and at the processes, so
the state constraint `Separately` leaves out that both are there; with four layers
a transition is between neighbours, over one and over two others. With 3 and 5 bits `UINT32_MAX` (7) lies below
`INT64_MAX` (15), as in C; floating values exceed both limits on both sides; near
the 64-bit limits the doubles have gaps. The 51 variants have two of every
scalar that can differ, numbers equal across types, close numbers, infinities,
prefixes of byte sequences and containers, byte sequences in the wrapper and
outside, and containers that differ two levels
down (`Depth` is 3). The lines of a bitmap have up to three pieces in every order, of odd and
even length, up to one pixel longer than the picture, and single pieces that
reach into the next line or out of the buffer, with both ends of a line and of a
picture; the second line starts from whatever the first left. WebP files end before, in and after
the header
and in the middle of a buffer.

`CHECK_DEADLOCK FALSE` is set where the system does stop: the servers after their
end, a comparison after its answer, a loader after its image.

Fairness is assumed of the sample server only: weak fairness of `DelClient`,
because the loop looks at every socket in every round, and of `child_wait`,
because a pending signal is delivered; nothing is assumed of keys, clients and
the ends of processes. Two more things ought to happen, and the models promise
neither, because the code does not decide them. A release ends if the callbacks
return, and these are the program's. A pass ends if every client gives back its
write lock and the server gets it then: a client that locks again and again may
keep the server waiting for ever (`compsor-manager.c:135`), as the code asks for
no lock that is fair. So the pass has safety properties alone; `RefreshShows`
says what a pass shows once it has its locks.

Every property of a passing run has a mutant in `PROJECT.json`: a change of one
mapped definition, such as a forgotten reset or an off-by-one, under which the
run fails. The mutated operators stand beside the originals in the modules.

## 4. Where code and words disagree

Runs show two: the wrapping `sz_mem` (`variant.c:525`) and the last terminate of
the fallback compositor (`compsor-manager.c:493`). Modelling met some more, which
no run checks; the properties are stated so that they exclude them, and say so.

Variants:

* `purc-variant.h:2403` says a cast of any number to longint always succeeds;
  without force the code refuses numbers beyond its limits (`variant.c:1082`).
* `purc-variant.h:2426` says a negative number becomes 0 as an unsigned one; a
  negative longint wraps around when forced (`variant.c:1223`).
* `variant.c:985`: a longint above `UINT32_MAX` loses its upper bits without
  force, and a long double above an unsigned limit becomes the limit.
* `variant.c:877`: `isinf(v->d)` on a long double, see VariantCast.
* `variant.c:544`: with an infinite operand the tolerance is infinite, so an
  infinity equals every other number and not itself.
* `variant.c:3484` takes `memcmp(...) == 0` for the sign of a comparison: natives
  and dynamics with the same address differ, others do not.
* `variant.c:3476`: the longer byte sequence is compared over its own length.
* `variant.c:3463` and 3127: `pcvar_compare_ex` and `bs_diff` read the length and
  the address of a byte sequence without looking whether it lives in the wrapper,
  as `purc_variant_is_equal_to` does (695). For {00} and {00 00} both answer 0,
  so that they pass for equal; for {01} and {02} they read from no valid address.
  `ZeroIsEqual`, `DiffOrders` and the orders leave such sequences out (`Exact`,
  `Scalar`), and fail when they do not.
* `variant.c:3328`: the members of a set are ordered by value when they are of
  one type and by spelling when not: 5 < 10, 10 < "5", and 5 and "5" no
  different. `purc-variant.h:1478` calls the members of a set unique.
* `variant.c:3622` and 3669: as members of a set with unique keys, an object
  without any of the keys and a value that is no object have different digests
  and no different key.
* `variant.c:1602`: the automatic method looks at the first type only, so that a
  number against a string is compared one way and the string against the number
  another.
* `variant.c:2437` and 3573: the callbacks of stringify and MD5 take `strlen` of
  what they get, also when it is empty or holds a zero.

Loader of dynamic objects:

* `variant.c:1711` announces a search through the directories of
  `PURC_DVOBJS_PATH`; the search of the environment ends at the first one that is
  not absolute (1728).
* `variant.c:1780`: `dlerror` may still report a directory in which an earlier
  try found nothing; then the library found later is closed again.

Compositors:

* `compsor-manager.c:404` and 442 purge and rebuild the menus of the topmost layer
  only: a menu that another layer keeps goes on with data of a compositor that
  was terminated. No comment says that layers lose their menus.
* `compsor-manager.c:173`: a client's menu in slot 0, see Compositing.

Sample server:

* `mginit.c:88` takes the closed connection of the welcome program for its end:
  a program that closes it early runs beside the command, and beside the
  wallpaper that the space key starts (175).
* `mginit.c:92`: when `vfork` fails the command is freed and never started.
* `mginit.c:168`: the wallpaper's process id is kept when it ends by itself.

Images:

* `winbmp.c:241`, 264 and 304: pixels beyond the end of a line are written into
  the line after it in memory, or out of the buffer; RLE8 looks at the width
  between two codes only, RLE4 one pixel too late.
* `webp.c:245`: a truncated file is loaded without an error, its last rows are
  never shown.
* `winbmp.c:298`: in four bits, a run of two pixels in turn that begins at an odd
  position comes out the wrong way round, and a left pixel clears the one to its
  right. Line 257: a displacement ignores its vertical part.
* Colours that follow the header of a picture of 16 bits or more are read as
  pixels: only the header's offset says where pixels begin, and it is used for
  the number of colours only (`winbmp.c:415`).

## 5. Proofs

For every value of the constants that the named assumptions allow (finite sets
of wrappers and places, any reserve, integers of any width, variants nested to
any depth, any layers, windows, clients, compositors and processes, images and
buffers of any size):

| module | theorems |
|---|---|
| `DynamicObjects_proofs`, on the heap | `TypeCorrect`, `CountsAreExact`, `NoUseAfterPut`, `ReserveIsSound`, `ReleasedForGood`, `HeapImplementsPool`, `NoCycles`, `NothingLost`, `TotalsAreExact` |
| `DynamicObjects_proofs`, on the loader | `UnloadedAfterRelease`, `HeapUnderLoader` |
| `RingReserve_proofs` | `RingTypes`, `RingCounts`, `RingFreesOnce`, `RingImplements` |
| `VariantCast_proofs` | `CastTypes`, `ForceNeverChanges`, `UnforcedIsExact`, `ForcedIsNearest` |
| `VariantText_proofs` | `MirrorsAlways`, `SwapsAlways`, `ZeroAlways`, `OrderAlways`, `DiffAlways`, `SubstitutesAlways` |
| `CompositorRegistry_proofs` | `RegistryTypes`, `FallbackIsFound`; if the fallback compositor can always be initialized: `CallbacksGetTheirs`, `OneContextLives`, `DataIsOwned`, `CurrentStays` |
| `Compositing_proofs` | `UpdatesSurvive`, `LocksReturned`, `NotesAreTrue`, `WindowsShown` |
| `SampleServer_proofs` | `ChildrenReaped`, `OnlyWallpaperSignalled`, `WallpapersAlone`, `CommandStartsAlone`, `TransitionsRight` |
| `ImageLoading_proofs` | `RowsGivenOnce`, `BitmapsLoadedExactly` |

*Heap.* `RefcExact` is not inductive: a value under release could be dropped
again, or its wrapper be reused while a place still holds it. `IInv` adds that
the stack `releasing` has no duplicates, lies within the wrappers in use and
that their counts are zero (`ReleasingSound`), so nothing holds them and no
action touches their count; that no place dangles; that the reserve is free of
duplicates and of wrappers in use, so that a wrapper taken from it is new; and
what holds between a cleanup and the next initialisation (`CleanedUp`).
Counting is a lemma on cardinalities: filling or emptying one place changes the
number of holders of one variant by one. The refinement needs only that `Get`
takes the head of the reserve and `Put` appends to it, and that `nr_reserved` is
its length.

*Nothing lost.* `Reachable(X)` is the intersection of the sets that contain `X`
and are closed under membership, so that a proof about it gives or uses one such
set, and needs no induction along paths. A value that loses its last reference
is reached from `releasing` from then on, so `NoLeak` could only fail when a
value in a ring of containers is dropped. `Nesting` therefore adds `Acyclic`, no
container reaches itself through a member, and that only containers in use have
members. `Acyclic` is kept because `Ref` refuses to fill a position of a container
with what reaches that container (`Fillable`), and because a wrapper that is got
has no members. With nothing in a root and nothing under release, nothing is
reachable, and so at a cleanup nothing is in use.

*Statistics.* `TotalsExact` is about sums over types and over wrappers. The sum
of the community modules is a fold, and its recursive function exists because
the subsets of a finite set are well-founded by size (`SumExists`); every step
then changes the sum by what it changes at one argument (`SumUpdate`). That a
cleaned-up heap has nothing in use (`Emptied`) is needed for the next
initialisation, which starts the counts anew.

*Loader.* `CodeOpen`, that a value in use whose library has code for it is only
there while that library is open, or is excused, is not kept by `DlClose` alone:
the releases before it must have emptied the library. `Doomed` says so while they
run: a value of the library that is not excused is not reached from what was
there before the unload, neither the program's variables nor the releases
outside it. When the unload's own releases are over (the stack is back at the
noted depth, `Nested`), such a value could not be reached at all, and by `NoLeak`
is not in use. A callback cannot rescue it, because it can only take what it
reaches.

*Ring.* The arithmetic is `% MaxReserved`, which the prover cannot do for a
symbolic modulus; lemmas reduce it to a case distinction. `IInv` says that a
slot is filled exactly when it lies between `tailpos` and `headpos`, that
`nr_reserved` is their distance, that no two slots hold the same wrapper and no
slot one in use. For the refinement, the buffer read as a sequence (`Held`)
loses its head when `tailpos` advances and grows at its end when `headpos` does.

*Casts.* The state is one question and its answer, so the invariant only says
that the answer is the cast's (`Told`). The work is in lemmas per conversion:
the limits bound what is converted, force does not enter an answer given without
it, dropping a fraction keeps the integer part and respects the limits.

*Comparisons.* The state is again one question and its answer (`Answered`); the
work is a proof for all values at once, level by level. For each property a
predicate says what the tables of one depth must satisfy, and a lemma that one
more round keeps it: `Mirrors` (swapping), `Zeros` (zero is equality), ordered
answers that fit (`Fits`), `Alike` (equal values convert alike). Induction over
the depth goes through the set of the depths at which the predicate holds
(`Steps`), and the recursive functions of the model exist and satisfy their
equations by a lemma of the same kind (`Recursion`): neither needs a theorem with
an operator as a parameter. One round is taken apart by type: values of
different types (with `unify_number`, the four numeric types are one: `Class`) are
ordered by it; two of one class get the answer of one of six kinds (`Normal`).
For containers the lemmas are about `Decide`, the first difference and then the
length: it is zero, negative and swapped as its parts are, and two such orders
compose when their parts do. Object equality looks keys up, the order walks both
objects side by side; that these agree needs that two increasing sequences of
one length with the same members are the same (`SameIncreasing`). `Apart` is
needed for the order: without it, numbers a tolerance apart chain to numbers
that differ. For `EqualSubstitutes`, the texts under two digests are the same
when no key differs, because a difference of zero means the same spelling
(`DiffZero`).

*Registry.* `Struct` (the types; the table holds the fallback compositor in slot
0, and a slot has a name exactly when it has operations) is inductive alone and
needs no assumption. `Selection` says for each callback under way what is live:
one context at rest (`AtRest`), the current one while the other compositor
initializes (`AtInitialize`), both of them while the old one purges and
terminates (`AtReplace`), and which znodes still have data (`DataOK`). When the
old one is terminated no znode that the manager reaches has its data (`NoData`);
so only what it does not reach becomes stale. `Reliable`,
that the fallback's `initialize` does not fail, is needed for the end of the
manager only; the run `compositor_last_fallback` shows what happens without it.

*Pass.* `LocksExact` ties `lock_count` to `pc` and `at`: the surfaces locked are
those of the visited places already passed while locking, and still to come
while unlocking. So a lock is taken once and given back once, and under it
nobody changes what was noted (`LockExcludes`).
After the refresh a locked surface is shown in full (`ShownWhileHeld`), hence the
age noted at its unlock was; a message names such an age (`MessagesTrue`), so that a
client that has not drawn since may drop its rectangles. No znode has noted an
age that was not drawn yet (`AgesGrow`); so the layers' znodes 0, which share one
surface, cannot take a later age of it for the one they noted.

*Server.* `Wallpaper` says what `pid_dynamic` stands for unless `lost`, and that
every other wallpaper was interrupted; `Welcome`, that a closed socket with the
id of the welcome program is its own, although ids are used again, so that when
`pid_welcome` is cleared a welcome program that still runs has closed its
connection. Both `OneWallpaper` and `CommandAlone` follow from that, and say no
more: the program may run on.
`Layers`, that the list of layers has each once, so that a place in it decides
which layer is newer.

*Images.* Of a WebP file, the bytes read are those the decoder got and those that
wait in the buffer (`WebpInv`), and when the loop ends with a whole file the
decoder got all of it; `WebpAssumption` says only that a
read asks for at least one byte and that a picture has a number of rows.

A bitmap is in the middle of a line for most of its steps, so `LoadedExact`
needs an invariant about half a line (`Reading`): the stream is at
the first byte of some piece k, and the line holds what the file says up to
there and what it held before from there on (`Partial`), except that in four
bits the pixel after an odd number of them is cleared. `Advance` takes a line
from one piece to the next, from what the decoder does to each pixel
(`Decoded`); it rests on that the pieces follow each other (`FromClimbs`) and so
a pixel is in one of them (`OnePiece`). One lemma per round shows that the bytes
of a piece, and no others, choose the branch that writes it (`Round8`,
`Round4`), and that the mark of the end is one (`End8`, `End4`); lines that are
not compressed are one piece (`Line16`, `LineRaw`). A piece of a regular line ends
within the line, so it fits the buffer (`RoomLeft`), no pixel of another line is
at an offset that is written (`OffsetElsewhere`), and `Fill` and `Pack` change
one line only (`FillIsLine`, `PackIsLine`). That the next line begins in
what the last one left, in the buffer of one line, is part of `ShownExact`; that
the lines above are still blank in the buffer of all, of `BitsExact`. Lines of a
file that is not regular may be left with an error, and nothing is said of them.

Only model-checked: `CommandFollows`, because liveness is out of the prover's
reach. `SzMemNeverWraps` and `OwnContext` without `Reliable` are false, and shown
to be.

## 6. Not modelled

* *Constructors, containers, JSON*: thin wrappers of code that is not in the
  repository; the heap models what they do to it.
* *Formatting*: how a number is spelled (`stringify`, `printf`), how buffers
  grow, how a bitmap is saved (compiled only with `_MGMISC_SAVEBITMAP`).
* *File streams* of `rwops.c`: calls of the C library.
* *foobar*: its initialisers do next to nothing, and its list header is used by
  no code of the repository.
* *Samples of the course and the book*: exercises in input and output of a few
  lines each, many of them the same program several times over. In
  `find-key-in-sorted-array.h` the table that is searched is not sorted ("type"
  before "target", line 30), which a look shows and a model would not show better.
* *Headers* of PurC and glibc, googletest, WTF, CMake files: declarations, or
  code of others. They are the larger part of the repository's lines. The code
  with behaviour of its own is about 11000 lines, more than half of it wrappers,
  tables, formatting and samples; the models stand for the rest.

## 7. Plan

What is left, should the code grow:

1. A compositor of the repository's style (its regions and what it attaches to
   znodes) in place of the external one of `CompositorRegistry`, when its source
   is added.
2. The saving of bitmaps as the inverse of `BitmapFile`'s description, when
   `_MGMISC_SAVEBITMAP` is compiled.
