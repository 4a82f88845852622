----------------------------- MODULE PackFiles -----------------------------
(***************************************************************************)
(* asset_gen::pack_file_gen and load_unit_gen, which write the content of  *)
(* files behind (a pack) or beside (a load unit) the meta data that says   *)
(* where each lies, and what reads them: asset::pack_file_reader with a    *)
(* pool of opened sources, and load_unit. A file is a sequence of cells;   *)
(* the meta data of a pack takes MetaCells of them for each element. At    *)
(* the end the binary streams such files are read and written with.        *)
(***************************************************************************)
EXTENDS Naturals, Sequences, FiniteSets, SequencesExt

CONSTANTS Paths, Contents, FirstDisk, ContentSize, CompressedSize, MissingFile,
          MetaCells, MaxElements, MaxChunk, PackReaders, MaxSources

ASSUME PackFilesAssumption ==
  /\ ContentSize \in [Contents -> Nat] /\ CompressedSize \in [Contents -> Nat \ {0}]
  /\ MissingFile \notin Contents /\ FirstDisk \in [Paths -> Contents]
  /\ {MetaCells, MaxElements, MaxSources} \subseteq Nat /\ MaxChunk \in Nat \ {0}

VARIABLES
  pkKind,                \* "pack" or "unit"
  pkDisk,                \* the files to pack
  pkEntries, pkNext,     \* entries, next_pos
  pkOffset, pkMeta,      \* content_offset, meta_data
  pkOut,                 \* what lies in the output: its elements and its cells
  pkCompiled,            \* whether that went well
  pkChanged,             \* whether a file has changed since it was added
  pkPacked,              \* the elements and contents of the last compilation
  pkCut,                 \* whether the output has lost its end
  pkSources,             \* opened_pack_file_sources: who holds each, and whether its stream is good
  pkReader               \* the readers' calls

genVars  == <<pkKind, pkDisk, pkEntries, pkNext, pkOffset, pkMeta, pkOut, pkCompiled, pkChanged, pkPacked, pkCut>>
readVars == <<pkSources, pkReader>>
packVars == <<genVars, readVars>>

Idle == [pc |-> "idle"]
NobodyReads == "nobody"

PackInit ==
  /\ pkKind \in {"pack", "unit"}
  /\ pkDisk = FirstDisk
  /\ pkEntries = <<>> /\ pkNext = 0 /\ pkOffset = 0 /\ pkMeta = <<>>
  /\ pkOut = [elements |-> <<>>, meta |-> 0, cells |-> <<>>]
  /\ pkCompiled = "no" /\ pkChanged = FALSE /\ pkPacked = <<>> /\ pkCut = FALSE
  /\ pkSources = <<>> /\ pkReader = [t \in PackReaders |-> Idle]

(***************************************************************************)
(* Compression                                                             *)
(***************************************************************************)

Cells(c) == [k \in 1 .. ContentSize[c] |-> <<c, k>>]
Smaller(a, b) == IF a < b THEN a ELSE b

\* The input goes to zlib in chunks; the one after which less than a chunk is left finishes the stream.
Chunks(size) ==
  LET whole == size \div MaxChunk
  IN [k \in 1 .. whole + 1 |->
       [from |-> (k - 1) * MaxChunk, length |-> Smaller(size - ((k - 1) * MaxChunk), MaxChunk), finish |-> k = whole + 1]]

Provided(cells) == FlattenSeq([k \in DOMAIN Chunks(Len(cells)) |->
  LET chunk == Chunks(Len(cells))[k] IN SubSeq(cells, chunk.from + 1, chunk.from + chunk.length)])

\* External: zlib turns what it has been given into fewer or more cells, and back when all are there.
Compressed(c) == [k \in 1 .. CompressedSize[c] |-> [of |-> Provided(Cells(c)), part |-> k, parts |-> CompressedSize[c]]]

Inflated(cells) ==
  IF cells # <<>> /\ \A k \in DOMAIN cells : DOMAIN cells[k] = {"of", "part", "parts"} /\ cells[k].of = cells[1].of /\ cells[k].part = k
  THEN cells[1].of ELSE <<>>

(***************************************************************************)
(* Generation                                                              *)
(***************************************************************************)

Generating == pkReader = [t \in PackReaders |-> Idle] /\ pkSources = <<>> /\ ~pkCut

\* read_file_size: a file that cannot be opened is not added. Its name in the output is its path.
AddFile(p, zip) ==
  /\ Generating /\ Len(pkEntries) < MaxElements
  /\ pkDisk[p] # MissingFile
  /\ zip => pkKind = "pack"
  /\ LET c      == pkDisk[p]
         stored == IF zip THEN CompressedSize[c] ELSE ContentSize[c]
     IN /\ pkEntries' = Append(pkEntries, [path |-> p, name |-> p, offset |-> pkNext, size |-> ContentSize[c],
                                            compressed |-> IF zip THEN stored ELSE 0, zip |-> zip])
        /\ pkNext' = pkNext + stored
  /\ UNCHANGED <<pkKind, pkDisk, pkOffset, pkMeta, pkOut, pkCompiled, pkChanged, pkPacked, pkCut, readVars>>

\* A file that has been added changes, or goes.
ChangeFile(p, c) ==
  /\ Generating /\ ~pkChanged
  /\ \E k \in DOMAIN pkEntries : pkEntries[k].path = p
  /\ pkDisk[p] # c
  /\ pkDisk' = [pkDisk EXCEPT ![p] = c]
  /\ pkChanged' = TRUE
  /\ UNCHANGED <<pkKind, pkEntries, pkNext, pkOffset, pkMeta, pkOut, pkCompiled, pkPacked, pkCut, readVars>>

\* update_content_offset
Moved(entries, offset) == [k \in DOMAIN entries |-> [entries[k] EXCEPT !.offset = (@ - pkOffset) + offset]]

\* copy_file_content and copy_file_content_compressed: they check the place before they write, and the
\* sizes when all is written.
CopyContent(out, e) ==
  LET c     == pkDisk[e.path]
      cells == IF e.zip THEN Compressed(c) ELSE Cells(c)
  IN IF out.thrown \/ c = MissingFile \/ Len(out.cells) # e.offset
     THEN [out EXCEPT !.thrown = TRUE]
     ELSE [cells  |-> out.cells \o cells,
           thrown |-> ContentSize[c] # e.size \/ (e.zip /\ CompressedSize[c] # e.compressed)]

\* compile_pack_file: the size of the meta data does not depend on the offsets in it.
CompilePackFile ==
  /\ pkKind = "pack" /\ Generating
  /\ LET start    == MetaCells * Len(pkEntries)
         entries  == Moved(pkEntries, start)
         header   == [k \in 1 .. start |-> <<"meta", k>>]
         out      == FoldLeft(CopyContent, [cells |-> header, thrown |-> FALSE], entries)
     IN /\ pkEntries' = entries
        /\ pkNext' = (pkNext - pkOffset) + start
        /\ pkOffset' = start
        /\ pkMeta' = entries
        /\ pkOut' = [elements |-> entries, meta |-> start, cells |-> out.cells]
        /\ pkCompiled' = IF out.thrown THEN "thrown" ELSE "ok"
        /\ pkPacked' = [k \in DOMAIN entries |-> pkDisk[entries[k].path]]
  /\ UNCHANGED <<pkKind, pkDisk, pkChanged, pkCut, readVars>>

\* compile_load_unit: the elements are added to those of an earlier compilation; the meta data is written
\* before the payload that may fail.
CompileLoadUnit ==
  /\ pkKind = "unit" /\ Generating
  /\ Len(pkMeta) < 2 * MaxElements
  /\ LET out == FoldLeft(CopyContent, [cells |-> <<>>, thrown |-> FALSE], pkEntries)
     IN /\ pkMeta' = pkMeta \o pkEntries
        /\ pkOut' = [elements |-> pkMeta', meta |-> 0, cells |-> out.cells]
        /\ pkCompiled' = IF out.thrown THEN "thrown" ELSE "ok"
        /\ pkPacked' = [k \in DOMAIN pkMeta' |-> pkDisk[pkMeta'[k].path]]
  /\ UNCHANGED <<pkKind, pkDisk, pkEntries, pkNext, pkOffset, pkChanged, pkCut, readVars>>

\* The output loses its end on its way to the reader.
LoseEnd(n) ==
  /\ Generating /\ pkCompiled # "no" /\ n < Len(pkOut.cells)
  /\ pkOut' = [pkOut EXCEPT !.cells = SubSeq(@, 1, n)]
  /\ pkCut' = TRUE
  /\ UNCHANGED <<pkKind, pkDisk, pkEntries, pkNext, pkOffset, pkMeta, pkCompiled, pkChanged, pkPacked, readVars>>

(***************************************************************************)
(* Reading                                                                 *)
(***************************************************************************)

CallRead(t, n) ==
  /\ pkCompiled # "no" /\ pkReader[t].pc = "idle"
  /\ pkReader' = [pkReader EXCEPT ![t] = [pc |-> IF pkKind = "pack" THEN "source" ELSE "resolve", name |-> n]]
  /\ UNCHANGED <<genVars, pkSources>>

ReturnAnswer(t, answer) == pkReader' = [pkReader EXCEPT ![t] = [pc |-> "returned", name |-> pkReader[t].name, answer |-> answer]]

SourceFree(s) == pkSources[s].user = NobodyReads

\* get_source_stream: the first opened source that nobody holds ...
TakeSource(t, s) ==
  /\ pkReader[t].pc = "source"
  /\ SourceFree(s) /\ \A r \in 1 .. s - 1 : ~SourceFree(r)
  /\ pkSources' = [pkSources EXCEPT ![s].user = t]
  /\ pkReader' = [pkReader EXCEPT ![t] = [pc |-> "read", name |-> pkReader[t].name, source |-> s]]
  /\ UNCHANGED genVars

\* ... or a new one, which throws when the meta data is not all there.
OpenSource(t) ==
  /\ pkReader[t].pc = "source"
  /\ \A s \in DOMAIN pkSources : ~SourceFree(s)
  /\ IF Len(pkOut.cells) < pkOut.meta
     THEN ReturnAnswer(t, "null") /\ UNCHANGED pkSources
     ELSE /\ Len(pkSources) < MaxSources
          /\ pkSources' = Append(pkSources, [user |-> t, good |-> TRUE])
          /\ pkReader' = [pkReader EXCEPT ![t] = [pc |-> "read", name |-> pkReader[t].name, source |-> Len(pkSources) + 1]]
  /\ UNCHANGED genVars

Element(n) ==
  LET ks == {k \in DOMAIN pkOut.elements : pkOut.elements[k].name = n}
  IN IF ks = {} THEN 0 ELSE CHOOSE k \in ks : \A j \in ks : k <= j

StoredSize(e) == IF e.compressed = 0 THEN e.size ELSE e.compressed
ThereIs(e) == e.offset + StoredSize(e) <= Len(pkOut.cells)
StoredAt(e) == SubSeq(pkOut.cells, e.offset + 1, e.offset + StoredSize(e))

\* read_file. A stream that has been read past its end stays bad, and its source in the pool.
ReadElement(t) ==
  /\ pkReader[t].pc = "read"
  /\ LET s    == pkReader[t].source
         k    == Element(pkReader[t].name)
         e    == pkOut.elements[k]
         good == pkSources[s].good /\ ThereIs(e)
     IN IF k = 0
        THEN ReturnAnswer(t, "null") /\ pkSources' = [pkSources EXCEPT ![s].user = NobodyReads]
        ELSE /\ pkSources' = [pkSources EXCEPT ![s] = [user |-> NobodyReads, good |-> good]]
             /\ ReturnAnswer(t, IF ~good THEN "null"
                          ELSE IF e.compressed = 0 THEN StoredAt(e)
                          ELSE IF Len(Inflated(StoredAt(e))) # e.size THEN "null"
                          ELSE Inflated(StoredAt(e)))
  /\ UNCHANGED genVars

\* load_unit::resolve_asset and get_asset_content: a range of the payload that nothing compares with its size.
ResolveAsset(t) ==
  /\ pkReader[t].pc = "resolve"
  /\ LET k == Element(pkReader[t].name)
         e == pkOut.elements[k]
     IN ReturnAnswer(t, IF k = 0 THEN "null" ELSE IF ThereIs(e) THEN StoredAt(e) ELSE "outside")
  /\ UNCHANGED <<genVars, pkSources>>

Answered(t) ==
  /\ pkReader[t].pc = "returned"
  /\ pkReader' = [pkReader EXCEPT ![t] = Idle]
  /\ UNCHANGED <<genVars, pkSources>>

PackNext ==
  \/ \E p \in Paths, zip \in BOOLEAN : AddFile(p, zip)
  \/ \E p \in Paths, c \in Contents \cup {MissingFile} : ChangeFile(p, c)
  \/ CompilePackFile \/ CompileLoadUnit
  \/ LoseEnd(0) \/ (pkOut.cells # <<>> /\ LoseEnd(Len(pkOut.cells) - 1))
  \/ \E t \in PackReaders :
       \/ \E n \in Paths : CallRead(t, n)
       \/ \E s \in DOMAIN pkSources : TakeSource(t, s)
       \/ OpenSource(t) \/ ReadElement(t) \/ ResolveAsset(t) \/ Answered(t)

(***************************************************************************)
(* Properties                                                              *)
(***************************************************************************)

PackTypeOK ==
  /\ pkOffset <= pkNext
  /\ \A k \in DOMAIN pkEntries : pkEntries[k].offset >= pkOffset
  /\ \A t \in PackReaders : pkReader[t].pc = "read" => pkReader[t].source \in DOMAIN pkSources

\* An element is added, a compilation repeated, whatever came before: a compilation fails only because a
\* file is not what it was when it was added.
CompilesUnlessChanged == pkCompiled = "thrown" => pkChanged

\* The elements do not overlap, and those of a pack lie behind the meta data.
ElementsApart ==
  \A j, k \in DOMAIN pkOut.elements :
    LET a == pkOut.elements[j]  b == pkOut.elements[k]
    IN /\ a.offset >= pkOut.meta
       /\ a.path # b.path /\ a.offset < b.offset => a.offset + StoredSize(a) <= b.offset

\* Whoever reads an element of an output that was compiled without an error gets what the file held
\* then, compressed or not; with its end lost a pack answers null instead.
ReadsWhatWasPacked ==
  \A t \in PackReaders : pkReader[t].pc = "returned" /\ pkCompiled = "ok" =>
    LET k == Element(pkReader[t].name)
    IN \/ pkReader[t].answer = "null" /\ (k = 0 \/ pkCut)
       \/ pkReader[t].answer = "outside" /\ pkCut /\ pkKind = "unit"
       \/ k # 0 /\ pkReader[t].answer = Cells(pkPacked[k])

\* A source is read by the one who holds it.
SourcesHeld ==
  \A t \in PackReaders : pkReader[t].pc = "read" => pkSources[pkReader[t].source].user = t

PackSafe == PackTypeOK /\ CompilesUnlessChanged /\ ElementsApart /\ ReadsWhatWasPacked /\ SourcesHeld

(***************************************************************************)
(* bstream: values written to and read from a binary stream with positions *)
(* and error flags. A number is LengthBytes digits wide, the lowest first, *)
(* an array two elements of one byte, a list (std::vector, std::string) a  *)
(* number for its length and elements of one byte. A "vector" is read and  *)
(* written, a "file" (a std::iostream with a position for each direction)  *)
(* too until a short access blocks it, a "buffer" and an "asset" are read  *)
(* only.                                                                   *)
(***************************************************************************)

CONSTANTS Base, LengthBytes, MaxStored, MaxReserve, StreamKinds

ASSUME StreamsAssumption ==
  /\ Base \in Nat \ {0, 1} /\ LengthBytes \in Nat \ {0} /\ {MaxStored, MaxReserve} \subseteq Nat
  /\ StreamKinds \subseteq {"vector", "file", "buffer", "asset"}

VARIABLES
  stKind, stData,
  stRead, stWrite,       \* positions
  stEof, stWriteEof,     \* eof_ of ibstream and obstream
  stBlocked,             \* the file's failbit, or an asset that is not ready
  stPlaced,              \* what lies where: [kind, value, from, upto]
  stGap,                 \* somebody sought a write position past the end
  stGot                  \* what a read has just returned

streamVars == <<stKind, stData, stRead, stWrite, stEof, stWriteEof, stBlocked, stPlaced, stGap, stGot>>

Byte == 0 .. Base - 1
Nothing2 == [kind |-> "none", value |-> <<>>, from |-> 0]

Least(a, b) == IF a < b THEN a ELSE b
Digits(n) == [i \in 1 .. LengthBytes |-> (n \div Base ^ (i - 1)) % Base]
NumberOf(bytes) == FoldRight(LAMBDA b, n : b + Base * n, bytes, 0)
Pieces(kind, value) ==
  CASE kind = "number" -> <<Digits(value)>>
    [] kind = "array"  -> [i \in DOMAIN value |-> <<value[i]>>]
    [] kind = "list"   -> <<Digits(Len(value))>> \o [i \in DOMAIN value |-> <<value[i]>>]

StreamInit ==
  /\ stKind \in StreamKinds
  /\ \/ stKind \in {"vector", "file"} /\ stData = <<>> /\ stPlaced = {}
     \/ /\ stKind \in {"buffer", "asset"}
        /\ \E list \in {<<1>>, <<1, 0>>} :
             LET whole == FlattenSeq(Pieces("list", list))
             IN \E n \in 0 .. Len(whole) :
                  /\ stData = SubSeq(whole, 1, n)
                  /\ stPlaced = IF n = Len(whole) THEN {[kind |-> "list", value |-> list, from |-> 0, upto |-> n]} ELSE {}
  /\ stRead = 0 /\ stWrite = 0 /\ stEof = FALSE /\ stWriteEof = FALSE
  /\ stBlocked = (stKind = "asset")
  /\ stGap = FALSE /\ stGot = Nothing2

(***************************************************************************)
(* Writing                                                                 *)
(***************************************************************************)

\* vector_iobstream overwrites up to the end and pushes the rest back. When the storage ends the
\* position returns, but what has been pushed stays.
PutInVector(s, bytes) ==
  LET over == Least(Len(bytes), IF s.pos < Len(s.data) THEN Len(s.data) - s.pos ELSE 0)
      room == Least(Len(bytes) - over, MaxStored - Len(s.data))
      kept == [i \in DOMAIN s.data |-> IF i \in s.pos + 1 .. s.pos + over THEN bytes[i - s.pos] ELSE s.data[i]]
  IN [data    |-> kept \o SubSeq(bytes, over + 1, over + room),
      pos     |-> IF over + room = Len(bytes) THEN s.pos + Len(bytes) ELSE s.pos,
      eof     |-> s.eof \/ over + room < Len(bytes),
      blocked |-> s.blocked]

\* A file takes what fits and then refuses everything.
PutInFile(s, bytes) ==
  LET room == IF s.blocked THEN 0 ELSE Least(Len(bytes), MaxStored - s.pos)
  IN [data    |-> [i \in 1 .. (IF s.pos + room > Len(s.data) THEN s.pos + room ELSE Len(s.data)) |->
                     IF i \in s.pos + 1 .. s.pos + room THEN bytes[i - s.pos] ELSE s.data[i]],
      pos     |-> s.pos + room,
      eof     |-> s.eof \/ room < Len(bytes),
      blocked |-> s.blocked \/ room < Len(bytes)]

WriteBytes(s, bytes) == IF stKind = "vector" THEN PutInVector(s, bytes) ELSE PutInFile(s, bytes)

\* An array stops at an error. A list goes on: the elements after one that was lost move up.
WritePieces(kind, value) ==
  FoldLeft(LAMBDA s, piece : IF kind = "array" /\ s.eof THEN s ELSE WriteBytes(s, piece),
           [data |-> stData, pos |-> stWrite, eof |-> stWriteEof, blocked |-> stBlocked], Pieces(kind, value))

Overlaps(p, from, upto) == p.from < upto /\ from < p.upto

Write(kind, value) ==
  /\ stKind \in {"vector", "file"}
  /\ LET s == WritePieces(kind, value)
     IN /\ stData' = s.data /\ stWrite' = s.pos /\ stWriteEof' = s.eof /\ stBlocked' = s.blocked
        /\ stPlaced' = {p \in stPlaced : ~Overlaps(p, stWrite, s.pos) /\ ~s.eof}
                         \cup IF s.eof THEN {} ELSE {[kind |-> kind, value |-> value, from |-> stWrite, upto |-> s.pos]}
  /\ stGot' = Nothing2
  /\ UNCHANGED <<stKind, stRead, stEof, stGap>>

\* Nothing keeps the position of a vector inside it: what is written there lands at the end, before the position.
SeekWrite(p) ==
  /\ stKind = "vector" \/ (stKind = "file" /\ ~stBlocked /\ p <= Len(stData))
  /\ stWrite' = p /\ stGap' = (stGap \/ p > Len(stData))
  /\ stGot' = Nothing2
  /\ UNCHANGED <<stKind, stData, stRead, stEof, stWriteEof, stBlocked, stPlaced>>

ClearWriteErrors ==
  /\ stWriteEof
  /\ stWriteEof' = FALSE
  /\ stGot' = Nothing2
  /\ UNCHANGED <<stKind, stData, stRead, stWrite, stEof, stBlocked, stPlaced, stGap>>

(***************************************************************************)
(* Reading                                                                 *)
(***************************************************************************)

Available(pos) == IF stBlocked \/ pos >= Len(stData) THEN 0 ELSE Len(stData) - pos

MutantReadBytes(pos, count) ==
  LET n == Least(count, Available(pos))
  IN [bytes |-> SubSeq(stData, pos + 1, pos + n), pos |-> pos + n, short |-> n < count /\ n = 0]

ReadBytes(pos, count) ==
  LET n == Least(count, Available(pos))
  IN [bytes |-> SubSeq(stData, pos + 1, pos + n), pos |-> pos + n, short |-> n < count]

\* What a read leaves in the variable: the bytes it got over those that were there.
Over(r, old) == r.bytes \o SubSeq(old, Len(r.bytes) + 1, Len(old))

ReadNumber(pos) ==
  LET r == ReadBytes(pos, LengthBytes)
  IN [value |-> NumberOf(Over(r, Digits(0))), pos |-> r.pos, short |-> r.short, throws |-> FALSE]

ReadArray(pos, size, old) ==
  LET r == ReadBytes(pos, size)
  IN [value |-> Over(r, old), pos |-> r.pos, short |-> r.short, throws |-> FALSE]

\* The length, then so many elements, whether the stream has them or not: past the end the last one is
\* repeated, which is not set at all (any byte) when there is none.
ReadList(pos, old) ==
  LET length == ReadNumber(pos)
      r      == ReadBytes(length.pos, length.value)
      last   == IF r.bytes = <<>> THEN old ELSE Last(r.bytes)
  IN IF length.value > MaxReserve
     THEN [value |-> <<>>, pos |-> length.pos, short |-> length.short, throws |-> TRUE]
     ELSE [value |-> Over(r, [i \in 1 .. length.value |-> last]), pos |-> r.pos,
           short |-> length.short \/ r.short, throws |-> FALSE]

Decoded(kind, pos, old) ==
  CASE kind = "number" -> ReadNumber(pos)
    [] kind = "array"  -> ReadArray(pos, 2, <<old, old>>)
    [] kind = "list"   -> ReadList(pos, old)

\* A list that is longer than any vector raises the flag; one that there is no memory for throws.
Read(kind) ==
  /\ ~(kind = "array" /\ stEof)
  /\ \E old \in Byte :
       LET r == Decoded(kind, stRead, old)
       IN /\ stRead' = r.pos
          /\ stEof' \in IF r.throws THEN {stEof \/ r.short, TRUE} ELSE {stEof \/ r.short}
          /\ stBlocked' = (stBlocked \/ (stKind = "file" /\ r.short))
          /\ stGot' = IF r.throws THEN Nothing2 ELSE [kind |-> kind, value |-> r.value, from |-> stRead]
  /\ UNCHANGED <<stKind, stData, stWrite, stWriteEof, stPlaced, stGap>>

\* A buffer and an asset refuse a position outside (they throw), a vector takes any.
SeekRead(p) ==
  /\ stKind = "vector" \/ (~stBlocked /\ p <= Len(stData))
  /\ stRead' = p
  /\ stGot' = Nothing2
  /\ UNCHANGED <<stKind, stData, stWrite, stEof, stWriteEof, stBlocked, stPlaced, stGap>>

\* The flags of the stream, not those of the file below it.
ClearReadErrors ==
  /\ stEof
  /\ stEof' = FALSE /\ stGot' = Nothing2
  /\ UNCHANGED <<stKind, stData, stRead, stWrite, stWriteEof, stBlocked, stPlaced, stGap>>

AssetBecomesReady ==
  /\ stKind = "asset" /\ stBlocked
  /\ stBlocked' = FALSE
  /\ stGot' = Nothing2
  /\ UNCHANGED <<stKind, stData, stRead, stWrite, stEof, stWriteEof, stPlaced, stGap>>

StreamNext ==
  \/ Write("number", Base)
  \/ Write("array", <<1, 0>>)
  \/ \E list \in {<<>>, <<1, 0>>} : Write("list", list)
  \/ \E kind \in {"number", "array", "list"} : Read(kind)
  \/ \E p \in 0 .. Len(stData) + 1 : SeekWrite(p) \/ SeekRead(p)
  \/ ClearWriteErrors \/ ClearReadErrors \/ AssetBecomesReady

(***************************************************************************)
(* Properties                                                              *)
(***************************************************************************)

StreamTypeOK ==
  /\ stData \in Seq(Byte) /\ Len(stData) <= MaxStored
  /\ stKind \in {"buffer", "asset"} => stRead <= Len(stData)
  /\ ~stGap => stWrite <= Len(stData)

\* What has been written without an error, at positions inside the stream, is what a reader of the same
\* types gets from there, and it gets it without an error.
PlacedIsReadable ==
  ~stGap /\ ~stBlocked => \A p \in stPlaced, old \in Byte :
    LET r == Decoded(p.kind, p.from, old)
    IN r.value = p.value /\ r.pos = p.upto /\ ~r.short

\* A read that has left the stream without errors got all its bytes from the stream.
NoSilentTruncation ==
  stGot.kind # "none" /\ ~stEof =>
    LET bytes == FlattenSeq(Pieces(stGot.kind, stGot.value))
    IN /\ stGot.from + Len(bytes) <= Len(stData)
       /\ SubSeq(stData, stGot.from + 1, stGot.from + Len(bytes)) = bytes

StreamsSafe == StreamTypeOK /\ PlacedIsReadable /\ NoSilentTruncation

\* What is written to files and streams is what is read from them, or an error is told.
FilesSafe == StreamsSafe /\ PackSafe
=============================================================================
