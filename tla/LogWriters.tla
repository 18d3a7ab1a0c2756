----------------------------- MODULE LogWriters -----------------------------
(* The lines of NanoLogger and its writers: how LogLine lays the arguments of a *)
(* log out in its buffer and reads them back, and the files into which          *)
(* NgLogFileWriter, NgLogMultiFileWriter and NgLogMapWriter write the lines.    *)
(* NanoLogger has the queue and the thread between them.                        *)
EXTENDS Integers, Sequences, FiniteSets, SequencesExt

CONSTANTS StackSize,       \* bytes of stack_buffer_ beyond the head of the line
          HeapSize,        \* DEFAULT_STACK_BUFFER_SIZE, beyond the head
          Levels9,         \* the levels of m_log_level
          FuncBytes,       \* what byte 36 of a line can be, of the pointer to the function's name
          FileMax,         \* log_file_max_size_
          LineSizes,       \* sizes of lines
          Keys,            \* the keys registered with NgLogMapWriter
          MaxLines,        \* bound on the lines that are logged
          MaxDays, MaxLives,  \* bounds on the days and on the starts of the program
          MaxOpens         \* bound on the files of a part before Initialize

ASSUME LogAssumption == LineSizes \subseteq Nat /\ FileMax \in Nat /\ StackSize \in Nat /\ HeapSize \in Nat

VARIABLES disk,      \* the files, by name: the lines in each
          writer,    \* the writer: which it is, and for each of its files its state
          logged     \* all lines, in order: [level, key, life, size, file]

logVars == <<disk, writer, logged>>

-----------------------------------------------------------------------------
(* LogLine *)

\* The fields of the head, as Encode0 writes them, and their sizes.
Head0 == <<<<"timestamp", 8>>, <<"process", 8>>, <<"thread", 8>>, <<"file", 8>>,
           <<"func", 8>>, <<"line", 4>>, <<"level", 1>>>>

Offset(k) == FoldLeft(LAMBDA a, f : a + f[2], 0, SubSeq(Head0, 1, k - 1))

\* get_level adds up the fields before the level but for the process.
LevelOffset == 8 + 8 + 8 + 8 + 4

\* What lies there.
FieldAt(offset) == CHOOSE k \in DOMAIN Head0 : Offset(k) <= offset /\ offset < Offset(k) + Head0[k][2]

get_level(level) == IF Head0[FieldAt(LevelOffset)][1] = "level" THEN level ELSE writer.func

\* SupportedTypes: the sizes of the numbers in the tuple; Str is the place of char*.
SizeOf == <<1, 1, 1, 4, 8, 4, 8, 8, 4, 2, 2>>
Str == 12

NewLine == [size |-> StackSize, bytes |-> <<>>, heap |-> FALSE]

\* Without a look at what is needed.
ResizeToDouble(l, n) ==
    IF Len(l.bytes) + n <= l.size THEN l
    ELSE [l EXCEPT !.heap = TRUE, !.size = IF l.heap THEN 2 * @ ELSE HeapSize]

\* ResizeBuffer: to the heap, then twice as much each time or as much as is needed.
ResizeBuffer(l, n) ==
    LET req == Len(l.bytes) + n
        larger == IF l.heap THEN 2 * l.size ELSE HeapSize
    IN  IF req <= l.size THEN l
        ELSE [l EXCEPT !.heap = TRUE, !.size = IF larger > req THEN larger ELSE req]

\* operator<<: the place of the type and the value, or the characters and a zero.  A null
\* pointer and an empty string leave nothing.
Encode(l, arg) ==
    IF arg.type = Str
    THEN IF arg.chars = <<>> THEN l
         ELSE [ResizeBuffer(l, Len(arg.chars) + 2) EXCEPT !.bytes = @ \o <<Str>> \o arg.chars \o <<0>>]
    ELSE [ResizeBuffer(l, SizeOf[arg.type] + 1) EXCEPT
             !.bytes = @ \o <<arg.type>> \o [k \in 1 .. SizeOf[arg.type] |-> arg.chars[1]]]

\* The last byte of the argument that begins at a place: the zero of its characters, or the
\* last of its number.
LastOf(bytes, at) ==
    IF bytes[at] = Str
    THEN CHOOSE k \in at + 1 .. Len(bytes) : bytes[k] = 0 /\ \A i \in at + 1 .. k - 1 : bytes[i] # 0
    ELSE at + SizeOf[bytes[at]]

\* What it says.
Read(bytes, at) == IF bytes[at] = Str THEN SubSeq(bytes, at + 1, LastOf(bytes, at) - 1) ELSE <<bytes[at + 1]>>

\* Decode, from the place at which an argument begins to the end.
Decode(bytes) ==
    LET from[at \in 1 .. Len(bytes) + 1] ==
            IF at <= Len(bytes) /\ LastOf(bytes, at) \in at .. Len(bytes)
            THEN <<Read(bytes, at)>> \o from[LastOf(bytes, at) + 1] ELSE <<>>
    IN  from[1]

-----------------------------------------------------------------------------
(* The writers *)

\* NgLogMultiFileWriter has a file writer for every level, NgLogMapWriter one for a key.
Parts(kind) == CASE kind = "file" -> {"log"} [] kind = "multi" -> Levels9 [] kind = "map" -> Keys

\* RollFile: a file named for the day and the next number is opened and emptied; of all
\* the parts in ps.
RollFile(w, ps) ==
    LET name(p) == <<p, w.day, w.number[p]>>
    IN  [w EXCEPT !.number = [p \in DOMAIN @ |-> IF p \in ps THEN @[p] + 1 ELSE @[p]],
                  !.bytes = [p \in DOMAIN @ |-> IF p \in ps THEN 0 ELSE @[p]],
                  !.open = [p \in DOMAIN @ |-> IF p \in ps THEN name(p) ELSE @[p]],
                  !.opened = @ \cup {<<w.life, name(p)>> : p \in ps}]

Emptied(files, names) == [n \in DOMAIN files \cup names |-> IF n \in names THEN <<>> ELSE files[n]]

Fresh(kind, func) ==
    [kind |-> kind, func |-> func, opened |-> {}, number |-> [p \in Parts(kind) |-> 0], bytes |-> [p \in Parts(kind) |-> 0],
     open |-> [p \in Parts(kind) |-> <<>>], day |-> 1, life |-> 1, ready |-> FALSE]

LogInit ==
    /\ \E kind \in {"file", "multi", "map"}, func \in FuncBytes :
          /\ kind # "multi" => func = CHOOSE f \in FuncBytes : TRUE
          /\ writer = Fresh(kind, func)
    /\ disk = <<>> /\ logged = <<>>

\* Initialize rolls the file of every part.
InitializeWriter ==
    LET rolled == RollFile([writer EXCEPT !.ready = TRUE], Parts(writer.kind))
    IN  /\ ~writer.ready /\ \A p \in Parts(writer.kind) : writer.number[p] < MaxOpens
        /\ writer' = rolled
        /\ disk' = Emptied(disk, {rolled.open[p] : p \in Parts(writer.kind)})
        /\ UNCHANGED logged

\* The part that writes a line: that of the level get_level reads, of the line's key.
PartOf(level, key) ==
    CASE writer.kind = "file" -> "log" [] writer.kind = "multi" -> get_level(level) [] writer.kind = "map" -> key

\* Write: the line goes into the open file, which is rolled once it is too large.
Write(level, key, size) ==
    LET p == PartOf(level, key)
        known == p \in Parts(writer.kind)
        w == IF known THEN [writer EXCEPT !.bytes[p] = @ + size] ELSE writer
        rolls == known /\ w.bytes[p] > FileMax
        line == [level |-> level, key |-> key, life |-> writer.life, size |-> size,
                 file |-> IF known THEN writer.open[p] ELSE <<>>]
        n == Len(logged) + 1
        with == IF known THEN [disk EXCEPT ![writer.open[p]] = Append(@, n)] ELSE disk
    IN  /\ writer.ready /\ Len(logged) < MaxLines
        /\ logged' = Append(logged, line)
        /\ writer' = IF rolls THEN RollFile(w, {p}) ELSE w
        /\ disk' = IF rolls THEN Emptied(with, {writer'.open[p]}) ELSE with

\* Release closes the files; Initialize goes on with the next number.
ReleaseWriter ==
    /\ writer.ready
    /\ writer' = [writer EXCEPT !.ready = FALSE, !.open = [p \in Parts(writer.kind) |-> <<>>]]
    /\ UNCHANGED <<disk, logged>>

NextDay ==
    /\ writer.day < MaxDays
    /\ writer' = [writer EXCEPT !.day = @ + 1]
    /\ UNCHANGED <<disk, logged>>

\* The program ends or is killed and is started again; a line that was written is flushed.
StartAgain ==
    /\ writer.life < MaxLives
    /\ writer' = [Fresh(writer.kind, writer.func) EXCEPT
                    !.day = writer.day, !.life = writer.life + 1, !.opened = writer.opened]
    /\ UNCHANGED <<disk, logged>>

LogNext ==
    \/ InitializeWriter \/ ReleaseWriter \/ NextDay \/ StartAgain
    \/ \E level \in {4, 7}, key \in Keys \cup {"unregistered"}, size \in LineSizes :
          /\ writer.kind # "multi" => level = 4
          /\ writer.kind # "map" => key = "unregistered"
          /\ Write(level, key, size)

-----------------------------------------------------------------------------
(* Properties *)

Args == {[type |-> Str, chars |-> <<>>], [type |-> Str, chars |-> <<5>>],
         [type |-> Str, chars |-> <<5, 6, 7>>], [type |-> 1, chars |-> <<0>>],
         [type |-> 4, chars |-> <<8>>], [type |-> 5, chars |-> <<9>>]}

\* What is put into a line is what it says, whatever its types and however often the
\* buffer was enlarged, and it is never larger than the buffer.
LinesSay ==
    \A args \in UNION {[1 .. n -> Args] : n \in 0 .. 3} :
        LET l == FoldLeft(Encode, NewLine, args)
            said == FlattenSeq([k \in DOMAIN args |-> IF args[k].chars = <<>> THEN <<>> ELSE <<args[k].chars>>])
        IN  /\ Decode(l.bytes) = said
            /\ Len(l.bytes) <= l.size

\* A line that was written stays in its file, which holds its lines in order, unless the
\* program was started again on the same day: its files have the names of those before.
\* In one life no name is opened twice.  Lines are not written when get_level reads no
\* level, which is not theirs anyway, or their key is not registered.
LinesStay ==
    /\ \A k \in DOMAIN logged :
          LET f == logged[k].file
          IN  f # <<>> => \/ k \in ToSet(disk[f])
                          \/ \E o \in writer.opened : o[1] > logged[k].life /\ o[2] = f
    /\ \A f \in DOMAIN disk : \A i \in 1 .. Len(disk[f]) - 1 : disk[f][i] < disk[f][i + 1]

\* In one life the files of a part are filled one after another, and each takes lines until
\* one has made it too large.
FilesInOrder ==
    \A j, k \in DOMAIN logged :
        LET f == logged[j].file
            g == logged[k].file
        IN  j < k /\ logged[j].life = logged[k].life /\ f # <<>> /\ g # <<>> /\ f[1] = g[1] =>
                /\ f[3] <= g[3]
                /\ f = g => logged[j].size <= FileMax

-----------------------------------------------------------------------------
(* What the two invariants above rest on (an inductive invariant, in parts).    *)

FileName == Parts(writer.kind) \X Nat \X Nat

LogTypeOK ==
    LET ps == Parts(writer.kind)
    IN  /\ writer \in [kind : {"file", "multi", "map"}, func : FuncBytes, opened : SUBSET (Nat \X FileName),
                       number : [ps -> Nat], bytes : [ps -> Nat], open : [ps -> FileName \cup {<<>>}],
                       day : Nat, life : Nat, ready : BOOLEAN]
        /\ DOMAIN disk \subseteq FileName
        /\ \A f \in DOMAIN disk : disk[f] \in Seq(1 .. Len(logged))
        /\ logged \in Seq([level : {4, 7}, key : Keys \cup {"unregistered"}, life : Nat, size : LineSizes,
                            file : FileName \cup {<<>>}])

\* The open files are the last of their parts.
OpenLast ==
    writer.ready => \A p \in Parts(writer.kind) :
        LET f == writer.open[p]
        IN  f \in FileName /\ f[1] = p /\ f[3] + 1 = writer.number[p] /\ f \in DOMAIN disk /\ <<writer.life, f>> \in writer.opened

\* What has been opened, in this life with a number that is not beyond the last.
OpenedBefore ==
    \A o \in writer.opened :
        /\ o[1] <= writer.life
        /\ o[1] = writer.life => o[2][1] \in Parts(writer.kind) /\ o[2][3] < writer.number[o[2][1]]

\* A line's file was opened in the line's life and is there; the open one has room for every line in it.
LinesOpened ==
    \A k \in DOMAIN logged :
        LET f == logged[k].file
        IN  f # <<>> => /\ <<logged[k].life, f>> \in writer.opened /\ f \in DOMAIN disk
                        /\ logged[k].life = writer.life /\ writer.ready /\ f = writer.open[f[1]] =>
                               logged[k].size <= FileMax

LogIInv == LogTypeOK /\ OpenLast /\ OpenedBefore /\ LinesOpened /\ LinesStay /\ FilesInOrder
=============================================================================
