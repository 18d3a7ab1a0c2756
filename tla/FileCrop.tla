------------------------------ MODULE FileCrop ------------------------------
(* The program fileCrop: of the files of a directory that match the codes and   *)
(* dates it copies columns.  It cuts a file into parts for the thread pool of   *)
(* libuv and writes what the tasks give back in the order in which they end.    *)
(* A file is a sequence of lines and a line a sequence of cells, of which only  *)
(* the widths matter; a width counts the delimiter or the end of the line.      *)
EXTENDS Integers, Sequences, FiniteSets, SequencesExt

CONSTANTS Directory,    \* the files: [code, date, lines, ended], whether the last line is
          TaskCounts,   \* TASKCOUNTS
          PoolSize,     \* threads of the pool
          CropJobs,     \* the command lines: [codes, dates, cols, oneZip], {} for "*"
          CropFaults    \* bound on the files that cannot be opened

\* A line has a cell, and every cell its delimiter or an end.
Line == Seq(Nat \ {0}) \ {<<>>}
ASSUME CropAssumption ==
    /\ IsFiniteSet(DOMAIN Directory) /\ TaskCounts \in Nat \ {0}
    /\ \A n \in DOMAIN Directory : Directory[n].lines \in Seq(Line) /\ Directory[n].ended \in BOOLEAN
    /\ \A j \in CropJobs : j.cols \in Seq(Int \X Int)

VARIABLES job,      \* the command line
          crop,     \* the program: pc, the files left, the parts of the file it is at
          pool,     \* the thread pool: tasks that wait, run and have ended
          written   \* the files it has written, and those that are zipped

cropVars == <<job, crop, pool, written>>

-----------------------------------------------------------------------------
(* Selection and separation *)

\* GetDateCondition: "a" is "a-a".
Within(date, ranges) == \E r \in ranges : r[1] <= date /\ date <= r[2]

\* The files of GetAllFileNamesInPath that are cropped.
Selected(f, j) ==
    /\ j.codes # {} => f.code \in j.codes
    /\ j.dates # {} => Within(f.date, j.dates)

Total(sizes) == FoldLeft(LAMBDA a, w : a + w, 0, sizes)
LineSize(line) == Total(line)

\* Where the first k lines end.
EndOf(lines, k) == Total([j \in 1 .. k |-> LineSize(lines[j])])

\* SeparateFile: a part goes to the first end of a line that is a quarter of the file on.
\* Without one it looks for it again and again.
SeparateFile(f) ==
    LET n == Len(f.lines)
        size == EndOf(f.lines, n)
        step == size \div TaskCounts
        hasEnd(k) == k < n \/ f.ended
        part[k \in 0 .. n] ==
            LET from == EndOf(f.lines, k)
                ends == {j \in k + 1 .. n : hasEnd(j) /\ EndOf(f.lines, j) > from + step}
                to == CHOOSE j \in ends : \A i \in ends : j <= i
            IN  IF from + step < size
                THEN IF ends = {} THEN <<"none">> ELSE <<<<k + 1, to>>>> \o part[to]
                ELSE IF from < size THEN <<<<k + 1, n>>>> ELSE <<>>
    IN  part[0]

-----------------------------------------------------------------------------
(* Tasks *)

\* ColTask: the columns a to b of every condition; the last column cannot be named, and
\* with a condition that does not fit the whole line is copied and the rest left out.
CropLine(line, cols) ==
    LET n == Len(line)
        fits(c) == 1 <= c[1] /\ c[1] <= c[2] /\ c[2] < n
        good == {k \in 0 .. Len(cols) : \A i \in 1 .. k : fits(cols[i])}
        most == CHOOSE k \in good : \A i \in good : i <= k
        picked == FlattenSeq([k \in 1 .. most |-> [i \in 1 .. cols[k][2] - cols[k][1] + 1 |-> cols[k][1] + i - 1]])
    IN  IF most = Len(cols) THEN picked ELSE picked \o [i \in 1 .. n |-> i]

Copied(line, cols) ==
    LET cells == CropLine(line, cols) IN Total([i \in DOMAIN cells |-> line[cells[i]]])

\* Run of a ColTask: a line without an end is left out.
ColTask(f, part, cols) ==
    LET last == IF part[2] = Len(f.lines) /\ ~f.ended THEN part[2] - 1 ELSE part[2]
    IN  [k \in 1 .. last - part[1] + 1 |->
            [line |-> part[1] + k - 1, cols |-> CropLine(f.lines[part[1] + k - 1], cols)]]

\* The buffer is as large as the part.
Fits(f, part, cols) ==
    Total([i \in 1 .. part[2] - part[1] + 1 |-> Copied(f.lines[part[1] + i - 1], cols)])
        <= EndOf(f.lines, part[2]) - EndOf(f.lines, part[1] - 1)

\* CodeTask and DateTask, of lines whose cells have contents: the last cell of a line is
\* not looked at; a date is a cell of eight characters.
CodeTask(cells, codes) == \E k \in 1 .. Len(cells) - 1 : cells[k].text \in codes
DateTask(cells, from, to) ==
    \E k \in 1 .. Len(cells) - 1 : cells[k].len = 8 /\ from <= cells[k].num /\ cells[k].num <= to

-----------------------------------------------------------------------------
(* The program *)

NoPool == [waiting |-> <<>>, running |-> {}, ended |-> <<>>, results |-> <<>>]

CropInit ==
    /\ job \in CropJobs
    /\ \E left \in SetToSeqs({n \in DOMAIN Directory : Selected(Directory[n], job)}) :
          crop = [pc |-> "files", faults |-> 0, parts |-> <<>>, left |-> left]
    /\ pool = NoPool
    /\ written = [out |-> [n \in DOMAIN Directory |-> <<>>], names |-> <<>>, zip |-> <<>>]

\* The file cannot be opened or, when it is empty, not be mapped: the program returns,
\* and what it has written is not zipped.
OpenFails ==
    LET f == Directory[Head(crop.left)]
    IN  /\ crop.pc = "files" /\ crop.left # <<>>
        /\ f.lines = <<>> \/ crop.faults < CropFaults
        /\ crop' = [crop EXCEPT !.pc = "failed", !.faults = @ + 1]
        /\ UNCHANGED <<job, pool, written>>

\* A file is mapped, separated, and every part dispatched.
OpenFile ==
    LET f == Directory[Head(crop.left)]
        parts == SeparateFile(f)
    IN  /\ crop.pc = "files" /\ crop.left # <<>> /\ f.lines # <<>>
        /\ IF Last(parts) = "none"
           THEN crop' = [crop EXCEPT !.pc = "searching"] /\ UNCHANGED pool
           ELSE /\ crop' = [crop EXCEPT !.pc = "uv_run", !.parts = parts]
                /\ pool' = [NoPool EXCEPT !.waiting = [k \in DOMAIN parts |-> k]]
        /\ UNCHANGED <<job, written>>

\* startWork on a thread of the pool, which takes the tasks in order.
StartWork ==
    /\ pool.waiting # <<>> /\ Cardinality(pool.running) < PoolSize
    /\ pool' = [pool EXCEPT !.waiting = Tail(@), !.running = @ \cup {Head(pool.waiting)}]
    /\ UNCHANGED <<job, crop, written>>

EndWork(k) ==
    /\ k \in pool.running
    /\ pool' = [pool EXCEPT !.running = @ \ {k}, !.ended = Append(@, k)]
    /\ UNCHANGED <<job, crop, written>>

\* afterWork on the loop's thread.
AfterWork ==
    /\ pool.ended # <<>>
    /\ pool' = [pool EXCEPT !.ended = Tail(@), !.results = Append(@, Head(pool.ended))]
    /\ UNCHANGED <<job, crop, written>>

\* uv_run returns when no task is left, and the results are written one after another.
WriteFile ==
    LET n == Head(crop.left)
        done == pool.results
        of(k) == ColTask(Directory[n], crop.parts[k], job.cols)
    IN  /\ crop.pc = "uv_run" /\ Len(done) = Len(crop.parts)
        /\ written' = [written EXCEPT !.out[n] = FlattenSeq([i \in DOMAIN done |-> of(done[i])]),
                                      !.names = Append(@, n)]
        /\ pool' = NoPool
        /\ crop' = [crop EXCEPT !.pc = "files", !.left = Tail(@), !.parts = <<>>]
        /\ UNCHANGED job

\* Everything into one zip, or every file into its own.
ZipFiles ==
    /\ crop.pc = "files" /\ crop.left = <<>>
    /\ crop' = [crop EXCEPT !.pc = IF written.names = <<>> THEN "failed" ELSE "done"]
    /\ written' = [written EXCEPT !.zip = IF job.oneZip /\ written.names # <<>> THEN <<written.names>>
                                          ELSE [k \in DOMAIN written.names |-> <<written.names[k]>>]]
    /\ UNCHANGED <<job, pool>>

CropNext ==
    \/ OpenFails \/ OpenFile \/ StartWork \/ AfterWork \/ WriteFile \/ ZipFiles
    \/ \E k \in DOMAIN crop.parts : EndWork(k)

CropFairness == WF_cropVars(CropNext)

-----------------------------------------------------------------------------
(* Properties *)

Lines(f) == IF f.ended THEN Len(f.lines) ELSE Len(f.lines) - 1

\* The parts of a file are the file, in order, and no part is empty.
PartsWhole ==
    crop.parts # <<>> =>
        LET n == Len(Directory[Head(crop.left)].lines)
        IN  /\ crop.parts[1][1] = 1 /\ Last(crop.parts)[2] = n
            /\ \A k \in 1 .. Len(crop.parts) - 1 : crop.parts[k][2] + 1 = crop.parts[k + 1][1]
            /\ \A k \in DOMAIN crop.parts : crop.parts[k][1] <= crop.parts[k][2]

\* Whatever the order in which the tasks end, a file that was written has every line of
\* its own that has an end, once, and no other.  In order they are only when the tasks
\* end in order.
EveryLineOnce ==
    \A k \in DOMAIN written.names :
        LET n == written.names[k]
            out == written.out[n]
        IN  /\ Len(out) = Lines(Directory[n])
            /\ {out[i].line : i \in DOMAIN out} = 1 .. Lines(Directory[n])

\* What a task copies fits its buffer when the conditions name columns, from left to right,
\* and every line has a column beyond them.
BuffersSuffice ==
    LET cols == job.cols
        apart == /\ \A i \in DOMAIN cols : 1 <= cols[i][1] /\ cols[i][1] <= cols[i][2]
                 /\ \A i, j \in DOMAIN cols : i < j => cols[i][2] < cols[j][1]
        wide(f) == \A i \in DOMAIN f.lines, j \in DOMAIN cols : cols[j][2] < Len(f.lines[i])
        f == Directory[Head(crop.left)]
    IN  crop.parts # <<>> /\ apart /\ wide(f) => \A k \in DOMAIN crop.parts : Fits(f, crop.parts[k], cols)

\* A line is kept by CodeTask and DateTask for what is in it, its last cell left aside.
Cells == {[text |-> "a", len |-> 1, num |-> 0], [text |-> "b", len |-> 8, num |-> 5],
          [text |-> "c", len |-> 7, num |-> 5]}
TasksKeep ==
    \A cells \in UNION {[1 .. n -> Cells] : n \in 1 .. 3}, cell \in Cells :
        LET more == Append(cells, cell)
        IN  /\ CodeTask(more, {"a"}) <=> [text |-> "a", len |-> 1, num |-> 0] \in ToSet(cells)
            /\ DateTask(more, 4, 6) <=> [text |-> "b", len |-> 8, num |-> 5] \in ToSet(cells)

\* A task is in one place: it waits, runs, has ended, or its result is taken.
TasksOnce ==
    LET done == pool.results \o pool.ended
    IN  /\ pool.waiting \in Seq(DOMAIN crop.parts) /\ pool.running \in SUBSET DOMAIN crop.parts
        /\ pool.ended \in Seq(DOMAIN crop.parts) /\ pool.results \in Seq(DOMAIN crop.parts)
        /\ \A i, j \in DOMAIN pool.waiting : pool.waiting[i] = pool.waiting[j] => i = j
        /\ \A i, j \in DOMAIN done : done[i] = done[j] => i = j
        /\ \A i \in DOMAIN pool.waiting : pool.waiting[i] \notin pool.running
        /\ \A i \in DOMAIN done : done[i] \notin pool.running
        /\ \A i \in DOMAIN done, j \in DOMAIN pool.waiting : done[i] # pool.waiting[j]

\* There are parts, and tasks, of the file at hand alone.
CropState ==
    /\ job \in CropJobs /\ crop \in [pc : {"files", "uv_run", "searching", "failed", "done"}, faults : Nat,
                                     left : Seq(DOMAIN Directory), parts : Seq(Nat \X Nat)]
    /\ crop.pc = "uv_run" => crop.left # <<>> /\ crop.parts # <<>>
    /\ crop.pc # "uv_run" => crop.parts = <<>> /\ pool = NoPool
    /\ pool \in [waiting : Seq(Nat), running : SUBSET Nat, ended : Seq(Nat), results : Seq(Nat)]
    /\ written.names \in Seq(DOMAIN Directory) /\ DOMAIN written.out = DOMAIN Directory
    /\ DOMAIN written = {"out", "names", "zip"}

\* What the three properties of the state rest on (an inductive invariant, in parts).
CropIInv == CropState /\ TasksOnce /\ PartsWhole /\ EveryLineOnce

\* The program comes to its end, with every file that was selected in a zip, unless a
\* file could not be opened or ends without the end of a line.
CropEnds ==
    /\ <>(crop.pc \in {"done", "failed", "searching"})
    /\ [](crop.pc = "searching" => ~Directory[Head(crop.left)].ended)
    /\ [](crop.pc = "done" => FlattenSeq(written.zip) = written.names /\
            ToSet(written.names) = {n \in DOMAIN Directory : Selected(Directory[n], job)})
=============================================================================
