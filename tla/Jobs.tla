-------------------------------- MODULE Jobs --------------------------------
(***************************************************************************)
(* The programs that work through something: fileCrop through files, oiwst *)
(* through orders, the writers of the logger through its lines.  They      *)
(* share nothing, and one is taken at a time.                              *)
(***************************************************************************)
EXTENDS FileCrop, OrderServer, LogWriters

VARIABLE program

jobsVars == <<cropVars, orderVars, logVars, program>>

Init ==
    /\ CropInit /\ OrderInit /\ LogInit
    /\ program \in {"fileCrop", "oiwst", "log writers"}
    \* the choices of a program that does not run are not explored
    /\ program # "fileCrop" =>
          /\ job = CHOOSE j \in CropJobs : TRUE
          /\ \A i, j \in DOMAIN crop.left : i < j => crop.left[i] < crop.left[j]
    /\ program # "log writers" => writer.kind = "file"

Next ==
    /\ UNCHANGED program
    /\ \/ program = "fileCrop" /\ CropNext /\ UNCHANGED <<orderVars, logVars>>
       \/ program = "oiwst" /\ OrderNext /\ UNCHANGED <<cropVars, logVars>>
       \/ program = "log writers" /\ LogNext /\ UNCHANGED <<cropVars, orderVars>>

Spec ==
    /\ Init /\ [][Next]_jobsVars
    /\ program = "fileCrop" => CropFairness
    /\ OrderFairness

-----------------------------------------------------------------------------
\* What goes in comes out, once: the lines of a file whatever the order of its tasks, the
\* arguments of a log, the lines of a log in its files, whichever way they are rolled.
\* CropIInv and LogIInv are what that rests on.
NothingMislaid ==
    /\ PartsWhole /\ EveryLineOnce /\ BuffersSuffice /\ TasksKeep /\ CropIInv
    /\ LinesSay /\ LinesStay /\ FilesInOrder /\ LogIInv

\* The tables of the exchange say of an order nothing twice, through failing commands and
\* restarts; OrderIInv and VolumesLeft are what that rests on.
TablesAgree == NeverTwice /\ NumbersUnique /\ OrderIInv /\ VolumesLeft

\* fileCrop returns with its files, and every order is answered, with the exceptions that
\* CropEnds and OrdersAnswered name.
JobsFinish == (program = "fileCrop" => CropEnds) /\ (program = "oiwst" => OrdersAnswered)
=============================================================================
