---------------------------- MODULE OrderServer ----------------------------
(* oiwst, which plays the exchange: every 200 ms it reads the table of orders,  *)
(* marks those that are new as sent, and writes a confirmation and the deals of *)
(* each.  The commands of SqlServerHdl are single statements on one connection; *)
(* nothing ties them together, and each may fail.                               *)
EXTENDS Integers, Sequences, FiniteSets, SequencesExt

CONSTANTS Book,        \* the orders a counter places, in order: [wth, qty, today]
          DbFaults,    \* bound on the commands that fail
          Crashes      \* bound on the ends of the process

Order == [wth : BOOLEAN, qty : Int, today : BOOLEAN]
ASSUME BookAssumption == Book \in Seq(Order)

VARIABLES tables,   \* ashare_ordwth, ashare_ordwth2 and ashare_cjhb
          oiwst     \* the process: the rows it has read and where it is in its work

orderVars == <<tables, oiwst>>

OrderInit ==
    /\ tables = [placed |-> 0, sent |-> {}, confirms |-> <<>>, deals |-> <<>>]
    /\ oiwst = [pc |-> "idle", rows |-> <<>>, deal |-> 1, volumes |-> <<>>, life |-> 1,
                faults |-> 0, lost |-> {}]

-----------------------------------------------------------------------------
\* What becomes of an order: its status and the volumes of its deals.
Outcome(order) ==
    IF order.wth THEN [status |-> "W", volumes |-> <<>>]
    ELSE IF order.qty = 1000 \/ order.qty < 0 THEN [status |-> "F", volumes |-> <<>>]
    ELSE [status |-> "O",
          volumes |-> IF order.qty = 900 THEN <<>>
                      ELSE IF order.qty = 600 THEN <<200>>
                      ELSE IF order.qty > 1000 THEN <<400, 600, order.qty - 1000>>
                      ELSE <<order.qty>>]

\* The counter places an order.
Place ==
    /\ tables.placed < Len(Book)
    /\ tables' = [tables EXCEPT !.placed = @ + 1]
    /\ UNCHANGED oiwst

\* SqlServerHdl::Cmd of an INSERT or an UPDATE: it succeeds, or it fails, and the server
\* may have carried it out.
Cmd(done, ok, failed) ==
    \/ tables' = done /\ oiwst' = ok
    \/ /\ oiwst.faults < DbFaults
       /\ tables' \in {done, tables}
       /\ oiwst' = [failed EXCEPT !.faults = @ + 1]

\* The rest of the rows is left for the next time; an order that is marked as sent is
\* never looked at again.
GiveUp(o, order) == [o EXCEPT !.pc = "idle", !.rows = <<>>, !.volumes = <<>>, !.lost = @ \cup {order}]

\* SELECT: when a row cannot be fetched those before it are the result.
Query ==
    /\ oiwst.pc = "idle" /\ tables.placed > 0
    /\ \E n \in (IF oiwst.faults < DbFaults THEN 0 .. tables.placed ELSE {tables.placed}) :
          oiwst' = [oiwst EXCEPT !.pc = "row",
                                 !.rows = [k \in 1 .. n |-> [order |-> k, sent |-> k \in tables.sent]],
                                 !.faults = IF n < tables.placed THEN @ + 1 ELSE @]
    /\ UNCHANGED tables

\* A return where there is a continue: the first order that was sent ends the work.
StopAtSent ==
    /\ oiwst.pc = "row"
    /\ oiwst.rows # <<>> => Head(oiwst.rows).sent
    /\ oiwst' = [oiwst EXCEPT !.pc = "idle", !.rows = <<>>]
    /\ UNCHANGED tables

\* A row that was sent when it was read is passed over.
Skip ==
    /\ oiwst.pc = "row"
    /\ oiwst.rows # <<>> => Head(oiwst.rows).sent
    /\ oiwst' = IF oiwst.rows = <<>> THEN [oiwst EXCEPT !.pc = "idle"]
                ELSE [oiwst EXCEPT !.rows = Tail(@)]
    /\ UNCHANGED tables

\* Without the UPDATE.
LeaveUnsent ==
    /\ oiwst.pc = "row" /\ oiwst.rows # <<>> /\ ~Head(oiwst.rows).sent
    /\ oiwst' = [oiwst EXCEPT !.pc = "confirm"]
    /\ UNCHANGED tables

MarkSent ==
    LET order == Head(oiwst.rows).order
    IN  /\ oiwst.pc = "row" /\ oiwst.rows # <<>> /\ ~Head(oiwst.rows).sent
        /\ Cmd([tables EXCEPT !.sent = @ \cup {order}],
               [oiwst EXCEPT !.pc = "confirm"],
               GiveUp(oiwst, order))

Confirm ==
    LET order == Head(oiwst.rows).order
        o == Outcome(Book[order])
    IN  /\ oiwst.pc = "confirm"
        /\ Cmd([tables EXCEPT !.confirms = Append(@, [order |-> order, status |-> o.status])],
               [oiwst EXCEPT !.pc = "deals", !.volumes = o.volumes],
               GiveUp(oiwst, order))

\* One deal; its number is taken whether the command succeeds or not.
Deal ==
    LET order == Head(oiwst.rows).order
        next == [oiwst EXCEPT !.deal = @ + 1, !.volumes = Tail(@)]
    IN  /\ oiwst.pc = "deals" /\ oiwst.volumes # <<>>
        /\ Cmd([tables EXCEPT !.deals = Append(@, [no |-> oiwst.deal, order |-> order,
                                                   volume |-> Head(oiwst.volumes), life |-> oiwst.life])],
               next, GiveUp(next, order))

RowDone ==
    /\ oiwst.pc = "deals" /\ oiwst.volumes = <<>>
    /\ oiwst' = [oiwst EXCEPT !.pc = "row", !.rows = Tail(@)]
    /\ UNCHANGED tables

\* The process ends and is started again: the numbers of the deals begin anew.
Restart ==
    /\ oiwst.life <= Crashes
    /\ oiwst' = [oiwst EXCEPT !.pc = "idle", !.rows = <<>>, !.volumes = <<>>, !.deal = 1, !.life = @ + 1,
                              !.lost = IF oiwst.pc \in {"confirm", "deals"} THEN @ \cup {Head(oiwst.rows).order} ELSE @]
    /\ UNCHANGED tables

TimerCallback == Query \/ Skip \/ MarkSent \/ Confirm \/ Deal \/ RowDone

OrderNext == Place \/ TimerCallback \/ Restart

OrderFairness == WF_orderVars(TimerCallback)

OrderSpec == OrderInit /\ [][OrderNext]_orderVars

-----------------------------------------------------------------------------
(* Properties *)

Confirms(order) == {k \in DOMAIN tables.confirms : tables.confirms[k].order = order}
DealsOf(order) == SelectSeq(tables.deals, LAMBDA d : d.order = order)
VolumeIn(deals, order) == FoldLeft(LAMBDA a, d : IF d.order = order THEN a + d.volume ELSE a, 0, deals)
Volume(order) == VolumeIn(tables.deals, order)

\* Whatever fails and however often the process ends, an order is confirmed at most once,
\* and dealt only after a confirmation that says it was accepted.
ConfirmedOnce ==
    /\ \A i, j \in DOMAIN tables.confirms :
          tables.confirms[i].order = tables.confirms[j].order => i = j
    /\ \A d \in DOMAIN tables.deals : \E k \in DOMAIN tables.confirms :
          tables.confirms[k].order = tables.deals[d].order /\ tables.confirms[k].status = "O"

\* No order is dealt beyond its quantity.
DealtWithin ==
    \A d \in DOMAIN tables.deals :
        Volume(tables.deals[d].order) <= Book[tables.deals[d].order].qty

\* Both of them.
NeverTwice == ConfirmedOnce /\ DealtWithin

\* A number is given to one deal in the life of a process; the next life gives it again.
NumbersUnique ==
    \A i, j \in DOMAIN tables.deals :
        i # j /\ tables.deals[i].life = tables.deals[j].life => tables.deals[i].no # tables.deals[j].no

-----------------------------------------------------------------------------
(* What the two invariants above rest on (an inductive invariant, in parts).    *)

ConfirmRow == [order : Nat, status : {"W", "F", "O"}]
DealRow == [no : Nat, order : Nat, volume : Int, life : Nat]
Tables == [placed : 0 .. Len(Book), sent : SUBSET Nat,
           confirms : Seq(ConfirmRow), deals : Seq(DealRow)]
Row == [order : 1 .. Len(Book), sent : BOOLEAN]
Process == [pc : {"idle", "row", "confirm", "deals"}, rows : Seq(Row), deal : Nat,
            volumes : Seq(Int), life : Nat, faults : Nat, lost : SUBSET Nat]

\* The types of the tables and of the process.
OrderTypeOK == tables \in Tables /\ oiwst \in Process

\* What has been read and not been taken is not marked, whichever row it is, and stands
\* there once: the process alone marks orders.
RowsUnmarked ==
    \A i \in DOMAIN oiwst.rows :
        /\ ~oiwst.rows[i].sent /\ (i > 1 \/ oiwst.pc = "row") => oiwst.rows[i].order \notin tables.sent
        /\ \A j \in DOMAIN oiwst.rows : oiwst.rows[i].order = oiwst.rows[j].order => i = j

\* An order is marked before it is confirmed, and the one at hand is confirmed before its
\* deals.
MarkedFirst ==
    /\ \A k \in DOMAIN tables.confirms : tables.confirms[k].order \in tables.sent
    /\ oiwst.pc \in {"confirm", "deals"} => oiwst.rows # <<>> /\ oiwst.rows[1].order \in tables.sent
    /\ oiwst.pc = "confirm" =>
          \A k \in DOMAIN tables.confirms : tables.confirms[k].order # oiwst.rows[1].order
    /\ oiwst.pc = "deals" /\ oiwst.volumes # <<>> =>
          \E k \in DOMAIN tables.confirms :
              tables.confirms[k].order = oiwst.rows[1].order /\ tables.confirms[k].status = "O"

\* The numbers given in this life are below the next one.
NumbersBelow ==
    \A d \in DOMAIN tables.deals :
        /\ tables.deals[d].life <= oiwst.life
        /\ tables.deals[d].life = oiwst.life => tables.deals[d].no < oiwst.deal

\* What has been dealt of the order at hand and what is left to deal of it is not more than
\* its quantity, and nothing that is left is negative.
VolumesLeft ==
    oiwst.pc = "deals" =>
        LET order == oiwst.rows[1].order
            v == oiwst.volumes
        IN  /\ Len(v) <= 3 /\ \A k \in DOMAIN v : v[k] >= 0
            /\ Len(v) >= 1 => Volume(order) + v[1] <= Book[order].qty
            /\ Len(v) >= 2 => Volume(order) + v[1] + v[2] <= Book[order].qty
            /\ Len(v) >= 3 => Volume(order) + v[1] + v[2] + v[3] <= Book[order].qty

OrderIInv ==
    OrderTypeOK /\ RowsUnmarked /\ MarkedFirst /\ NumbersBelow /\ ConfirmedOnce /\ NumbersUnique

-----------------------------------------------------------------------------
\* Every order that is placed is confirmed, with all of its deals, unless a command failed
\* or the process ended while it was at that order: then it may stay as it is for ever.
OrdersAnswered ==
    \A order \in DOMAIN Book :
        tables.placed >= order ~>
            \/ order \in oiwst.lost
            \/ /\ Confirms(order) # {}
               /\ [k \in DOMAIN DealsOf(order) |-> DealsOf(order)[k].volume] = Outcome(Book[order]).volumes
=============================================================================
