-------------------------------- MODULE Wire --------------------------------
(***************************************************************************)
(* The websocket programs and what they are made of: the frames on a       *)
(* connection, the connection from its beginning to its end, the timers    *)
(* and the groups of a hub, the conversions of the feed proxy, which is a  *)
(* program over them, and the streams of its clients' requests.  What one  *)
(* of them does is not a matter of the states of the others, so one part   *)
(* is taken at a time.                                                     *)
(***************************************************************************)
EXTENDS WsFrames, WsLink, UwsLoop, Converter, LevStream

VARIABLE part    \* which is taken

wireVars == <<frameVars, linkVars, loopVars, convVars, streamVars, part>>

Init ==
    /\ FramesInit /\ LinkInit /\ LoopInit /\ ConvInit /\ StreamInit
    /\ part \in {"frames", "link", "timers", "group", "convert", "stream"}
    \* the choices of a part that is not taken are not explored
    /\ part # "frames" => wire.frames = FramesOf(CHOOSE s \in Sent : TRUE)
                          /\ wire.to = CHOOSE r \in Receivers : TRUE
    /\ part # "link" => plan = CHOOSE p \in Plans : TRUE
    /\ part # "stream" => \A c \in Contexts : asked[c] = CHOOSE lens \in Scripts : TRUE
    /\ part # "convert" => feed.pages = CHOOSE ps \in Pages : TRUE

Next ==
    /\ UNCHANGED part
    /\ \/ /\ part = "frames" /\ FramesNext
          /\ UNCHANGED <<linkVars, loopVars, convVars, streamVars>>
       \/ /\ part = "link" /\ LinkNext
          /\ UNCHANGED <<frameVars, loopVars, convVars, streamVars>>
       \/ /\ part = "timers" /\ TimersNext
          /\ UNCHANGED <<frameVars, linkVars, convVars, streamVars>>
       \/ /\ part = "group" /\ GroupNext
          /\ UNCHANGED <<frameVars, linkVars, convVars, streamVars>>
       \/ /\ part = "convert" /\ ConvNext
          /\ UNCHANGED <<frameVars, linkVars, loopVars, streamVars>>
       \/ /\ part = "stream" /\ StreamNext
          /\ UNCHANGED <<frameVars, linkVars, loopVars, convVars>>

Spec == Init /\ [][Next]_wireVars /\ LinkFairness

-----------------------------------------------------------------------------
\* What is sent is what is read, whole and in order, wherever the stream is cut and
\* however slowly the peer reads; and an answer of the feed is read with the names and
\* values it was sent with.  The requests of the proxy's own clients are too, with the
\* exception that RequestsWhole names.
ReadsWhole ==
    UwsReads /\ ProtoReads /\ WholeAndInOrder /\ ConversionsAgree /\ AnswerNames /\ ShownCurrent
    /\ RequestsWhole

\* The books agree with what is: m_wsMap and the handlers' calls with the connections, the
\* timers with the time, a walk over a group with its members.
BooksAgree == HandlersPaired /\ TimersKept /\ WalksWhole

\* Connections that are silent end, only those are cut, and a client that stops comes to
\* its end, with the exceptions that CutWhenSilent and ClientEnds name.
EndsComplete == CutWhenSilent /\ SilentEnd /\ ClientEnds
=============================================================================
