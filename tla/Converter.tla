------------------------------- MODULE Converter -------------------------------
(* ConvertUtils of the feed proxy (convertservice/convert_utils.h): what becomes   *)
(* of a client's request on its way to the feed and of the feed's answers and      *)
(* pushes on their way back, with the tables this fills: the instruments by either *)
(* name and the image of every quote.  Questions and subscriptions go over two     *)
(* connections, each in order.  ConvertService has the routing between clients; a  *)
(* client here stands for all of them.                                             *)
EXTENDS Integers, Sequences, FiniteSets, SequencesExt

CONSTANTS Pages,        \* what the feed lists: sequences of sequences of instruments
          Quoted,       \* the instruments whose quotes change
          Fields,       \* the fields of a quote that change
          MaxVal,       \* bound on the changes of a field
          MaxAsks       \* bound on the requests of the client

VARIABLES conv,     \* the tables of ConvertUtils
          feed,     \* the feed: its pages, its quotes, the subscriptions
          pipes,    \* the two connections, to the feed and from it
          user      \* the client: what it asked for and what it is shown

convVars == <<conv, feed, pipes, user>>

-----------------------------------------------------------------------------
(* Pure conversions *)

HKFE == {2011, 2015, 2009, 2010}
SEHK == {2002, 2031, 2005, 2003, 2004, 2000, 2001}
ASE == 40001 .. 40007
CBOT == {50000} \cup 50101 .. 50110
COMEX == {50001} \cup 51201 .. 51206
NYMEX == {50002} \cup 52301 .. 52304
CME == {50003, 50004} \cup 53401 .. 53404 \cup 54501 .. 54510
SGX == {50005} \cup 55601 .. 55603

MarketId2Exchange(market) ==
    CASE market \in HKFE -> "HKFE" [] market \in SEHK -> "SEHK" [] market \in ASE -> "ASE"
      [] market \in CBOT -> "CBOT" [] market \in COMEX -> "COMEX" [] market \in NYMEX -> "NYMEX"
      [] market \in CME -> "CME" [] market \in SGX -> "SGX" [] OTHER -> "unknown"

MarketId2ProductType(market) ==
    CASE market = 2015 -> "ETF_FUTURE" [] market = 2009 -> "CURRENCY_FUTURE"
      [] market = 2010 -> "HK_STOCK_FUTURE" [] market \in {2000, 40005} -> "ETF"
      [] market \in SEHK \cup ASE -> "STOCK"
      [] market \in {2011} \cup CBOT \cup COMEX \cup NYMEX \cup CME \cup SGX -> "FUTURE"
      [] OTHER -> "unknown"

\* m_marketVec of ConvertService, the markets whose instruments are asked for.
MarketVec == HKFE \cup SEHK \cup ASE \cup 50000 .. 50005 \cup 50101 .. 50110 \cup 51201 .. 51206
                \cup 52301 .. 52304 \cup 53401 .. 53404 \cup 54501 .. 54510 \cup 55601 .. 55603

\* KlineTypeConvert: <<protobuf, json>>.
KlineTypes == {<<8, 1>>, <<10, 4>>, <<11, 2>>, <<13, 5>>, <<14, 6>>, <<15, 3>>, <<16, 7>>,
               <<18, 10>>, <<19, 11>>, <<20, 20>>, <<21, 21>>, <<22, 30>>}

KlineTypeConvert(type, direction) ==
    LET from == IF direction = 0 THEN 1 ELSE 2
        hits == {p \in KlineTypes : p[from] = type}
    IN  IF hits = {} THEN 0 ELSE (CHOOSE p \in hits : TRUE)[3 - from]

\* C++ divides towards zero.
Quot(a, b) == IF a < 0 THEN -((-a) \div b) ELSE a \div b
Rem(a, b) == a - b * Quot(a, b)

\* CalHumanTime: minutes from the start of the feed's day to a clock eight hours on.
CalHumanTime(time) ==
    LET hour == Quot(time, 60)
        min == Rem(time, 60)
        now == 8 + hour
        day == IF now < 0 THEN Rem(now, 24) + 24 ELSE now
    IN  IF time > 0 THEN (now % 24) * 10000 + min * 100
        ELSE IF time = 0 THEN 80000
        ELSE IF min = 0 THEN day * 10000
        ELSE (IF day - 1 < 0 THEN day + 23 ELSE day - 1) * 10000 + (min + 60) * 100

Leap(y) == (y % 4 = 0 /\ y % 100 # 0) \/ y % 400 = 0
DaysIn(y, m) == IF m = 2 THEN (IF Leap(y) THEN 29 ELSE 28) ELSE IF m \in {4, 6, 9, 11} THEN 30 ELSE 31

\* TimeAdd, by less than a day: the date carries.
TimeAdd(t, hours) ==
    LET h == t.h + hours
        last == t.d = DaysIn(t.y, t.m)
        prevMonth == IF t.m = 1 THEN <<t.y - 1, 12>> ELSE <<t.y, t.m - 1>>
        nextMonth == IF t.m = 12 THEN <<t.y + 1, 1>> ELSE <<t.y, t.m + 1>>
    IN  IF h < 0
        THEN IF t.d > 1 THEN [t EXCEPT !.h = h + 24, !.d = @ - 1]
             ELSE [y |-> prevMonth[1], m |-> prevMonth[2], h |-> h + 24,
                   d |-> DaysIn(prevMonth[1], prevMonth[2])]
        ELSE IF h < 24 THEN [t EXCEPT !.h = h]
        ELSE IF ~last THEN [t EXCEPT !.h = h - 24, !.d = @ + 1]
        ELSE [y |-> nextMonth[1], m |-> nextMonth[2], d |-> 1, h |-> h - 24]

-----------------------------------------------------------------------------
(* Tables *)

\* The name by which a client knows an instrument: exchange and trade code, the code
\* of the feed when it has no trade code.
Name(i) == <<MarketId2Exchange(i.market), IF i.trade = "" THEN i.code ELSE i.trade>>

Listed == UNION {UNION {{page[k] : k \in DOMAIN page} : page \in {ps[n] : n \in DOMAIN ps}} : ps \in Pages}
Names == {Name(i) : i \in Listed}
None == [market |-> 0, code |-> "", trade |-> ""]

Template == [f \in Fields |-> 0]

ConvInit ==
    /\ conv = [subChange |-> [x \in Names |-> None], insInfo |-> [i \in Listed |-> <<>>],
               quotes |-> [i \in Listed |-> <<>>], all |-> {}]
    /\ \E ps \in Pages : feed = [pages |-> ps, val |-> [i \in Listed |-> Template], subs |-> {}]
    /\ pipes = [toQuery |-> <<>>, toQuote |-> <<>>, fromQuery |-> <<>>, fromQuote |-> <<>>]
    /\ user = [asks |-> 0, wants |-> {}, shown |-> [i \in Listed |-> <<>>], empty |-> {},
               lost |-> {}, newest |-> [i \in Listed |-> Template], wrong |-> FALSE]

\* The internal answer 52: every instrument of the page goes into the tables.
InternalRes(c, page) ==
    FoldLeft(LAMBDA d, i : [d EXCEPT !.subChange[Name(i)] = i, !.insInfo[i] = Name(i), !.all = @ \cup {Name(i)}],
             c, page)

\* UpdateQuoteProtoByJson: an image that has not ten bids and asks begins as the template;
\* the fields that are there replace its own.
UpdateQuoteProtoByJson(json, image) ==
    [f \in Fields |-> IF f \in DOMAIN json THEN json[f] ELSE IF image = <<>> THEN 0 ELSE image[f]]

-----------------------------------------------------------------------------
(* Requests of the client *)

ReqTypes == [HEARTBEAT |-> 1, ALL_INS_INFO |-> 52, SUB_QUOTES |-> 200, UNSUB_QUOTES |-> 201,
             K_LINE |-> 150, BROKER_INFO |-> 76, TRADE_DATE |-> 50]

\* ProtoReq2JsonReq: symbols that are not in m_subChangeMap are left out; a question about
\* one of them has no market and no code.
ProtoReq2JsonReq(req) ==
    LET known == SelectSeq(req.names, LAMBDA x : conv.subChange[x] # None)
    IN  [reqtype |-> ReqTypes[req.type], asked |-> req.names,
         data |-> [k \in DOMAIN known |-> conv.subChange[known[k]]],
         klinetype |-> IF req.type = "K_LINE" THEN KlineTypeConvert(req.kline, 0) ELSE 0]

Ask(req) ==
    LET json == ProtoReq2JsonReq(req)
        quotes == [k \in DOMAIN json.data |-> [reqtype |-> 153, ins |-> json.data[k]]]
    IN  /\ user.asks < MaxAsks
        /\ IF json.reqtype \in {200, 201}
           THEN /\ pipes' = [pipes EXCEPT !.toQuery = IF json.reqtype = 200 THEN @ \o quotes ELSE @,
                                          !.toQuote = Append(@, json)]
                /\ user' = [user EXCEPT !.asks = @ + 1,
                                        !.wants = IF json.reqtype = 200 THEN @ \cup ToSet(json.data)
                                                  ELSE @ \ ToSet(json.data)]
           ELSE /\ pipes' = [pipes EXCEPT !.toQuery = Append(@, json)]
                /\ user' = [user EXCEPT !.asks = @ + 1]
        /\ UNCHANGED <<conv, feed>>

AskSomething ==
    \/ \E x \in Names, type \in {"SUB_QUOTES", "UNSUB_QUOTES", "BROKER_INFO"} :
          Ask([type |-> type, names |-> <<x>>, kline |-> 0])
    \/ \E x \in Names : Ask([type |-> "K_LINE", names |-> <<x>>, kline |-> 8])

-----------------------------------------------------------------------------
(* The feed, as its two connections show it *)

\* It lists a page of instruments, as it was asked to.
List ==
    /\ feed.pages # <<>>
    /\ feed' = [feed EXCEPT !.pages = Tail(@)]
    /\ pipes' = [pipes EXCEPT !.fromQuery = Append(@, [reqtype |-> 52, page |-> Head(feed.pages)])]
    /\ UNCHANGED <<conv, user>>

\* A quote changes; who has subscribed it is told what has.
Change(i, f) ==
    /\ feed.val[i][f] < MaxVal
    /\ feed' = [feed EXCEPT !.val[i][f] = @ + 1]
    /\ pipes' = IF i \notin feed.subs THEN pipes
                ELSE [pipes EXCEPT !.fromQuote = Append(@, [ins |-> i, at |-> f, val |-> feed.val[i][f] + 1])]
    /\ user' = IF i \in feed.subs THEN user ELSE [user EXCEPT !.lost = @ \cup {<<i, f>>}]
    /\ UNCHANGED conv

\* It answers a question: a snapshot has every field; one without an instrument is wrong.
AnswerQuery ==
    LET q == Head(pipes.toQuery)
        res == IF q.reqtype = 153 THEN [reqtype |-> 153, ins |-> q.ins, json |-> feed.val[q.ins]]
               ELSE [reqtype |-> q.reqtype, status |-> IF q.data = <<>> THEN -1 ELSE 0,
                     ins |-> IF q.data = <<>> THEN None ELSE q.data[1], asked |-> q.asked[1],
                     klinetype |-> q.klinetype]
    IN  /\ pipes.toQuery # <<>>
        /\ pipes' = [pipes EXCEPT !.toQuery = Tail(@), !.fromQuery = Append(@, res)]
        /\ user' = IF q.reqtype # 153 THEN user
                   ELSE [user EXCEPT !.lost = @ \ {<<q.ins, f>> : f \in Fields}]
        /\ UNCHANGED <<conv, feed>>

Subscribe ==
    LET q == Head(pipes.toQuote)
    IN  /\ pipes.toQuote # <<>>
        /\ pipes' = [pipes EXCEPT !.toQuote = Tail(@)]
        /\ feed' = [feed EXCEPT !.subs = IF q.reqtype = 200 THEN @ \cup ToSet(q.data) ELSE @ \ ToSet(q.data)]
        /\ UNCHANGED <<conv, user>>

-----------------------------------------------------------------------------
(* Answers and pushes *)

\* Fields of a snapshot that are older than a push that came before it.
Overtaken(res) == {<<res.ins, f>> : f \in {f \in Fields : res.json[f] < user.newest[res.ins][f]}}

\* JsonRes2ProtoRes, of an answer: the answer names the instrument by the client's name.
JsonRes2ProtoRes ==
    LET res == Head(pipes.fromQuery)
        image == UpdateQuoteProtoByJson(res.json, <<>>)
        names == res.status # 0 \/ conv.insInfo[res.ins] = res.asked
    IN  /\ pipes.fromQuery # <<>>
        /\ pipes' = [pipes EXCEPT !.fromQuery = Tail(@)]
        /\ CASE res.reqtype = 52 -> conv' = InternalRes(conv, res.page) /\ UNCHANGED user
             [] res.reqtype = 153 ->
                   /\ conv' = [conv EXCEPT !.quotes[res.ins] = image]
                   /\ user' = [user EXCEPT !.shown[res.ins] = image, !.empty = @ \ {res.ins},
                                           !.lost = @ \cup Overtaken(res)]
             [] OTHER -> user' = [user EXCEPT !.wrong = @ \/ ~names] /\ UNCHANGED conv
        /\ UNCHANGED feed

\* JsonRes2ProtoRes, of a push: into the image of the quote, all of which goes on to the
\* clients.  Before there is an image a message without data goes to them.
PushQuote ==
    LET push == Head(pipes.fromQuote)
        image == UpdateQuoteProtoByJson([f \in {push.at} |-> push.val], conv.quotes[push.ins])
        newer == [user EXCEPT !.newest[push.ins][push.at] = push.val, !.lost = @ \ {<<push.ins, push.at>>}]
    IN  /\ pipes.fromQuote # <<>>
        /\ pipes' = [pipes EXCEPT !.fromQuote = Tail(@)]
        /\ IF conv.quotes[push.ins] = <<>>
           THEN user' = [newer EXCEPT !.empty = @ \cup {push.ins}] /\ UNCHANGED conv
           ELSE /\ conv' = [conv EXCEPT !.quotes[push.ins] = image]
                /\ user' = IF push.ins \in user.wants THEN [newer EXCEPT !.shown[push.ins] = image] ELSE newer
        /\ UNCHANGED feed

ConvNext ==
    \/ AskSomething \/ List \/ AnswerQuery \/ Subscribe
    \/ \E i \in Quoted, f \in Fields : Change(i, f)
    \/ JsonRes2ProtoRes \/ PushQuote

ConvSpec == ConvInit /\ [][ConvNext]_convVars

-----------------------------------------------------------------------------
(* Properties *)

\* Every instrument of a market that is asked for has an exchange and a product type,
\* what a K line type becomes comes back as itself, a time as the clock of Hong Kong
\* shows it and as itself after the eight hours there and back.
Dates == {[y |-> 2020, m |-> 2, d |-> 28, h |-> 20], [y |-> 2021, m |-> 3, d |-> 1, h |-> 3],
          [y |-> 2020, m |-> 12, d |-> 31, h |-> 23], [y |-> 2021, m |-> 1, d |-> 1, h |-> 0]}

ConversionsAgree ==
    /\ \A m \in MarketVec : MarketId2Exchange(m) # "unknown" /\ MarketId2ProductType(m) # "unknown"
    /\ \A p \in KlineTypes : KlineTypeConvert(KlineTypeConvert(p[1], 0), 1) = p[1]
    /\ \A time \in -1440 .. 1440 :
          LET at == (480 + time) % 1440
          IN  CalHumanTime(time) = (at \div 60) * 10000 + (at % 60) * 100
    /\ \A t \in Dates : TimeAdd(TimeAdd(t, 8), -8) = t /\ TimeAdd(TimeAdd(t, -8), 8) = t

\* An answer is about the instrument that was asked for, by the client's own name for it.
AnswerNames == ~user.wrong /\ \A x \in Names : conv.subChange[x] # None => conv.insInfo[conv.subChange[x]] = x

\* When nothing is on its way a client that has subscribed an instrument is shown its
\* quote as it is, but for a field that changed after the snapshot and before the
\* subscription, or whose change overtook the snapshot: that one is put right by its next
\* change.
ShownCurrent ==
    pipes.toQuery = <<>> /\ pipes.toQuote = <<>> /\ pipes.fromQuery = <<>> /\ pipes.fromQuote = <<>> =>
        \A i \in user.wants \cap feed.subs, f \in Fields :
            <<i, f>> \notin user.lost => user.shown[i] # <<>> /\ user.shown[i][f] = feed.val[i][f]
=============================================================================
