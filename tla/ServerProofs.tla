---------------------------- MODULE ServerProofs ----------------------------
(***************************************************************************)
(* Proofs about Server, for any number of requests, any sources, any       *)
(* access rights and any limits.                                           *)
(***************************************************************************)
EXTENDS Server, FiniteSetTheorems, TLAPS

(* The inductive invariant: what holds of each request.                    *)

\* Nothing is returned before the rows are read, nor logged before the end.
FreshInv(c) ==
  /\ \/ pc[c] \in {"new", "arrive", "auth", "dispatch", "query", "lock", "call", "scan"}
     \/ pc[c] = "answered" /\ reply[c].code = "302"
     => result[c] = "none" /\ logged[c] = NoEntry
  /\ pc[c] \in {"end", "log"} => logged[c] = NoEntry

\* The query has passed the checks of its route.
Under(c) == pc[c] \in {"query", "lock"} \/ Ran(c)

AuthInv(c) ==
  /\ pc[c] = "dispatch" => Exempt(c) \/ source[c] \in grants[c]
  /\ Under(c) => source[c] \in grants[c]

AccessInv(c) ==
  /\ cookie[c] => jar[c]
  /\ Under(c) => HasAccess(c)

\* The default source, once chosen, is the first of the registry, which only
\* grows at its end.
SourceInv(c) ==
  /\ req[c].src = NoSource => source[c] = NoSource \/ (dbs # <<>> /\ source[c] = dbs[1])
  /\ pc[c] = "lock" \/ InCall(c) => source[c] \in Sources

TextInv(c) ==
  /\ pc[c] \in {"auth", "dispatch", "query", "lock", "call", "scan", "end", "log"}
     => \/ text[c] = req[c].text
        \/ req[c].text = "named" /\ text[c] = "stored"
  /\ pc[c] \in {"lock", "call", "scan", "end", "log"} => text[c] # "meta"
  /\ pc[c] \in {"scan", "end", "log"} => text[c] \notin {"named", "unnamed"}

\* How far the rows are read, and what is known of the rest.
RowInv(c) ==
  /\ pc[c] = "scan" => read[c] <= RowLimit /\ read[c] <= total[c]
  /\ pc[c] = "end" => result[c] \in {"ok", "tooMany"}
  /\ pc[c] = "log" => result[c] = "ok" /\ source[c] # LocalSource
  /\ result[c] = "ok" => /\ read[c] = total[c]
                         /\ text[c] = "meta" \/ total[c] <= RowLimit
  /\ result[c] = "tooMany" => /\ read[c] = RowLimit
                              /\ total[c] > RowLimit
                              /\ text[c] # "meta"

\* The answer has the rows that were read.
ReplyInv(c) ==
  pc[c] \in {"answered", "done"} /\ reply[c].code = "200" /\ ~reply[c].torn
    /\ result[c] \in {"ok", "tooMany"}
  => /\ reply[c].num = read[c]
     /\ reply[c].rows = IF req[c].path = "/" THEN Lesser(read[c], UILimit) ELSE read[c]
     /\ req[c].path = "/" => (reply[c].more <=> result[c] = "tooMany")

\* What the log has is true, and what belongs into it is there.
LogInv(c) ==
  /\ logged[c] \in Entries =>
       /\ logged[c] = [src |-> source[c],
                       text |-> IF req[c].text = "named" THEN "stored" ELSE req[c].text]
       /\ source[c] # LocalSource
       /\ result[c] = "ok" /\ read[c] = total[c]
  /\ /\ result[c] = "ok" /\ pc[c] \notin {"end", "log"}
     /\ text[c] # "meta" /\ source[c] # LocalSource
     => logged[c] # NoEntry

RequestInv(c) ==
  /\ FreshInv(c) /\ AuthInv(c) /\ AccessInv(c) /\ SourceInv(c) /\ TextInv(c)
  /\ RowInv(c) /\ ReplyInv(c) /\ LogInv(c)

IInv == TypeOK /\ \A c \in Clients : RequestInv(c)
-----------------------------------------------------------------------------
\* Answers of the server and the counters keep their types.
LEMMA SendTypes ==
  ASSUME TypeOK, NEW c \in Clients, NEW r \in Replies, NEW K, Send(c, r, K)
  PROVE  /\ reply' \in [Clients -> Replies]
         /\ counts' \in [Counters -> Nat]
         /\ pc' \in [Clients -> Places]
BY DEF TypeOK, Send, Add, Goto, Places

LEMMA StatusReply ==
  ASSUME NEW code \in Codes \cup {"none"}
  PROVE  /\ Status(code) \in Replies
         /\ Status(code).code = code /\ ~Status(code).torn
BY LimitsAssumption DEF Status, Replies

LEMMA TornReply ==
  ASSUME NEW n \in 0..MaxRows
  PROVE  /\ Torn(n) \in Replies
         /\ Torn(n).code = "200" /\ Torn(n).torn
BY LimitsAssumption DEF Torn, Replies, Codes

\* An answer never has more rows than there may be.
LEMMA ShownRange ==
  ASSUME TypeOK, NEW c \in Clients
  PROVE  Shown(c) \in 0..MaxRows /\ read[c] \in 0..MaxRows
BY LimitsAssumption DEF TypeOK, Shown, Lesser

\* The answer with the rows.
RowsReply(c) ==
  [code |-> "200", rows |-> Shown(c), num |-> read[c],
   more |-> req[c].path = "/" /\ result[c] = "tooMany", torn |-> FALSE]

LEMMA RowsReplies ==
  ASSUME TypeOK, NEW c \in Clients
  PROVE  /\ RowsReply(c) \in Replies
         /\ RowsReply(c).code = "200" /\ ~RowsReply(c).torn
BY ShownRange DEF RowsReply, Replies, Codes

\* What is not an entry of the log.
LEMMA NoEntries ==
  NoEntry \notin Entries /\ LogFailed \notin Entries
BY SourcesAssumption DEF NoEntry, LogFailed, Entries

\* Every step keeps the types; what is logged is of a source, not of none.
LEMMA TypeStep ==
  IInv /\ [Next]_vars => TypeOK'
<1> SUFFICES ASSUME TypeOK, \A c \in Clients : RequestInv(c), [Next]_vars
    PROVE  TypeOK'
  BY DEF IInv
<1> USE SourcesAssumption, LimitsAssumption DEF registry, client, scan
<1>1. ASSUME NEW c \in Clients, Request(c) PROVE TypeOK'
  BY <1>1 DEF Request, Goto, TypeOK, Places
<1>2. ASSUME NEW c \in Clients, Serve(c) PROVE TypeOK'
  <2> USE DEF Codes
  <2>1. CASE Refuse(c)
    BY <2>1, StatusReply, SendTypes DEF Refuse, TypeOK
  <2>2. CASE Accept(c)
    <3>1. dbs # <<>> => dbs[1] \in Sources
      BY DEF TypeOK
    <3>2. source' \in [Clients -> Sources \cup {NoSource}]
      BY <2>2, <3>1 DEF Accept, TypeOK, Asks
    <3>3. text' \in [Clients -> Texts \cup {"stored"}]
      BY <2>2 DEF Accept, TypeOK, Asks
    <3> QED
      BY <2>2, <3>2, <3>3 DEF Accept, Goto, TypeOK, Places
  <2>3. CASE Allow(c)
    BY <2>3 DEF Allow, Goto, TypeOK, Places
  <2>4. CASE Deny(c)
    BY <2>4, StatusReply, SendTypes DEF Deny, TypeOK
  <2>5. CASE Redirect(c)
    BY <2>5, StatusReply, SendTypes DEF Redirect, TypeOK
  <2>6. CASE Reject(c)
    BY <2>6, StatusReply, SendTypes DEF Reject, TypeOK
  <2>7. CASE ServePage(c)
    BY <2>7, StatusReply, SendTypes DEF ServePage, TypeOK
  <2>8. CASE ServeQuery(c)
    BY <2>8 DEF ServeQuery, Goto, TypeOK, Places
  <2>9. CASE QueryMeta(c)
    <3>1. total' \in [Clients -> 0..MaxRows] /\ read' \in [Clients -> 0..MaxRows]
      <4>1. \/ \E n \in 0..MaxRows : /\ total' = [total EXCEPT ![c] = n]
                                      /\ read' = [read EXCEPT ![c] = n]
            \/ total' = total /\ read' = read
        BY <2>9, Zenon DEF QueryMeta
      <4>2. total \in [Clients -> 0..MaxRows] /\ read \in [Clients -> 0..MaxRows]
        BY DEF TypeOK
      <4> QED
        BY <4>1, <4>2
    <3>2. pc' \in [Clients -> Places] /\ result' \in [Clients -> Results]
      BY <2>9 DEF QueryMeta, Return, Goto, TypeOK, Places, Results
    <3> QED
      BY <2>9, <3>1, <3>2 DEF QueryMeta, TypeOK
  <2>10. CASE FindHandle(c)
    BY <2>10 DEF FindHandle, Return, Goto, TypeOK, Places, Results
  <2>11. CASE Enter(c)
    BY <2>11 DEF Enter, Return, Goto, TypeOK, Places, Results
  <2>12. CASE Resolve(c)
    BY <2>12 DEF Resolve, Return, Goto, TypeOK, Places, Results
  <2>13. CASE EndRows(c)
    BY <2>13 DEF EndRows, Goto, TypeOK, Places
  <2>14. CASE LogQuery(c)
    <3>1. PICK l : logged' = [logged EXCEPT ![c] = l]
                   /\ l \in {[src |-> source[c], text |-> text[c]], LogFailed}
      BY <2>14 DEF LogQuery
    <3>2. CASE l = LogFailed
      <4>1. logged' \in [Clients -> Entries \cup {NoEntry, LogFailed}]
        BY <3>1, <3>2 DEF TypeOK
      <4> QED
        BY <2>14, <4>1 DEF LogQuery, Goto, TypeOK, Places
    <3>3. CASE l = [src |-> source[c], text |-> text[c]]
      <4>1. l \in Entries
        BY <2>14, <3>3 DEF LogQuery, TypeOK, SourceInv, RequestInv, InCall, Entries
      <4>2. logged' \in [Clients -> Entries \cup {NoEntry, LogFailed}]
        BY <3>1, <4>1 DEF TypeOK
      <4> QED
        BY <2>14, <4>2 DEF LogQuery, Goto, TypeOK, Places
    <3> QED
      BY <3>1, <3>2, <3>3
  <2>15. CASE AnswerError(c)
    BY <2>15, StatusReply, SendTypes DEF AnswerError, Failed, TypeOK
  <2>16. CASE AnswerRows(c)
    <3>1. Send(c, RowsReply(c), {})
      BY <2>16 DEF AnswerRows, RowsReply
    <3> QED
      BY <2>16, <3>1, RowsReplies, SendTypes DEF AnswerRows, TypeOK
  <2>17. CASE AnswerTorn(c)
    <3>1. PICK n \in 0..MaxRows :
            Send(c, IF n = 0 THEN Status("500") ELSE Torn(n), {"internal"})
      BY <2>17 DEF AnswerTorn
    <3>2. CASE n = 0
      BY <2>17, <3>1, <3>2, StatusReply, SendTypes DEF AnswerTorn, TypeOK
    <3>3. CASE n # 0
      BY <2>17, <3>1, <3>3, TornReply, SendTypes DEF AnswerTorn, TypeOK
    <3> QED
      BY <3>2, <3>3
  <2>18. CASE Deliver(c)
    <3>1. jar' \in [Clients -> BOOLEAN]
      BY <2>18 DEF Deliver, TypeOK
    <3>2. \/ /\ cookie' = [cookie EXCEPT ![c] = jar'[c]]
             /\ routed' = [routed EXCEPT ![c] = ~RoutePrefix]
             /\ reply' = [reply EXCEPT ![c] = NoReply]
             /\ pc' = [pc EXCEPT ![c] = "arrive"]
          \/ UNCHANGED <<cookie, routed, reply>> /\ pc' = [pc EXCEPT ![c] = "done"]
      BY <2>18, Zenon DEF Deliver, Goto
    <3>3. NoReply \in Replies /\ jar'[c] \in BOOLEAN
      BY <3>1, StatusReply DEF NoReply
    <3>4. /\ cookie' \in [Clients -> BOOLEAN] /\ routed' \in [Clients -> BOOLEAN]
          /\ reply' \in [Clients -> Replies] /\ pc' \in [Clients -> Places]
      <4> DEFINE out == ~RoutePrefix
                 jar1 == jar'[c]
      <4>1. out \in BOOLEAN /\ jar1 \in BOOLEAN
        BY <3>3
      <4>2. \/ /\ cookie' = [cookie EXCEPT ![c] = jar1]
               /\ routed' = [routed EXCEPT ![c] = out]
               /\ reply' = [reply EXCEPT ![c] = NoReply]
               /\ pc' = [pc EXCEPT ![c] = "arrive"]
            \/ UNCHANGED <<cookie, routed, reply>> /\ pc' = [pc EXCEPT ![c] = "done"]
        BY <3>2
      <4> HIDE DEF out, jar1
      <4>3. CASE /\ cookie' = [cookie EXCEPT ![c] = jar1]
                 /\ routed' = [routed EXCEPT ![c] = out]
                 /\ reply' = [reply EXCEPT ![c] = NoReply]
                 /\ pc' = [pc EXCEPT ![c] = "arrive"]
        BY <3>3, <4>1, <4>3 DEF TypeOK, Places
      <4>4. CASE UNCHANGED <<cookie, routed, reply>> /\ pc' = [pc EXCEPT ![c] = "done"]
        BY <4>4 DEF TypeOK, Places
      <4> QED
        BY <4>2, <4>3, <4>4
    <3>5. UNCHANGED <<registry, header, grants, req, source, text, live, scan, result, logged, counts>>
      BY <2>18, Zenon DEF Deliver
    <3> QED
      BY <3>1, <3>4, <3>5 DEF TypeOK
  <2>19. CASE BreakOff(c)
    <3>1. PICK n \in 0..Shown(c) :
            Send(c, Torn(n), {"internal"} \cup (IF Failed(c) THEN {"query"} ELSE {}))
      BY <2>19 DEF BreakOff
    <3>2. n \in 0..MaxRows
      BY ShownRange
    <3> QED
      BY <2>19, <3>1, <3>2, TornReply, SendTypes DEF BreakOff, TypeOK
  <2> QED
    BY <1>2, <2>1, <2>2, <2>3, <2>4, <2>5, <2>6, <2>7, <2>8, <2>9, <2>10, <2>11,
       <2>12, <2>13, <2>14, <2>15, <2>16, <2>17, <2>18, <2>19 DEF Serve
<1>3. ASSUME NEW c \in Clients, Database(c) PROVE TypeOK'
  <2>1. CASE RunQuery(c)
    <3>1. total' \in [Clients -> 0..MaxRows] /\ read' \in [Clients -> 0..MaxRows]
      <4>1. \/ /\ \E n \in 0..MaxRows : total' = [total EXCEPT ![c] = n]
               /\ read' = [read EXCEPT ![c] = 0]
            \/ total' = total /\ read' = read
        BY <2>1, Zenon DEF RunQuery
      <4> QED
        BY <4>1 DEF TypeOK
    <3>2. pc' \in [Clients -> Places] /\ result' \in [Clients -> Results]
      BY <2>1 DEF RunQuery, Return, Goto, TypeOK, Places, Results
    <3> QED
      BY <2>1, <3>1, <3>2 DEF RunQuery, TypeOK
  <2>2. CASE NextRow(c)
    <3>1. read' \in [Clients -> 0..MaxRows]
      <4>1. read[c] \in 0..MaxRows /\ total[c] \in 0..MaxRows
        BY DEF TypeOK
      <4>2. read[c] < total[c] => read[c] + 1 \in 0..MaxRows
        BY <4>1
      <4> QED
        BY <2>2, <4>2 DEF NextRow, TypeOK
    <3>2. pc' \in [Clients -> Places] /\ result' \in [Clients -> Results]
      BY <2>2 DEF NextRow, Goto, TypeOK, Places, Results
    <3> QED
      BY <2>2, <3>1, <3>2 DEF NextRow, TypeOK
  <2>3. CASE LastRow(c)
    BY <2>3 DEF LastRow, Goto, TypeOK, Places, Results
  <2>4. CASE FailScan(c)
    BY <2>4 DEF FailScan, Return, Goto, TypeOK, Places, Results
  <2> QED
    BY <1>3, <2>1, <2>2, <2>3, <2>4 DEF Database
<1>4. ASSUME NEW c \in Clients, Expire(c) PROVE TypeOK'
  BY <1>4 DEF Expire, TypeOK
<1>5. ASSUME NEW s \in Sources, SetSource(s) PROVE TypeOK'
  BY <1>5 DEF SetSource, TypeOK
<1>6. ASSUME NEW s \in Sources, CloseHandle(s) PROVE TypeOK'
  BY <1>6 DEF CloseHandle, TypeOK
<1>7. CASE Close
  BY <1>7 DEF Close, TypeOK, Known
<1>8. CASE UNCHANGED vars
  BY <1>8 DEF vars, TypeOK
<1> QED
  BY <1>1, <1>2, <1>3, <1>4, <1>5, <1>6, <1>7, <1>8 DEF Next
-----------------------------------------------------------------------------
\* What the invariant reads of request c stays as it is.
Untouched(c) ==
  /\ header'[c] = header[c] /\ jar'[c] = jar[c] /\ req'[c] = req[c]
  /\ grants'[c] = grants[c] /\ routed'[c] = routed[c]
  /\ cookie'[c] = cookie[c] /\ pc'[c] = pc[c] /\ source'[c] = source[c]
  /\ text'[c] = text[c] /\ total'[c] = total[c] /\ read'[c] = read[c]
  /\ result'[c] = result[c] /\ logged'[c] = logged[c] /\ reply'[c] = reply[c]

\* A request nothing happens to keeps its invariant while the registry grows.
LEMMA Bystander ==
  ASSUME NEW c \in Clients, RequestInv(c), Untouched(c),
         dbs # <<>> => dbs' # <<>> /\ dbs'[1] = dbs[1]
  PROVE  RequestInv(c)'
<1> USE DEF Untouched
<1>1. FreshInv(c)' /\ TextInv(c)' /\ LogInv(c)'
  BY DEF RequestInv, FreshInv, TextInv, LogInv
<1>2. RowInv(c)' /\ ReplyInv(c)'
  BY DEF RequestInv, RowInv, ReplyInv, Lesser
<1>3. AuthInv(c)' /\ AccessInv(c)'
  BY DEF RequestInv, AuthInv, AccessInv, Under, Ran, InCall, Exempt, HasAccess
<1>4. SourceInv(c)'
  BY DEF RequestInv, SourceInv, InCall
<1> QED
  BY <1>1, <1>2, <1>3, <1>4 DEF RequestInv

\* Steps for one request leave the others and the registry alone.
LEMMA Locality ==
  ASSUME TypeOK, NEW p \in Clients, NEW c \in Clients, c # p,
         Request(p) \/ Serve(p) \/ Database(p) \/ Expire(p)
  PROVE  Untouched(c) /\ dbs' = dbs
<1> USE DEF Untouched, TypeOK, registry, client, scan
<1>1. CASE Request(p)
  BY <1>1 DEF Request, Goto
<1>2. CASE Refuse(p)
  BY <1>2 DEF Refuse, Send, Goto
<1>3. CASE Accept(p)
  BY <1>3 DEF Accept, Goto
<1>4. CASE Allow(p)
  BY <1>4 DEF Allow, Goto
<1>5. CASE Deny(p)
  BY <1>5 DEF Deny, Send, Goto
<1>6. CASE Redirect(p)
  BY <1>6 DEF Redirect, Send, Goto
<1>7. CASE Reject(p)
  BY <1>7 DEF Reject, Send, Goto
<1>8. CASE ServePage(p)
  BY <1>8 DEF ServePage, Send, Goto
<1>9. CASE ServeQuery(p)
  BY <1>9 DEF ServeQuery, Goto
<1>10. CASE QueryMeta(p)
  BY <1>10 DEF QueryMeta, Return, Goto
<1>11. CASE FindHandle(p)
  BY <1>11 DEF FindHandle, Return, Goto
<1>12. CASE Enter(p)
  BY <1>12 DEF Enter, Return, Goto
<1>13. CASE Resolve(p)
  BY <1>13 DEF Resolve, Return, Goto
<1>14. CASE EndRows(p)
  BY <1>14 DEF EndRows, Goto
<1>15. CASE LogQuery(p)
  BY <1>15 DEF LogQuery, Goto
<1>16. CASE AnswerError(p)
  BY <1>16 DEF AnswerError, Send, Goto
<1>17. CASE AnswerRows(p)
  BY <1>17 DEF AnswerRows, Send, Goto
<1>18. CASE AnswerTorn(p)
  BY <1>18 DEF AnswerTorn, Send, Goto
<1>19. CASE Deliver(p)
  BY <1>19 DEF Deliver, Goto
<1>20. CASE RunQuery(p)
  BY <1>20 DEF RunQuery, Return, Goto
<1>21. CASE NextRow(p)
  BY <1>21 DEF NextRow, Goto
<1>22. CASE LastRow(p)
  BY <1>22 DEF LastRow, Goto
<1>23. CASE FailScan(p)
  BY <1>23 DEF FailScan, Return, Goto
<1>24. CASE Expire(p)
  BY <1>24 DEF Expire
<1>25. CASE BreakOff(p)
  BY <1>25 DEF BreakOff, Send, Goto
<1> QED
  BY <1>1, <1>2, <1>3, <1>4, <1>5, <1>6, <1>7, <1>8, <1>9, <1>10, <1>11, <1>12, <1>13, <1>14, <1>15, <1>16, <1>17, <1>18, <1>19, <1>20, <1>21, <1>22, <1>23, <1>24,
     <1>25 DEF Serve, Database
-----------------------------------------------------------------------------
(* One lemma per action: the request it is about keeps its invariant.      *)

LEMMA RequestStep ==
  ASSUME TypeOK, NEW c \in Clients, RequestInv(c), Request(c)
  PROVE  RequestInv(c)'
<1> USE SourcesAssumption, LimitsAssumption DEF TypeOK, RequestInv, registry, client, scan
<1>1. FreshInv(c)' /\ SourceInv(c)'
  BY DEF Request, Goto, FreshInv, SourceInv, InCall, Known
<1>2. TextInv(c)' /\ LogInv(c)'
  BY NoEntries DEF Request, Goto, TextInv, LogInv, FreshInv
<1>3. AuthInv(c)' /\ AccessInv(c)'
  BY DEF Request, Goto, AuthInv, AccessInv, Under, Ran, InCall, Exempt, HasAccess, FreshInv
<1>4. RowInv(c)' /\ ReplyInv(c)'
  BY DEF Request, Goto, RowInv, ReplyInv, FreshInv, Lesser
<1> QED
  BY <1>1, <1>2, <1>3, <1>4

LEMMA RefuseStep ==
  ASSUME TypeOK, NEW c \in Clients, RequestInv(c), Refuse(c)
  PROVE  RequestInv(c)'
<1> USE SourcesAssumption, LimitsAssumption DEF TypeOK, RequestInv, registry, client, scan
<1>1. FreshInv(c)' /\ SourceInv(c)'
  BY DEF Refuse, Send, Goto, Status, FreshInv, SourceInv, InCall, Known
<1>2. TextInv(c)' /\ LogInv(c)'
  BY NoEntries DEF Refuse, Send, Goto, Status, TextInv, LogInv, FreshInv
<1>3. AuthInv(c)' /\ AccessInv(c)'
  BY DEF Refuse, Send, Goto, Status, AuthInv, AccessInv, Under, Ran, InCall, Exempt, HasAccess, FreshInv
<1>4. RowInv(c)' /\ ReplyInv(c)'
  BY DEF Refuse, Send, Goto, Status, RowInv, ReplyInv, FreshInv, Lesser
<1> QED
  BY <1>1, <1>2, <1>3, <1>4

LEMMA AcceptStep ==
  ASSUME TypeOK, NEW c \in Clients, RequestInv(c), Accept(c)
  PROVE  RequestInv(c)'
<1> USE SourcesAssumption, LimitsAssumption DEF TypeOK, RequestInv, registry, client, scan
<1>1. FreshInv(c)' /\ SourceInv(c)'
  BY DEF Accept, Goto, FreshInv, SourceInv, InCall, Known
<1>2. TextInv(c)' /\ LogInv(c)'
  BY NoEntries DEF Accept, Goto, TextInv, LogInv, FreshInv
<1>3. AuthInv(c)' /\ AccessInv(c)'
  BY DEF Accept, Goto, AuthInv, AccessInv, Under, Ran, InCall, Exempt, HasAccess, FreshInv
<1>4. RowInv(c)' /\ ReplyInv(c)'
  BY DEF Accept, Goto, RowInv, ReplyInv, FreshInv, Lesser
<1> QED
  BY <1>1, <1>2, <1>3, <1>4

LEMMA AllowStep ==
  ASSUME TypeOK, NEW c \in Clients, RequestInv(c), Allow(c)
  PROVE  RequestInv(c)'
<1> USE SourcesAssumption, LimitsAssumption DEF TypeOK, RequestInv, registry, client, scan
<1>1. FreshInv(c)' /\ SourceInv(c)'
  BY DEF Allow, Goto, FreshInv, SourceInv, InCall, Known
<1>2. TextInv(c)' /\ LogInv(c)'
  BY NoEntries DEF Allow, Goto, TextInv, LogInv, FreshInv
<1>3. AuthInv(c)' /\ AccessInv(c)'
  BY DEF Allow, Goto, AuthInv, AccessInv, Under, Ran, InCall, Exempt, HasAccess, FreshInv
<1>4. RowInv(c)' /\ ReplyInv(c)'
  BY DEF Allow, Goto, RowInv, ReplyInv, FreshInv, Lesser
<1> QED
  BY <1>1, <1>2, <1>3, <1>4

LEMMA DenyStep ==
  ASSUME TypeOK, NEW c \in Clients, RequestInv(c), Deny(c)
  PROVE  RequestInv(c)'
<1> USE SourcesAssumption, LimitsAssumption DEF TypeOK, RequestInv, registry, client, scan
<1>1. FreshInv(c)' /\ SourceInv(c)'
  BY DEF Deny, Send, Goto, Status, FreshInv, SourceInv, InCall, Known
<1>2. TextInv(c)' /\ LogInv(c)'
  BY NoEntries DEF Deny, Send, Goto, Status, TextInv, LogInv, FreshInv
<1>3. AuthInv(c)' /\ AccessInv(c)'
  BY DEF Deny, Send, Goto, Status, AuthInv, AccessInv, Under, Ran, InCall, Exempt, HasAccess, FreshInv
<1>4. RowInv(c)' /\ ReplyInv(c)'
  BY DEF Deny, Send, Goto, Status, RowInv, ReplyInv, FreshInv, Lesser
<1> QED
  BY <1>1, <1>2, <1>3, <1>4

LEMMA RedirectStep ==
  ASSUME TypeOK, NEW c \in Clients, RequestInv(c), Redirect(c)
  PROVE  RequestInv(c)'
<1> USE SourcesAssumption, LimitsAssumption DEF TypeOK, RequestInv, registry, client, scan
<1>1. FreshInv(c)' /\ SourceInv(c)'
  BY DEF Redirect, Send, Goto, Status, FreshInv, SourceInv, InCall, Known
<1>2. TextInv(c)' /\ LogInv(c)'
  BY NoEntries DEF Redirect, Send, Goto, Status, TextInv, LogInv, FreshInv
<1>3. AuthInv(c)' /\ AccessInv(c)'
  BY DEF Redirect, Send, Goto, Status, AuthInv, AccessInv, Under, Ran, InCall, Exempt, HasAccess, FreshInv
<1>4. RowInv(c)' /\ ReplyInv(c)'
  BY DEF Redirect, Send, Goto, Status, RowInv, ReplyInv, FreshInv, Lesser
<1> QED
  BY <1>1, <1>2, <1>3, <1>4

LEMMA RejectStep ==
  ASSUME TypeOK, NEW c \in Clients, RequestInv(c), Reject(c)
  PROVE  RequestInv(c)'
<1> USE SourcesAssumption, LimitsAssumption DEF TypeOK, RequestInv, registry, client, scan
<1>1. FreshInv(c)' /\ SourceInv(c)'
  BY DEF Reject, Send, Goto, Status, FreshInv, SourceInv, InCall, Known
<1>2. TextInv(c)' /\ LogInv(c)'
  BY NoEntries DEF Reject, Send, Goto, Status, TextInv, LogInv, FreshInv
<1>3. AuthInv(c)' /\ AccessInv(c)'
  BY DEF Reject, Send, Goto, Status, AuthInv, AccessInv, Under, Ran, InCall, Exempt, HasAccess, FreshInv
<1>4. RowInv(c)' /\ ReplyInv(c)'
  BY DEF Reject, Send, Goto, Status, RowInv, ReplyInv, FreshInv, Lesser
<1> QED
  BY <1>1, <1>2, <1>3, <1>4

LEMMA ServePageStep ==
  ASSUME TypeOK, NEW c \in Clients, RequestInv(c), ServePage(c)
  PROVE  RequestInv(c)'
<1> USE SourcesAssumption, LimitsAssumption DEF TypeOK, RequestInv, registry, client, scan
<1>1. FreshInv(c)' /\ SourceInv(c)'
  BY DEF ServePage, Send, Goto, Status, FreshInv, SourceInv, InCall, Known
<1>2. TextInv(c)' /\ LogInv(c)'
  BY NoEntries DEF ServePage, Send, Goto, Status, TextInv, LogInv, FreshInv
<1>3. AuthInv(c)' /\ AccessInv(c)'
  BY DEF ServePage, Send, Goto, Status, AuthInv, AccessInv, Under, Ran, InCall, Exempt, HasAccess, FreshInv
<1>4. RowInv(c)' /\ ReplyInv(c)'
  BY DEF ServePage, Send, Goto, Status, RowInv, ReplyInv, FreshInv, Lesser
<1> QED
  BY <1>1, <1>2, <1>3, <1>4

LEMMA ServeQueryStep ==
  ASSUME TypeOK, NEW c \in Clients, RequestInv(c), ServeQuery(c)
  PROVE  RequestInv(c)'
<1> USE SourcesAssumption, LimitsAssumption DEF TypeOK, RequestInv, registry, client, scan
<1>1. FreshInv(c)' /\ SourceInv(c)'
  BY DEF ServeQuery, Goto, FreshInv, SourceInv, InCall, Known
<1>2. TextInv(c)' /\ LogInv(c)'
  BY NoEntries DEF ServeQuery, Goto, TextInv, LogInv, FreshInv
<1>3. AuthInv(c)' /\ AccessInv(c)'
  BY DEF ServeQuery, Goto, AuthInv, AccessInv, Under, Ran, InCall, Exempt, HasAccess, FreshInv
<1>4. RowInv(c)' /\ ReplyInv(c)'
  BY DEF ServeQuery, Goto, RowInv, ReplyInv, FreshInv, Lesser
<1> QED
  BY <1>1, <1>2, <1>3, <1>4

LEMMA QueryMetaStep ==
  ASSUME TypeOK, NEW c \in Clients, RequestInv(c), QueryMeta(c)
  PROVE  RequestInv(c)'
<1> USE SourcesAssumption, LimitsAssumption DEF TypeOK, RequestInv, registry, client, scan
<1>1. FreshInv(c)' /\ SourceInv(c)'
  BY DEF QueryMeta, Return, Goto, FreshInv, SourceInv, InCall, Known
<1>2. TextInv(c)' /\ LogInv(c)'
  BY NoEntries DEF QueryMeta, Return, Goto, TextInv, LogInv, FreshInv
<1>3. AuthInv(c)' /\ AccessInv(c)'
  BY DEF QueryMeta, Return, Goto, AuthInv, AccessInv, Under, Ran, InCall, Exempt, HasAccess, FreshInv
<1>4. RowInv(c)' /\ ReplyInv(c)'
  BY DEF QueryMeta, Return, Goto, RowInv, ReplyInv, FreshInv, Lesser
<1> QED
  BY <1>1, <1>2, <1>3, <1>4

LEMMA FindHandleStep ==
  ASSUME TypeOK, NEW c \in Clients, RequestInv(c), FindHandle(c)
  PROVE  RequestInv(c)'
<1> USE SourcesAssumption, LimitsAssumption DEF TypeOK, RequestInv, registry, client, scan
<1>1. FreshInv(c)' /\ SourceInv(c)'
  BY DEF FindHandle, Return, Goto, FreshInv, SourceInv, InCall, Known
<1>2. TextInv(c)' /\ LogInv(c)'
  BY NoEntries DEF FindHandle, Return, Goto, TextInv, LogInv, FreshInv
<1>3. AuthInv(c)' /\ AccessInv(c)'
  BY DEF FindHandle, Return, Goto, AuthInv, AccessInv, Under, Ran, InCall, Exempt, HasAccess, FreshInv
<1>4. RowInv(c)' /\ ReplyInv(c)'
  BY DEF FindHandle, Return, Goto, RowInv, ReplyInv, FreshInv, Lesser
<1> QED
  BY <1>1, <1>2, <1>3, <1>4

LEMMA EnterStep ==
  ASSUME TypeOK, NEW c \in Clients, RequestInv(c), Enter(c)
  PROVE  RequestInv(c)'
<1> USE SourcesAssumption, LimitsAssumption DEF TypeOK, RequestInv, registry, client, scan
<1>1. FreshInv(c)' /\ SourceInv(c)'
  BY DEF Enter, Return, Goto, FreshInv, SourceInv, InCall, Known
<1>2. TextInv(c)' /\ LogInv(c)'
  BY NoEntries DEF Enter, Return, Goto, TextInv, LogInv, FreshInv
<1>3. AuthInv(c)' /\ AccessInv(c)'
  BY DEF Enter, Return, Goto, AuthInv, AccessInv, Under, Ran, InCall, Exempt, HasAccess, FreshInv
<1>4. RowInv(c)' /\ ReplyInv(c)'
  BY DEF Enter, Return, Goto, RowInv, ReplyInv, FreshInv, Lesser
<1> QED
  BY <1>1, <1>2, <1>3, <1>4

LEMMA ResolveStep ==
  ASSUME TypeOK, NEW c \in Clients, RequestInv(c), Resolve(c)
  PROVE  RequestInv(c)'
<1> USE SourcesAssumption, LimitsAssumption DEF TypeOK, RequestInv, registry, client, scan
<1>1. FreshInv(c)' /\ SourceInv(c)'
  BY DEF Resolve, Return, Goto, FreshInv, SourceInv, InCall, Known
<1>2. TextInv(c)' /\ LogInv(c)'
  BY NoEntries DEF Resolve, Return, Goto, TextInv, LogInv, FreshInv
<1>3. AuthInv(c)' /\ AccessInv(c)'
  BY DEF Resolve, Return, Goto, AuthInv, AccessInv, Under, Ran, InCall, Exempt, HasAccess, FreshInv
<1>4. RowInv(c)' /\ ReplyInv(c)'
  BY DEF Resolve, Return, Goto, RowInv, ReplyInv, FreshInv, Lesser
<1> QED
  BY <1>1, <1>2, <1>3, <1>4

LEMMA EndRowsStep ==
  ASSUME TypeOK, NEW c \in Clients, RequestInv(c), EndRows(c)
  PROVE  RequestInv(c)'
<1> USE SourcesAssumption, LimitsAssumption DEF TypeOK, RequestInv, registry, client, scan
<1>1. FreshInv(c)' /\ SourceInv(c)'
  BY DEF EndRows, Goto, FreshInv, SourceInv, InCall, Known
<1>2. TextInv(c)' /\ LogInv(c)'
  BY NoEntries DEF EndRows, Goto, TextInv, LogInv, FreshInv
<1>3. AuthInv(c)' /\ AccessInv(c)'
  BY DEF EndRows, Goto, AuthInv, AccessInv, Under, Ran, InCall, Exempt, HasAccess, FreshInv
<1>4. RowInv(c)' /\ ReplyInv(c)'
  BY DEF EndRows, Goto, RowInv, ReplyInv, FreshInv, Lesser
<1> QED
  BY <1>1, <1>2, <1>3, <1>4

LEMMA LogQueryStep ==
  ASSUME TypeOK, NEW c \in Clients, RequestInv(c), LogQuery(c)
  PROVE  RequestInv(c)'
<1> USE SourcesAssumption, LimitsAssumption DEF TypeOK, RequestInv, registry, client, scan
<1>1. FreshInv(c)' /\ SourceInv(c)'
  BY DEF LogQuery, Goto, FreshInv, SourceInv, InCall, Known
<1>2. TextInv(c)' /\ LogInv(c)'
  <2>1. /\ result[c] = "ok" /\ source[c] # LocalSource /\ read[c] = total[c]
        /\ text[c] = IF req[c].text = "named" THEN "stored" ELSE req[c].text
    BY DEF LogQuery, TextInv, RowInv
  <2>2. logged'[c] \in {[src |-> source[c], text |-> text[c]], LogFailed}
    BY DEF LogQuery
  <2>3. UNCHANGED <<source, text, req, result, read, total>> /\ pc'[c] = "reply"
    BY DEF LogQuery, Goto
  <2>4. logged'[c] # NoEntry
    <3>1. [src |-> source[c], text |-> text[c]] \in Entries
      BY <2>1, TextInv(c), SourceInv(c) DEF LogQuery, Entries, TextInv, SourceInv, InCall, Asks
    <3>2. LogFailed # NoEntry
      BY DEF LogFailed, NoEntry
    <3> QED
      BY <2>2, <3>1, <3>2, NoEntries
  <2> QED
    BY <2>1, <2>2, <2>3, <2>4, NoEntries DEF TextInv, LogInv
<1>3. AuthInv(c)' /\ AccessInv(c)'
  BY DEF LogQuery, Goto, AuthInv, AccessInv, Under, Ran, InCall, Exempt, HasAccess, FreshInv
<1>4. RowInv(c)' /\ ReplyInv(c)'
  BY DEF LogQuery, Goto, RowInv, ReplyInv, FreshInv, Lesser
<1> QED
  BY <1>1, <1>2, <1>3, <1>4

LEMMA AnswerErrorStep ==
  ASSUME TypeOK, NEW c \in Clients, RequestInv(c), AnswerError(c)
  PROVE  RequestInv(c)'
<1> USE SourcesAssumption, LimitsAssumption DEF TypeOK, RequestInv, registry, client, scan
<1>1. FreshInv(c)' /\ SourceInv(c)'
  BY DEF AnswerError, Send, Goto, Status, Failed, FreshInv, SourceInv, InCall, Known
<1>2. TextInv(c)' /\ LogInv(c)'
  BY NoEntries DEF AnswerError, Send, Goto, Status, Failed, TextInv, LogInv, FreshInv
<1>3. AuthInv(c)' /\ AccessInv(c)'
  BY DEF AnswerError, Send, Goto, Status, Failed, AuthInv, AccessInv, Under, Ran, InCall, Exempt, HasAccess, FreshInv
<1>4. RowInv(c)' /\ ReplyInv(c)'
  BY DEF AnswerError, Send, Goto, Status, Failed, RowInv, ReplyInv, FreshInv, Lesser
<1> QED
  BY <1>1, <1>2, <1>3, <1>4

LEMMA AnswerRowsStep ==
  ASSUME TypeOK, NEW c \in Clients, RequestInv(c), AnswerRows(c)
  PROVE  RequestInv(c)'
<1> USE SourcesAssumption, LimitsAssumption DEF TypeOK, RequestInv, registry, client, scan
<1>1. FreshInv(c)' /\ SourceInv(c)'
  BY DEF AnswerRows, Send, Goto, Failed, FreshInv, SourceInv, InCall, Known
<1>2. TextInv(c)' /\ LogInv(c)'
  BY NoEntries DEF AnswerRows, Send, Goto, Failed, TextInv, LogInv, FreshInv
<1>3. AuthInv(c)' /\ AccessInv(c)'
  BY DEF AnswerRows, Send, Goto, Failed, AuthInv, AccessInv, Under, Ran, InCall, Exempt, HasAccess, FreshInv
<1>4. RowInv(c)' /\ ReplyInv(c)'
  BY DEF AnswerRows, Send, Goto, Failed, RowInv, ReplyInv, FreshInv, Lesser, Shown
<1> QED
  BY <1>1, <1>2, <1>3, <1>4

LEMMA AnswerTornStep ==
  ASSUME TypeOK, NEW c \in Clients, RequestInv(c), AnswerTorn(c)
  PROVE  RequestInv(c)'
<1> USE SourcesAssumption, LimitsAssumption DEF TypeOK, RequestInv, registry, client, scan
<1>1. FreshInv(c)' /\ SourceInv(c)'
  BY DEF AnswerTorn, Send, Goto, Status, Torn, Failed, FreshInv, SourceInv, InCall, Known
<1>2. TextInv(c)' /\ LogInv(c)'
  BY NoEntries DEF AnswerTorn, Send, Goto, Status, Torn, Failed, TextInv, LogInv, FreshInv
<1>3. AuthInv(c)' /\ AccessInv(c)'
  BY DEF AnswerTorn, Send, Goto, Status, Torn, Failed, AuthInv, AccessInv, Under, Ran, InCall, Exempt, HasAccess, FreshInv
<1>4. RowInv(c)' /\ ReplyInv(c)'
  BY DEF AnswerTorn, Send, Goto, Status, Torn, Failed, RowInv, ReplyInv, FreshInv, Lesser
<1> QED
  BY <1>1, <1>2, <1>3, <1>4

LEMMA BreakOffStep ==
  ASSUME TypeOK, NEW c \in Clients, RequestInv(c), BreakOff(c)
  PROVE  RequestInv(c)'
<1> USE SourcesAssumption, LimitsAssumption DEF TypeOK, RequestInv, registry, client, scan
<1>1. FreshInv(c)' /\ SourceInv(c)'
  BY DEF BreakOff, Send, Goto, Torn, FreshInv, SourceInv, InCall, Known
<1>2. TextInv(c)' /\ LogInv(c)'
  BY NoEntries DEF BreakOff, Send, Goto, Torn, TextInv, LogInv, FreshInv
<1>3. AuthInv(c)' /\ AccessInv(c)'
  BY DEF BreakOff, Send, Goto, Torn, AuthInv, AccessInv, Under, Ran, InCall, Exempt, HasAccess, FreshInv
<1>4. RowInv(c)' /\ ReplyInv(c)'
  BY DEF BreakOff, Send, Goto, Torn, RowInv, ReplyInv, FreshInv, Lesser
<1> QED
  BY <1>1, <1>2, <1>3, <1>4

LEMMA DeliverStep ==
  ASSUME TypeOK, NEW c \in Clients, RequestInv(c), Deliver(c)
  PROVE  RequestInv(c)'
<1> USE SourcesAssumption, LimitsAssumption DEF TypeOK, RequestInv, registry, client, scan
<1>1. FreshInv(c)' /\ SourceInv(c)'
  BY DEF Deliver, Goto, NoReply, Status, FreshInv, SourceInv, InCall, Known
<1>2. TextInv(c)' /\ LogInv(c)'
  BY NoEntries DEF Deliver, Goto, NoReply, Status, TextInv, LogInv, FreshInv
<1>3. AuthInv(c)' /\ AccessInv(c)'
  <2>1. /\ pc[c] = "answered" /\ pc'[c] \in {"arrive", "done"}
        /\ UNCHANGED <<header, grants, req, source, result>>
        /\ jar[c] => jar'[c]
    BY DEF Deliver, Goto
  <2>2. pc'[c] = "arrive" => result[c] = "none" /\ cookie'[c] = jar'[c]
    BY DEF Deliver, Goto, FreshInv
  <2>3. pc'[c] = "done" => cookie' = cookie
    BY DEF Deliver, Goto
  <2>4. Under(c)' => Under(c) /\ pc'[c] = "done"
    BY <2>1, <2>2 DEF Under, Ran, InCall
  <2>5. AuthInv(c)'
    BY <2>1, <2>4 DEF AuthInv
  <2>6. AccessInv(c)'
    BY <2>1, <2>2, <2>3, <2>4 DEF AccessInv, HasAccess
  <2> QED
    BY <2>5, <2>6
<1>4. RowInv(c)' /\ ReplyInv(c)'
  BY DEF Deliver, Goto, NoReply, Status, RowInv, ReplyInv, FreshInv, Lesser
<1> QED
  BY <1>1, <1>2, <1>3, <1>4

LEMMA RunQueryStep ==
  ASSUME TypeOK, NEW c \in Clients, RequestInv(c), RunQuery(c)
  PROVE  RequestInv(c)'
<1> USE SourcesAssumption, LimitsAssumption DEF TypeOK, RequestInv, registry, client, scan
<1>1. FreshInv(c)' /\ SourceInv(c)'
  BY DEF RunQuery, Return, Goto, FreshInv, SourceInv, InCall, Known
<1>2. TextInv(c)' /\ LogInv(c)'
  BY NoEntries DEF RunQuery, Return, Goto, TextInv, LogInv, FreshInv
<1>3. AuthInv(c)' /\ AccessInv(c)'
  BY DEF RunQuery, Return, Goto, AuthInv, AccessInv, Under, Ran, InCall, Exempt, HasAccess, FreshInv
<1>4. RowInv(c)' /\ ReplyInv(c)'
  BY DEF RunQuery, Return, Goto, RowInv, ReplyInv, FreshInv, Lesser
<1> QED
  BY <1>1, <1>2, <1>3, <1>4

LEMMA NextRowStep ==
  ASSUME TypeOK, NEW c \in Clients, RequestInv(c), NextRow(c)
  PROVE  RequestInv(c)'
<1> USE SourcesAssumption, LimitsAssumption DEF TypeOK, RequestInv, registry, client, scan
<1>1. FreshInv(c)' /\ SourceInv(c)'
  BY DEF NextRow, Goto, FreshInv, SourceInv, InCall, Known
<1>2. TextInv(c)' /\ LogInv(c)'
  BY NoEntries DEF NextRow, Goto, TextInv, LogInv, FreshInv
<1>3. AuthInv(c)' /\ AccessInv(c)'
  BY DEF NextRow, Goto, AuthInv, AccessInv, Under, Ran, InCall, Exempt, HasAccess, FreshInv
<1>4. RowInv(c)' /\ ReplyInv(c)'
  <2>1. read[c] <= RowLimit /\ read[c] < total[c] /\ result[c] = "none" /\ text[c] # "meta"
    BY DEF NextRow, RowInv, FreshInv, TextInv
  <2>2. CASE read[c] = RowLimit
    BY <2>1, <2>2 DEF NextRow, Goto, RowInv, ReplyInv
  <2>3. CASE read[c] # RowLimit
    <3>1. read[c] + 1 <= RowLimit /\ read[c] + 1 <= total[c]
      BY <2>1, <2>3
    <3>2. read'[c] = read[c] + 1 /\ UNCHANGED <<pc, result, total, text>>
      BY <2>3 DEF NextRow
    <3> QED
      BY <2>1, <3>1, <3>2 DEF NextRow, RowInv, ReplyInv
  <2> QED
    BY <2>2, <2>3
<1> QED
  BY <1>1, <1>2, <1>3, <1>4

LEMMA LastRowStep ==
  ASSUME TypeOK, NEW c \in Clients, RequestInv(c), LastRow(c)
  PROVE  RequestInv(c)'
<1> USE SourcesAssumption, LimitsAssumption DEF TypeOK, RequestInv, registry, client, scan
<1>1. FreshInv(c)' /\ SourceInv(c)'
  BY DEF LastRow, Goto, FreshInv, SourceInv, InCall, Known
<1>2. TextInv(c)' /\ LogInv(c)'
  BY NoEntries DEF LastRow, Goto, TextInv, LogInv, FreshInv
<1>3. AuthInv(c)' /\ AccessInv(c)'
  BY DEF LastRow, Goto, AuthInv, AccessInv, Under, Ran, InCall, Exempt, HasAccess, FreshInv
<1>4. RowInv(c)' /\ ReplyInv(c)'
  BY DEF LastRow, Goto, RowInv, ReplyInv, FreshInv, Lesser
<1> QED
  BY <1>1, <1>2, <1>3, <1>4

LEMMA FailScanStep ==
  ASSUME TypeOK, NEW c \in Clients, RequestInv(c), FailScan(c)
  PROVE  RequestInv(c)'
<1> USE SourcesAssumption, LimitsAssumption DEF TypeOK, RequestInv, registry, client, scan
<1>1. FreshInv(c)' /\ SourceInv(c)'
  BY DEF FailScan, Return, Goto, FreshInv, SourceInv, InCall, Known
<1>2. TextInv(c)' /\ LogInv(c)'
  BY NoEntries DEF FailScan, Return, Goto, TextInv, LogInv, FreshInv
<1>3. AuthInv(c)' /\ AccessInv(c)'
  BY DEF FailScan, Return, Goto, AuthInv, AccessInv, Under, Ran, InCall, Exempt, HasAccess, FreshInv
<1>4. RowInv(c)' /\ ReplyInv(c)'
  BY DEF FailScan, Return, Goto, RowInv, ReplyInv, FreshInv, Lesser
<1> QED
  BY <1>1, <1>2, <1>3, <1>4

LEMMA ExpireStep ==
  ASSUME TypeOK, NEW c \in Clients, RequestInv(c), Expire(c)
  PROVE  RequestInv(c)'
<1> USE SourcesAssumption, LimitsAssumption DEF TypeOK, RequestInv, registry, client, scan
<1>1. FreshInv(c)' /\ SourceInv(c)'
  BY DEF Expire, FreshInv, SourceInv, InCall, Known
<1>2. TextInv(c)' /\ LogInv(c)'
  BY NoEntries DEF Expire, TextInv, LogInv, FreshInv
<1>3. AuthInv(c)' /\ AccessInv(c)'
  BY DEF Expire, AuthInv, AccessInv, Under, Ran, InCall, Exempt, HasAccess, FreshInv
<1>4. RowInv(c)' /\ ReplyInv(c)'
  BY DEF Expire, RowInv, ReplyInv, FreshInv, Lesser
<1> QED
  BY <1>1, <1>2, <1>3, <1>4

-----------------------------------------------------------------------------
LEMMA Initially == Init => IInv
<1> SUFFICES ASSUME Init
    PROVE  IInv
  OBVIOUS
<1>0. 0 \in 0..MaxRows
  BY LimitsAssumption
<1> USE SourcesAssumption, LimitsAssumption DEF Init
<1>1. TypeOK
  <2>1. reply \in [Clients -> Replies]
    BY StatusReply DEF NoReply
  <2>2. logged \in [Clients -> Entries \cup {NoEntry, LogFailed}]
    OBVIOUS
  <2>3. dbs \in Seq(Sources) /\ closing \subseteq Sources /\ shut \subseteq Sources
    OBVIOUS
  <2>4. /\ pc \in [Clients -> Places] /\ result \in [Clients -> Results]
        /\ text \in [Clients -> Texts \cup {"stored"}]
    BY DEF Places, Results, Texts
  <2>5. /\ total \in [Clients -> 0..MaxRows] /\ read \in [Clients -> 0..MaxRows]
        /\ counts \in [Counters -> Nat]
        /\ source \in [Clients -> Sources \cup {NoSource}]
    BY <1>0
  <2>6. /\ header \in [Clients -> BOOLEAN] /\ jar \in [Clients -> BOOLEAN]
        /\ req \in [Clients -> Asks] /\ cookie \in [Clients -> BOOLEAN]
        /\ routed \in [Clients -> BOOLEAN] /\ live \in [Clients -> BOOLEAN]
        /\ grants \in [Clients -> Rights]
    OBVIOUS
  <2> QED
    BY <2>1, <2>2, <2>3, <2>4, <2>5, <2>6 DEF TypeOK
<1>2. ASSUME NEW c \in Clients PROVE RequestInv(c)
  <2>1. pc[c] = "new" /\ result[c] = "none" /\ logged[c] = NoEntry
        /\ source[c] = NoSource /\ cookie[c] = jar[c]
    OBVIOUS
  <2> QED
    BY <2>1, NoEntries DEF RequestInv, FreshInv, AuthInv, AccessInv, SourceInv,
       TextInv, RowInv, ReplyInv, LogInv, Under, Ran, InCall
<1> QED
  BY <1>1, <1>2 DEF IInv

\* A step is for one request, whose lemma it is, and the others stand by; or
\* it is for the registry, and all do.
LEMMA Inductive == IInv /\ [Next]_vars => IInv'
<1> SUFFICES ASSUME IInv, [Next]_vars
    PROVE  IInv'
  OBVIOUS
<1>1. TypeOK /\ TypeOK' /\ \A c \in Clients : RequestInv(c)
  BY TypeStep DEF IInv
<1>2. ASSUME NEW p \in Clients, Request(p) \/ Serve(p) \/ Database(p) \/ Expire(p)
      PROVE  \A c \in Clients : RequestInv(c)'
  <2>1. RequestInv(p)'
    BY <1>1, <1>2,
       RequestStep, RefuseStep, AcceptStep, AllowStep, DenyStep,
       RedirectStep, RejectStep, ServePageStep, ServeQueryStep,
       QueryMetaStep, FindHandleStep, EnterStep, ResolveStep, EndRowsStep,
       LogQueryStep, AnswerErrorStep, AnswerRowsStep, AnswerTornStep, BreakOffStep,
       DeliverStep, RunQueryStep, NextRowStep, LastRowStep, FailScanStep,
       ExpireStep
       DEF Serve, Database
  <2>2. ASSUME NEW c \in Clients, c # p PROVE RequestInv(c)'
    <3>1. Untouched(c) /\ dbs' = dbs
      BY <1>1, <1>2, <2>2, Locality
    <3> QED
      BY <1>1, <3>1, Bystander
  <2> QED
    BY <2>1, <2>2
<1>3. ASSUME dbs # <<>> => dbs' # <<>> /\ dbs'[1] = dbs[1],
             \A c \in Clients : Untouched(c)
      PROVE  \A c \in Clients : RequestInv(c)'
  BY <1>1, <1>3, Bystander
<1>4. ASSUME NEW s \in Sources, SetSource(s) PROVE \A c \in Clients : RequestInv(c)'
  <2>1. dbs # <<>> => dbs' # <<>> /\ dbs'[1] = dbs[1]
    <3>1. dbs \in Seq(Sources) /\ (dbs' = dbs \/ dbs' = Append(dbs, s))
      BY <1>1, <1>4 DEF SetSource, TypeOK
    <3> QED
      BY <3>1
  <2>2. \A c \in Clients : Untouched(c)
    BY <1>4 DEF SetSource, Untouched, client, scan
  <2> QED
    BY <1>3, <2>1, <2>2
<1>5. ASSUME NEW s \in Sources, CloseHandle(s) PROVE \A c \in Clients : RequestInv(c)'
  BY <1>3, <1>5 DEF CloseHandle, Untouched, client, scan
<1>6. ASSUME Close PROVE \A c \in Clients : RequestInv(c)'
  BY <1>3, <1>6 DEF Close, Untouched, client, scan
<1>7. ASSUME UNCHANGED vars PROVE \A c \in Clients : RequestInv(c)'
  BY <1>3, <1>7 DEF vars, registry, client, scan, Untouched
<1> QED
  BY <1>1, <1>2, <1>4, <1>5, <1>6, <1>7 DEF Next, IInv

LEMMA Invariance == Spec => []IInv
BY Initially, Inductive, PTL DEF Spec

\* Requests, answers, the log and the counters keep their types (tailsql.go).
THEOREM TypeCorrect == Spec => []TypeOK
<1>1. IInv => TypeOK
  BY DEF IInv
<1> QED
  BY <1>1, Invariance, PTL

\* For any requests and any access rights, what runs is what checkAuth
\* accepted (tailsql.go:246-253, 579-609).
THEOREM RunsAuthorized == Spec => []AuthorizedRuns
<1>1. IInv => AuthorizedRuns
  BY DEF IInv, RequestInv, AuthInv, Under, AuthorizedRuns
<1> QED
  BY <1>1, Invariance, PTL

\* No browser's query runs that was not sent with the site access cookie
\* (tailsql.go:298-302, 341, 366).
THEOREM RunsWithAccess == Spec => []SiteAccess
<1>1. IInv => SiteAccess
  BY DEF IInv, RequestInv, AccessInv, Under, HasAccess, SiteAccess
<1> QED
  BY <1>1, Invariance, PTL

\* The default source is the first, however many sources are added
\* (tailsql.go:246-251, 625-626).
THEOREM DefaultAlwaysFirst == Spec => []DefaultIsFirst
<1>1. IInv => DefaultIsFirst
  BY SourcesAssumption DEF IInv, RequestInv, SourceInv, DefaultIsFirst
<1> QED
  BY <1>1, Invariance, PTL

\* For any row limit and UI limit, an answer has all rows up to the limits
\* and says whether there are more (tailsql.go:325-329, 485-511).
THEOREM RowsAlwaysExact == Spec => []RowsExact
<1>1. ASSUME IInv PROVE RowsExact
  <2> SUFFICES ASSUME NEW c \in Clients, pc[c] = "done", reply[c].code = "200",
                      ~reply[c].torn, result[c] \in {"ok", "tooMany"}
      PROVE  LET r == reply[c]
                 want == IF text[c] = "meta" THEN total[c] ELSE Lesser(total[c], RowLimit)
             IN  /\ r.num = want
                 /\ r.rows = IF req[c].path = "/" THEN Lesser(want, UILimit) ELSE want
                 /\ req[c].path = "/" => (r.more <=> want < total[c])
    BY DEF RowsExact
  <2> DEFINE want == IF text[c] = "meta" THEN total[c] ELSE Lesser(total[c], RowLimit)
  <2>1. total[c] \in Nat /\ read[c] \in Nat /\ RowLimit \in Nat
    BY <1>1, LimitsAssumption DEF IInv, TypeOK
  <2>2. read[c] = want /\ (result[c] = "tooMany" <=> want < total[c])
    BY <1>1, <2>1 DEF IInv, RequestInv, RowInv, Lesser
  <2> QED
    BY <1>1, <2>2 DEF IInv, RequestInv, ReplyInv
<1> QED
  BY <1>1, Invariance, PTL

\* An entry of the log is of a query that ran to its last row, with the text
\* the database ran (tailsql.go:448-470).
THEOREM LogAlwaysTruthful == Spec => []LogTruthful
<1>1. IInv => LogTruthful
  BY DEF IInv, RequestInv, LogInv, LogTruthful
<1> QED
  BY <1>1, Invariance, PTL

\* Every query read to its last row is in the log, or LogQuery failed, when
\* its answer is made (tailsql.go:453-461).
THEOREM CompleteAlwaysLogged == Spec => []CompleteIsLogged
<1>1. IInv => CompleteIsLogged
  BY DEF IInv, RequestInv, LogInv, CompleteIsLogged
<1> QED
  BY <1>1, Invariance, PTL

\* The log is exact, for any number of requests, sources and rows, wherever
\* queries fail, are cut off or time out (tailsql.go:448-470).
THEOREM LogAlwaysExact == Spec => []LogIsExact
<1>1. LogTruthful /\ CompleteIsLogged => LogIsExact
  BY DEF LogIsExact
<1> QED
  BY LogAlwaysTruthful, CompleteAlwaysLogged, <1>1, PTL
-----------------------------------------------------------------------------
(* The error counters.  A step of a request adds it to the counters that   *)
(* it becomes a matter for, to each once.                                  *)

\* Past the first checks of serveUI a request is one that counts; it is
\* answered with what queryContext returned, and a redirect is whole.
PassInv(c) ==
  /\ pc[c] \notin {"new", "arrive", "answered", "done"} => Admitted(c)
  /\ pc[c] \in {"end", "log", "reply"} => result[c] # "none"
  /\ reply[c].code = "302" => ~reply[c].torn

\* The step adds request c to the counters K.
Charges(c, K) ==
  /\ counts' = Add(K)
  /\ \A k \in Counters :
       /\ Charged(c, k)' <=> Charged(c, k) \/ k \in K
       /\ k \in K => ~Charged(c, k)

\* Steps that answer nothing.
LEMMA Passing ==
  ASSUME TypeOK, NEW c \in Clients, UNCHANGED <<client, reply, counts>>,
         pc[c] \notin {"answered", "done"}, pc'[c] \notin {"answered", "done"}
  PROVE  Charges(c, {})
BY DEF Charges, Charged, Add, TypeOK

\* An answer that names the counters it is a matter for.
LEMMA Sending ==
  ASSUME TypeOK, NEW c \in Clients, NEW r \in Replies, NEW K,
         Send(c, r, K), pc[c] \notin {"answered", "done"},
         UNCHANGED <<client, source, result>>,
         \A k \in Counters : Admitted(c) /\ Due(c, r, k) <=> k \in K,
         r.code = "302" => ~r.torn
  PROVE  PassInv(c)' /\ Charges(c, K)
<1>1. pc'[c] = "answered" /\ reply'[c] = r /\ counts' = Add(K)
  BY DEF Send, Goto, TypeOK
<1>2. Admitted(c)' <=> Admitted(c)
  BY DEF Admitted, client
<1>3. \A k \in Counters : Due(c, reply[c], k)' <=> Due(c, r, k)
  BY <1>1 DEF Due, client
<1>4. \A k \in Counters : (Charged(c, k)' <=> k \in K) /\ ~Charged(c, k)
  BY <1>1, <1>2, <1>3 DEF Charged
<1> QED
  BY <1>1, <1>4 DEF PassInv, Charges

LEMMA CountStep ==
  ASSUME TypeOK, NEW c \in Clients, RequestInv(c), PassInv(c),
         Request(c) \/ Serve(c) \/ Database(c) \/ Expire(c)
  PROVE  PassInv(c)' /\ \E K : Charges(c, K)
<1> USE DEF Codes
<1>1. CASE Request(c)
  BY <1>1, Passing DEF Request, Goto, TypeOK, PassInv
<1>2. CASE Refuse(c)
  <2>1. ~Admitted(c) /\ pc[c] = "arrive" /\ UNCHANGED <<client, source, result>>
    BY <1>2 DEF Refuse, Admitted
  <2>2. PICK code \in {"400", "404", "405"} : Send(c, Status(code), {})
    BY <1>2 DEF Refuse
  <2> QED
    BY <2>1, <2>2, StatusReply, Sending
<1>3. CASE Accept(c)
  BY <1>3, Passing DEF Accept, Goto, TypeOK, PassInv, Admitted, client
<1>4. CASE Allow(c) \/ ServeQuery(c)
  BY <1>4, Passing DEF Allow, ServeQuery, Goto, TypeOK, PassInv, Admitted, client
<1>5. CASE Deny(c)
  <2>1. /\ pc[c] = "auth" /\ result[c] = "none" /\ Admitted(c)
        /\ UNCHANGED <<client, source, result>>
    BY <1>5 DEF Deny, RequestInv, FreshInv, PassInv
  <2>2. PICK code \in {"401", "403", "500"} :
          Send(c, Status(code), {"auth"}) /\ (code = "403" => source[c] \notin grants[c])
    BY <1>5 DEF Deny
  <2>3. \A k \in Counters : Due(c, Status(code), k) <=> k \in {"auth"}
    BY <2>1, <2>2, StatusReply DEF Due, Counters
  <2> QED
    BY <2>1, <2>2, <2>3, StatusReply, Sending
<1>6. CASE Redirect(c)
  <2>1. /\ pc[c] = "dispatch" /\ result[c] = "none"
        /\ Send(c, Status("302"), {}) /\ UNCHANGED <<client, source, result>>
    BY <1>6 DEF Redirect, RequestInv, FreshInv
  <2>2. \A k \in Counters : ~Due(c, Status("302"), k)
    BY <2>1, StatusReply DEF Due, Counters
  <2> QED
    BY <2>1, <2>2, StatusReply, Sending
<1>7. CASE Reject(c)
  <2>1. /\ pc[c] = "dispatch" /\ result[c] = "none" /\ Admitted(c)
        /\ UNCHANGED <<client, source, result>>
    BY <1>7 DEF Reject, RequestInv, FreshInv, PassInv
  <2>2. PICK code \in {"400", "403", "404"} :
          /\ Send(c, Status(code), {"badRequest"})
          /\ code = "403" => req[c].path \in {"/csv", "/json"}
    BY <1>7 DEF Reject
  <2>3. code = "403" => source[c] \in grants[c]
    BY <2>1, <2>2 DEF RequestInv, AuthInv, Exempt
  <2>4. \A k \in Counters : Due(c, Status(code), k) <=> k \in {"badRequest"}
    BY <2>1, <2>2, <2>3, StatusReply DEF Due, Counters
  <2> QED
    BY <2>1, <2>2, <2>4, StatusReply, Sending
<1>8. CASE ServePage(c)
  <2>1. /\ pc[c] = "dispatch" /\ result[c] = "none"
        /\ Send(c, Status("200"), {}) /\ UNCHANGED <<client, source, result>>
    BY <1>8 DEF ServePage, RequestInv, FreshInv
  <2>2. \A k \in Counters : ~Due(c, Status("200"), k)
    BY <2>1, StatusReply DEF Due, Counters
  <2> QED
    BY <2>1, <2>2, StatusReply, Sending
<1>9. CASE QueryMeta(c) \/ FindHandle(c) \/ Enter(c) \/ Resolve(c)
  BY <1>9, Passing DEF QueryMeta, FindHandle, Enter, Resolve, Return, Goto, TypeOK,
                      PassInv, Admitted, client
<1>10. CASE EndRows(c) \/ LogQuery(c)
  BY <1>10, Passing DEF EndRows, LogQuery, Goto, TypeOK, PassInv, Admitted, client
<1>11. CASE AnswerError(c)
  <2>1. /\ result[c] \in {"400", "500"} /\ pc[c] = "reply" /\ Admitted(c)
        /\ UNCHANGED <<client, source, result>>
    BY <1>11 DEF AnswerError, Failed, PassInv
  <2>2. CASE req[c].path = "/"
    <3>1. Send(c, Status("200"), {"query"})
      BY <1>11, <2>2 DEF AnswerError
    <3>2. \A k \in Counters : Due(c, Status("200"), k) <=> k \in {"query"}
      BY <2>1, StatusReply DEF Due, Counters
    <3> QED
      BY <2>1, <3>1, <3>2, StatusReply, Sending
  <2>3. CASE req[c].path # "/"
    <3>1. Send(c, Status(result[c]), {"query", Blame(result[c])})
      BY <1>11, <2>3 DEF AnswerError
    <3>2. \A k \in Counters :
            Due(c, Status(result[c]), k) <=> k \in {"query", Blame(result[c])}
      BY <2>1, StatusReply DEF Due, Counters, Blame
    <3> QED
      BY <2>1, <3>1, <3>2, StatusReply, Sending
  <2> QED
    BY <2>2, <2>3
<1>12. CASE AnswerRows(c)
  <2>1. /\ result[c] \notin {"400", "500"} /\ pc[c] = "reply"
        /\ Send(c, RowsReply(c), {}) /\ UNCHANGED <<client, source, result>>
    BY <1>12 DEF AnswerRows, RowsReply, Failed
  <2>2. \A k \in Counters : ~Due(c, RowsReply(c), k)
    BY <2>1, RowsReplies DEF Due, Counters
  <2> QED
    BY <2>1, <2>2, RowsReplies, Sending
<1>13. CASE AnswerTorn(c)
  <2>1. /\ result[c] \notin {"400", "500", "none"} /\ pc[c] = "reply" /\ Admitted(c)
        /\ UNCHANGED <<client, source, result>>
    BY <1>13 DEF AnswerTorn, Failed, PassInv
  <2>2. PICK r \in Replies :
          /\ Send(c, r, {"internal"})
          /\ \/ r.code = "500" /\ ~r.torn
             \/ r.code = "200" /\ r.torn
    BY <1>13, StatusReply, TornReply DEF AnswerTorn
  <2>3. \A k \in Counters : Due(c, r, k) <=> k \in {"internal"}
    BY <2>1, <2>2 DEF Due, Counters
  <2> QED
    BY <2>1, <2>2, <2>3, Sending
<1>14. CASE BreakOff(c)
  <2> DEFINE K == {"internal"} \cup (IF Failed(c) THEN {"query"} ELSE {})
  <2>1. /\ pc[c] \in {"dispatch", "reply"} /\ Admitted(c)
        /\ UNCHANGED <<client, source, result>>
    BY <1>14 DEF BreakOff, PassInv
  <2>2. PICK n \in 0..Shown(c) : Send(c, Torn(n), K)
    BY <1>14 DEF BreakOff
  <2>3. n \in 0..MaxRows
    BY ShownRange, LimitsAssumption
  <2>4. \A k \in Counters : Due(c, Torn(n), k) <=> k \in K
    BY <2>3, TornReply DEF Due, Counters, Failed
  <2> HIDE DEF K
  <2> QED
    BY <2>1, <2>2, <2>3, <2>4, TornReply, Sending
<1>15. CASE Deliver(c)
  <2>1. /\ pc[c] = "answered" /\ UNCHANGED <<grants, req, source, result, counts>>
        /\ \/ reply[c].code = "302" /\ reply'[c] = NoReply /\ pc'[c] = "arrive"
           \/ UNCHANGED <<reply, routed>> /\ pc'[c] = "done"
    BY <1>15 DEF Deliver, Goto, TypeOK
  <2>2. NoReply.code # "302"
    BY StatusReply DEF NoReply
  <2>3. PassInv(c)'
    BY <2>1, <2>2 DEF PassInv
  <2>4. counts' = Add({})
    BY <2>1 DEF Add, TypeOK
  <2>5. \A k \in Counters : Charged(c, k)' <=> Charged(c, k)
    <3>1. CASE reply[c].code = "302" /\ pc'[c] = "arrive"
      <4>1. result[c] = "none" /\ ~reply[c].torn
        BY <2>1, <3>1 DEF RequestInv, FreshInv, PassInv
      <4>2. \A k \in Counters : ~Due(c, reply[c], k)
        BY <3>1, <4>1 DEF Due, Counters
      <4> QED
        BY <3>1, <4>2 DEF Charged
    <3>2. CASE UNCHANGED <<reply, routed>> /\ pc'[c] = "done"
      BY <2>1, <3>2 DEF Charged, Admitted, Due
    <3> QED
      BY <2>1, <3>1, <3>2
  <2> QED
    BY <2>3, <2>4, <2>5 DEF Charges
<1>16. CASE RunQuery(c) \/ FailScan(c)
  BY <1>16, Passing DEF RunQuery, FailScan, Return, Goto, TypeOK, PassInv, Admitted, client
<1>17. CASE NextRow(c) \/ LastRow(c)
  BY <1>17, Passing DEF NextRow, LastRow, Goto, TypeOK, PassInv, Admitted, client
<1>18. CASE Expire(c)
  BY <1>18, Passing DEF Expire, InCall, PassInv, Admitted, client
<1> QED
  BY <1>1, <1>2, <1>3, <1>4, <1>5, <1>6, <1>7, <1>8, <1>9, <1>10, <1>11, <1>12,
     <1>13, <1>14, <1>15, <1>16, <1>17, <1>18 DEF Serve, Database

\* Requests nothing happens to stay as they are.
LEMMA CountBystander ==
  ASSUME NEW c \in Clients, Untouched(c)
  PROVE  /\ \A k \in Counters : Charged(c, k)' <=> Charged(c, k)
         /\ PassInv(c)' <=> PassInv(c)
<1>1. Admitted(c)' <=> Admitted(c)
  BY DEF Untouched, Admitted
<1>2. \A k \in Counters : Due(c, reply[c], k)' <=> Due(c, reply[c], k)
  BY DEF Untouched, Due
<1> QED
  BY <1>1, <1>2 DEF Untouched, Charged, PassInv

\* Charging one request keeps every counter at the number of its requests.
LEMMA Tally ==
  ASSUME TypeOK, Counted, NEW p \in Clients, NEW K, Charges(p, K),
         \A c \in Clients : c # p => \A k \in Counters : Charged(c, k)' <=> Charged(c, k)
  PROVE  Counted'
<1> SUFFICES ASSUME NEW k \in Counters
             PROVE  counts'[k] = Cardinality({c \in Clients : Charged(c, k)})'
  BY DEF Counted
<1> DEFINE B == {c \in Clients : Charged(c, k)}
<1>1. IsFiniteSet(B) /\ counts[k] = Cardinality(B)
  BY ClientsAssumption, FS_Subset DEF Counted
<1>2. counts'[k] = IF k \in K THEN counts[k] + 1 ELSE counts[k]
  BY DEF Charges, Add
<1>3. Charged(p, k)' <=> Charged(p, k) \/ k \in K
  BY DEF Charges
<1>4. CASE k \in K
  <2>1. p \notin B /\ B' = B \cup {p}
    BY <1>3, <1>4 DEF Charges
  <2>2. Cardinality(B \cup {p}) = Cardinality(B) + 1
    BY <1>1, <2>1, FS_AddElement
  <2> QED
    BY <1>1, <1>2, <1>4, <2>1, <2>2
<1>5. CASE k \notin K
  <2>1. B' = B
    BY <1>3, <1>5
  <2> QED
    BY <1>1, <1>2, <1>5, <2>1
<1> QED
  BY <1>4, <1>5

CountInv == Counted /\ \A c \in Clients : PassInv(c)

LEMMA CountInitially == Init => CountInv
<1> SUFFICES ASSUME Init PROVE CountInv
  OBVIOUS
<1>1. ASSUME NEW k \in Counters PROVE counts[k] = Cardinality({c \in Clients : Charged(c, k)})
  <2>1. {c \in Clients : Charged(c, k)} = {}
    BY DEF Init, Charged
  <2>2. Cardinality({c \in Clients : Charged(c, k)}) = 0
    BY <2>1, FS_EmptySet
  <2> QED
    BY <2>2 DEF Init
<1>2. \A c \in Clients : PassInv(c)
  BY StatusReply DEF Init, PassInv, NoReply
<1> QED
  BY <1>1, <1>2 DEF CountInv, Counted

LEMMA CountInductive == IInv /\ CountInv /\ [Next]_vars => CountInv'
<1> SUFFICES ASSUME IInv, CountInv, [Next]_vars PROVE CountInv'
  OBVIOUS
<1>1. /\ TypeOK /\ Counted
      /\ \A c \in Clients : RequestInv(c) /\ PassInv(c)
  BY DEF IInv, CountInv
<1>2. ASSUME NEW p \in Clients, Request(p) \/ Serve(p) \/ Database(p) \/ Expire(p)
      PROVE  CountInv'
  <2>1. PassInv(p)' /\ \E K : Charges(p, K)
    BY <1>1, <1>2, CountStep
  <2>2. \A c \in Clients : c # p =>
          PassInv(c)' /\ \A k \in Counters : Charged(c, k)' <=> Charged(c, k)
    BY <1>1, <1>2, Locality, CountBystander
  <2>3. Counted'
    BY <1>1, <2>1, <2>2, Tally
  <2> QED
    BY <2>1, <2>2, <2>3 DEF CountInv
<1>3. ASSUME \A c \in Clients : Untouched(c), counts' = counts
      PROVE  CountInv'
  <2>1. \A c \in Clients :
          PassInv(c)' /\ \A k \in Counters : Charged(c, k)' <=> Charged(c, k)
    BY <1>1, <1>3, CountBystander
  <2>2. \A k \in Counters :
          {c \in Clients : Charged(c, k)}' = {c \in Clients : Charged(c, k)}
    BY <2>1
  <2>3. Counted'
    BY <1>1, <1>3, <2>2 DEF Counted
  <2> QED
    BY <2>1, <2>3 DEF CountInv
<1>4. ASSUME NEW s \in Sources, SetSource(s) \/ CloseHandle(s) PROVE CountInv'
  BY <1>3, <1>4 DEF SetSource, CloseHandle, Untouched, client, scan
<1>5. ASSUME Close \/ UNCHANGED vars PROVE CountInv'
  BY <1>3, <1>5 DEF Close, vars, registry, client, scan, Untouched
<1>6. CASE Next
  BY <1>2, <1>4, <1>5, <1>6 DEF Next
<1> QED
  BY <1>5, <1>6

\* However many requests there are, each error counter is the number of the
\* requests whose answer, or failed query, is a matter for it: none is missed,
\* counted twice, or counted by the wrong one (tailsql.go:254, 270-288, 316,
\* 349, 372).
THEOREM AlwaysCounted == Spec => []Counted
<1>1. CountInv => Counted
  BY DEF CountInv
<1> QED
  BY <1>1, Invariance, CountInitially, CountInductive, PTL DEF Spec
-----------------------------------------------------------------------------
(* The redirect.                                                           *)

\* Only the UI redirects, and only browsers without the cookie.
RedirectInv(c) ==
  reply[c].code = "302" =>
    /\ pc[c] = "answered" /\ req[c].path = "/"
    /\ ~header[c] /\ ~cookie[c]

\* What a step does to the cookie of request c.
Handed(c) ==
  /\ cookie[c] => cookie'[c]
  /\ reply[c].code = "302" /\ pc[c] = "answered" /\ pc'[c] = "arrive"
     => ~cookie[c] /\ cookie'[c]

\* Answers other than redirects.
LEMMA SendsOther ==
  ASSUME TypeOK, NEW c \in Clients, NEW r, NEW K, Send(c, r, K), r.code # "302"
  PROVE  reply'[c].code # "302" /\ pc'[c] = "answered"
BY DEF TypeOK, Send, Goto

\* A step for a request keeps its redirect right, and hands out the cookie.
LEMMA CookieStep ==
  ASSUME TypeOK, NEW c \in Clients, RedirectInv(c),
         Request(c) \/ Serve(c) \/ Database(c) \/ Expire(c)
  PROVE  RedirectInv(c)' /\ Handed(c)
<1> USE DEF RedirectInv, Handed, Codes
<1>1. ASSUME UNCHANGED <<client, reply>>, pc[c] # "answered"
      PROVE  RedirectInv(c)' /\ Handed(c)
  BY <1>1 DEF client
<1>2. ASSUME UNCHANGED client, pc[c] # "answered", NEW r, NEW K, Send(c, r, K), r.code # "302"
      PROVE  RedirectInv(c)' /\ Handed(c)
  BY <1>2, SendsOther DEF client
<1>3. CASE Request(c) \/ Expire(c)
  BY <1>1, <1>3 DEF Request, Expire, InCall
<1>4. CASE Accept(c) \/ Allow(c) \/ ServeQuery(c) \/ QueryMeta(c) \/ FindHandle(c)
             \/ Enter(c) \/ Resolve(c) \/ EndRows(c) \/ LogQuery(c)
  BY <1>1, <1>4 DEF Accept, Allow, ServeQuery, QueryMeta, FindHandle, Enter, Resolve,
                    EndRows, LogQuery
<1>5. CASE Database(c)
  BY <1>1, <1>5 DEF Database, RunQuery, NextRow, LastRow, FailScan
<1>6. CASE Refuse(c)
  BY <1>2, <1>6, StatusReply DEF Refuse
<1>7. CASE Deny(c)
  BY <1>2, <1>7, StatusReply DEF Deny
<1>8. CASE Reject(c)
  BY <1>2, <1>8, StatusReply DEF Reject
<1>9. CASE ServePage(c)
  BY <1>2, <1>9, StatusReply DEF ServePage
<1>10. CASE AnswerError(c)
  BY <1>2, <1>10, StatusReply DEF AnswerError, Failed
<1>11. CASE AnswerRows(c)
  <2>1. Send(c, RowsReply(c), {}) /\ pc[c] = "reply" /\ UNCHANGED client
    BY <1>11 DEF AnswerRows, RowsReply
  <2> QED
    BY <1>2, <2>1, RowsReplies
<1>12. CASE AnswerTorn(c)
  <2>1. PICK n \in 0..MaxRows :
          Send(c, IF n = 0 THEN Status("500") ELSE Torn(n), {"internal"})
    BY <1>12 DEF AnswerTorn
  <2>2. pc[c] = "reply" /\ UNCHANGED client
    BY <1>12 DEF AnswerTorn
  <2> QED
    BY <1>2, <2>1, <2>2, StatusReply, TornReply
<1>13. CASE Redirect(c)
  <2>1. /\ pc[c] = "dispatch" /\ req[c].path = "/" /\ ~header[c] /\ ~cookie[c]
        /\ Send(c, Status("302"), {}) /\ UNCHANGED client
    BY <1>13 DEF Redirect, HasAccess
  <2>2. reply'[c].code = "302" /\ pc'[c] = "answered"
    BY <2>1, StatusReply DEF Send, Goto, TypeOK
  <2> QED
    BY <2>1, <2>2 DEF client
<1>14. CASE Deliver(c)
  <2>1. CASE reply[c].code = "302"
    <3>1. /\ cookie' = [cookie EXCEPT ![c] = jar'[c]]
          /\ jar' = [jar EXCEPT ![c] = @ \/ (SetsCookie(c) /\ ~header[c])]
          /\ reply' = [reply EXCEPT ![c] = NoReply]
      BY <1>14, <2>1 DEF Deliver
    <3>2. SetsCookie(c) /\ ~header[c] /\ ~cookie[c]
      BY <2>1 DEF SetsCookie
    <3>3. jar'[c]
      BY <3>1, <3>2 DEF TypeOK
    <3>4. cookie'[c]
      BY <3>1, <3>3 DEF TypeOK
    <3>5. reply'[c].code # "302"
      BY <3>1, StatusReply DEF TypeOK, NoReply
    <3> QED
      BY <3>2, <3>4, <3>5
  <2>2. CASE reply[c].code # "302"
    <3>1. UNCHANGED <<cookie, reply>>
      BY <1>14, <2>2 DEF Deliver
    <3> QED
      BY <2>2, <3>1
  <2> QED
    BY <2>1, <2>2
<1>15. CASE BreakOff(c)
  <2>1. PICK n \in 0..Shown(c) :
          Send(c, Torn(n), {"internal"} \cup (IF Failed(c) THEN {"query"} ELSE {}))
    BY <1>15 DEF BreakOff
  <2>2. n \in 0..MaxRows
    BY ShownRange, LimitsAssumption
  <2>3. pc[c] # "answered" /\ UNCHANGED client
    BY <1>15 DEF BreakOff
  <2> QED
    BY <1>2, <2>1, <2>2, <2>3, TornReply
<1> HIDE DEF RedirectInv, Handed
<1> QED
  BY <1>3, <1>4, <1>5, <1>6, <1>7, <1>8, <1>9, <1>10, <1>11, <1>12, <1>13,
     <1>14, <1>15 DEF Serve

\* And every step keeps those of all requests.
LEMMA CookieInductive ==
  TypeOK /\ (\A c \in Clients : RedirectInv(c)) /\ [Next]_vars
  => \A c \in Clients : RedirectInv(c)' /\ Handed(c)
<1> SUFFICES ASSUME TypeOK, \A c \in Clients : RedirectInv(c), [Next]_vars, NEW c \in Clients
             PROVE  RedirectInv(c)' /\ Handed(c)
  OBVIOUS
<1>1. ASSUME Untouched(c) PROVE RedirectInv(c)' /\ Handed(c)
  BY <1>1 DEF Untouched, RedirectInv, Handed
<1>2. ASSUME NEW p \in Clients, Request(p) \/ Serve(p) \/ Database(p) \/ Expire(p)
      PROVE  RedirectInv(c)' /\ Handed(c)
  <2>1. CASE p = c
    BY <1>2, <2>1, CookieStep
  <2>2. CASE p # c
    BY <1>1, <1>2, <2>2, Locality
  <2> QED
    BY <2>1, <2>2
<1>3. ASSUME NEW s \in Sources, SetSource(s) \/ CloseHandle(s) PROVE Untouched(c)
  BY <1>3 DEF SetSource, CloseHandle, Untouched, client, scan
<1>4. ASSUME Close \/ UNCHANGED vars PROVE Untouched(c)
  BY <1>4 DEF Close, vars, registry, client, scan, Untouched
<1> QED
  BY <1>1, <1>2, <1>3, <1>4 DEF Next

\* However requests race, a request is redirected at most once: a redirect
\* takes a browser from having no cookie to having it, and nothing takes the
\* cookie from it (tailsql.go:276-302).
THEOREM RedirectedOnce == Spec => RedirectsOnce
<1> DEFINE Right == \A c \in Clients : RedirectInv(c)
<1>1. IInv => TypeOK
  BY DEF IInv
<1>2. Init => Right
  BY StatusReply DEF Init, RedirectInv, NoReply
<1>3. TypeOK /\ Right /\ [Next]_vars => Right' /\ \A c \in Clients : Handed(c)
  BY CookieInductive
<1>4. (\A c \in Clients : Handed(c)) =>
        [\A c \in Clients :
          /\ cookie[c] => cookie'[c]
          /\ reply[c].code = "302" /\ pc[c] = "answered" /\ pc'[c] = "arrive"
             => ~cookie[c] /\ cookie'[c]]_vars
  BY DEF Handed
<1> QED
  BY <1>1, <1>2, <1>3, <1>4, Invariance, PTL DEF Spec, RedirectsOnce
=============================================================================
