---------------------------- MODULE ConsoleFeed ----------------------------
(***************************************************************************)
(* The service console of one route: the requests and WebSocket events     *)
(* that are broadcast to it (BroadcastRoute, BroadcastEvent), the history  *)
(* kept for pages that connect later, and the pages themselves             *)
(* (HandleWebSocket, WebClient).  A route comes and goes with its forwards *)
(* (AddRoute, RemoveRoute, both under the bind-allocation lock).           *)
(*                                                                         *)
(* A message is <<id, 0>> for a request and <<id, seq>> for the events of  *)
(* request id; its length is all that is kept of its text.  What a page's  *)
(* queue holds are sets of messages: one message, or the history batch.    *)
(***************************************************************************)
EXTENDS Naturals, Sequences, SequencesExt, FiniteSetsExt

CONSTANTS
  Page,          \* browser pages
  Broadcasts,    \* bound: how many broadcasts there are
  Lengths,       \* lengths of messages
  SendQueueSize,     \* defaultWebClientSendQueueSize
  HistoryLimit,  \* service-console-history
  EventLimit,    \* service-console-websocket-messages
  MaxBytes,      \* consoleHistoryMaxBytes
  MaxAdds        \* bound: how often the route is added

ASSUME FeedAssumption ==
  /\ Lengths \subseteq Nat \ {0} /\ Broadcasts \in Nat
  /\ SendQueueSize \in Nat \ {0} /\ MaxBytes \in Nat
  /\ HistoryLimit \in Nat /\ EventLimit \in Nat /\ MaxAdds \in Nat

(* Broadcasts are numbered in the order they begin.                        *)
Job == 1 .. Broadcasts

VARIABLES
  token,     \* is the route in RouteTokens?
  entry,     \* does Clients have an entry for it?
  clients,   \* Clients[route]
  adds,      \* how often the route was added
  remover,   \* RemoveRoute: where it is
  leaving,   \* RemoveRoute: the pages it has yet to close
  history,   \* requestHistory.routes[route]
  requestID, \* the counter
  job,       \* the broadcasts
  page,      \* the goroutine that serves a page
  open,      \* the pages that are not closed
  snapped,   \* the pages whose history was read
  sender,    \* the batches waiting in send, of each page
  queue,     \* WebClient.Send
  dropped,   \* WebClient.dropped
  got,       \* history variable: messages taken for writing
  lost       \* history variable: messages that did not fit

routeVars == <<token, entry, clients, adds, remover, leaving>>
pageVars == <<page, open, snapped, sender, queue, dropped, got, lost>>
feedVars == <<routeVars, history, requestID, job, pageVars>>

Steps == {"new", "record", "copy", "queue", "count", "done"}

FeedTypeOK ==
  /\ token \in BOOLEAN /\ entry \in BOOLEAN /\ clients \subseteq Page
  /\ adds \in 0 .. MaxAdds
  /\ remover \in {"idle", "token", "history", "close"}
  /\ leaving \subseteq Page
  /\ requestID \in 0 .. Cardinality(Job)
  /\ \A j \in Job : /\ job[j].pc \in Steps /\ job[j].to \subseteq Page
                    /\ job[j].msg \in Nat \X Nat /\ job[j].len \in Lengths \cup {0}
  /\ page \in [Page -> {"new", "wait", "write", "leave", "gone"}]
  /\ open \subseteq Page /\ snapped \subseteq Page
  /\ \A p \in Page : Len(queue[p]) <= SendQueueSize /\ dropped[p] \in Nat

FeedInit ==
  /\ token = FALSE /\ entry = FALSE /\ clients = {} /\ adds = 0
  /\ remover = "idle" /\ leaving = {}
  /\ history = <<>> /\ requestID = 0
  /\ job = [j \in Job |-> [pc |-> "new", msg |-> <<0, 0>>, len |-> 0,
                           to |-> {}, full |-> {}]]
  /\ page = [p \in Page |-> "new"] /\ open = {} /\ snapped = {}
  /\ sender = [p \in Page |-> {}] /\ queue = [p \in Page |-> <<>>]
  /\ dropped = [p \in Page |-> 0]
  /\ got = [p \in Page |-> {}] /\ lost = [p \in Page |-> {}]

-----------------------------------------------------------------------------
(* The route.  The handler of a forward adds it if it is not there ...     *)
AddRoute ==
  /\ remover = "idle" /\ ~token /\ adds < MaxAdds
  /\ token' = TRUE /\ entry' = TRUE /\ adds' = adds + 1
  /\ UNCHANGED <<clients, remover, leaving, history, requestID, job, pageVars>>

(* ... and the teardown of its last backend removes it: the list of pages, *)
(* the token, the history, and then each page is closed.                   *)
RemoveRoute ==
  /\ remover = "idle" /\ token
  /\ leaving' = clients /\ clients' = {} /\ entry' = FALSE
  /\ remover' = "token"
  /\ UNCHANGED <<token, adds, history, requestID, job, pageVars>>

RemoveToken ==
  /\ remover = "token" /\ token' = FALSE /\ remover' = "history"
  /\ UNCHANGED <<entry, clients, adds, leaving, history, requestID, job, pageVars>>

removeRequestHistory ==
  /\ remover = "history" /\ history' = <<>> /\ remover' = "close"
  /\ UNCHANGED <<token, entry, clients, adds, leaving, requestID, job, pageVars>>

RemoverCloses ==
  /\ remover = "close"
  /\ IF leaving = {} THEN remover' = "idle" /\ UNCHANGED <<leaving, open>>
     ELSE \E p \in leaving : /\ leaving' = leaving \ {p} /\ open' = open \ {p}
                             /\ UNCHANGED remover
  /\ UNCHANGED <<token, entry, clients, adds, history, requestID, job, page,
                 snapped, sender, queue, dropped, got, lost>>

-----------------------------------------------------------------------------
(* The history.                                                            *)
Length(s) ==
  LET sum[i \in 0 .. Len(s)] == IF i = 0 THEN 0 ELSE sum[i - 1] + s[i].size
  IN sum[Len(s)]

TrimEvents(r) ==
  LET n == Len(r.events)
      drop == Min({k \in 0 .. n :
                k = n \/ r.size - Length(SubSeq(r.events, 1, k)) <= MaxBytes})
  IN [r EXCEPT !.size = @ - Length(SubSeq(r.events, 1, drop)),
               !.events = SubSeq(r.events, drop + 1, n)]

trim(records) ==
  LET n == Len(records)
      drop == Min({k \in 0 .. n - 1 :
                k = n - 1 \/ Length(SubSeq(records, k + 1, n)) <= MaxBytes})
      rest == SubSeq(records, drop + 1, n)
  IN IF Len(rest) = 1 THEN <<TrimEvents(rest[1])>> ELSE rest

(* The last n - 1 elements, to which one is appended.                      *)
KeepLast(s, n) == IF Len(s) < n THEN s ELSE SubSeq(s, Len(s) - n + 2, Len(s))

(* A mutant: whether the route exists was only checked at the beginning.   *)
addRequestHistoryLate(m, len) ==
  history' =
    IF HistoryLimit = 0 \/ len > MaxBytes THEN history
    ELSE trim(Append(KeepLast(history, HistoryLimit),
                     [id |-> m[1], size |-> len, events |-> <<>>]))

addRequestHistory(m, len) ==
  history' =
    IF HistoryLimit = 0 \/ len > MaxBytes \/ ~token THEN history
    ELSE trim(Append(KeepLast(history, HistoryLimit),
                     [id |-> m[1], size |-> len, events |-> <<>>]))

WithEvent(r, m, len) ==
  LET kept == KeepLast(r.events, EventLimit)
  IN [r EXCEPT !.events = Append(kept, [seq |-> m[2], size |-> len]),
               !.size = @ - (Length(r.events) - Length(kept)) + len]

addRequestEvent(m, len) ==
  LET at == {i \in DOMAIN history : history[i].id = m[1]} IN
  history' =
    IF EventLimit = 0 \/ HistoryLimit = 0 \/ at = {} THEN history
    ELSE trim([history EXCEPT ![Max(at)] = WithEvent(@, m, len)])

(* RequestHistory, as the set of its messages.                             *)
Retained ==
  UNION {{<<history[i].id, 0>>} \cup
         {<<history[i].id, e.seq>> : e \in ToSet(history[i].events)}
         : i \in DOMAIN history}

-----------------------------------------------------------------------------
(* A broadcast: the route is checked and the id taken, the message is      *)
(* recorded, the list of pages is copied, and the message is queued to     *)
(* each page without waiting.                                              *)
Begins(j) == job[j].pc = "new" /\ \A i \in 1 .. j - 1 : job[i].pc # "new"

JobAt(j, pc) == job' = [job EXCEPT ![j].pc = pc]

NotBroadcast(j) ==
  /\ Begins(j) /\ ~token /\ JobAt(j, "done")
  /\ UNCHANGED <<routeVars, history, requestID, pageVars>>

BroadcastRoute(j) ==
  /\ Begins(j) /\ token
  /\ requestID' = requestID + 1
  /\ \E n \in Lengths :
       job' = [job EXCEPT ![j].pc = "record", ![j].len = n,
                          ![j].msg = <<requestID + 1, 0>>]
  /\ UNCHANGED <<routeVars, history, pageVars>>

(* An event of a request r whose broadcast has returned its id.            *)
Seqs(id) == {job[i].msg[2] : i \in {k \in Job : job[k].msg[1] = id}}

BroadcastEvent(j, r) ==
  /\ Begins(j) /\ token
  /\ job[r].pc = "done" /\ job[r].msg[1] > 0 /\ job[r].msg[2] = 0
  /\ \E n \in Lengths :
       job' = [job EXCEPT ![j].pc = "record", ![j].len = n,
                 ![j].msg = <<job[r].msg[1], Max(Seqs(job[r].msg[1])) + 1>>]
  /\ UNCHANGED <<routeVars, history, requestID, pageVars>>

Record(j) ==
  /\ job[j].pc = "record"
  /\ IF job[j].msg[2] = 0 THEN addRequestHistory(job[j].msg, job[j].len)
                          ELSE addRequestEvent(job[j].msg, job[j].len)
  /\ JobAt(j, "copy")
  /\ UNCHANGED <<routeVars, requestID, pageVars>>

Queueing(b, to) == [b EXCEPT !.to = to, !.full = {},
                             !.pc = IF to = {} THEN "done" ELSE "queue"]

queueToRoute(j) ==
  /\ job[j].pc = "copy"
  /\ job' = [job EXCEPT ![j] = Queueing(@, clients)]
  /\ UNCHANGED <<routeVars, history, requestID, pageVars>>

(* A mutant: a message that does not fit is not counted.                   *)
EnqueueSilent(j) ==
  /\ job[j].pc = "queue"
  /\ \E p \in job[j].to :
       /\ job' = [job EXCEPT ![j] = Queueing(@, @.to \ {p})]
       /\ queue' = IF p \notin open \/ Len(queue[p]) = SendQueueSize THEN queue
                   ELSE [queue EXCEPT ![p] = Append(@, {job[j].msg})]
  /\ UNCHANGED <<routeVars, history, requestID, page, open, snapped, sender,
                 dropped, got, lost>>

(* WebClient.queue: a full queue is noticed first and counted afterwards.  *)
Enqueue(j) ==
  /\ job[j].pc = "queue"
  /\ \E p \in job[j].to :
       IF p \in open /\ Len(queue[p]) = SendQueueSize
       THEN /\ job' = [job EXCEPT ![j].pc = "count", ![j].full = {p}]
            /\ UNCHANGED queue
       ELSE /\ job' = [job EXCEPT ![j] = Queueing(@, @.to \ {p})]
            /\ queue' = IF p \notin open THEN queue
                        ELSE [queue EXCEPT ![p] = Append(@, {job[j].msg})]
  /\ UNCHANGED <<routeVars, history, requestID, page, open, snapped, sender,
                 dropped, got, lost>>

CountDropped(j) ==
  /\ job[j].pc = "count"
  /\ \E p \in job[j].full :
       /\ dropped' = [dropped EXCEPT ![p] = @ + 1]
       /\ lost' = [lost EXCEPT ![p] = @ \cup {job[j].msg}]
  /\ job' = [job EXCEPT ![j] = Queueing(@, @.to \ @.full)]
  /\ UNCHANGED <<routeVars, history, requestID, page, open, snapped, sender,
                 queue, got>>

-----------------------------------------------------------------------------
(* A page connects: HandleWebSocket adds it to the route, or closes it if  *)
(* the route is gone, and starts the goroutines that serve it ...          *)
ConnectPage(p) ==
  /\ page[p] = "new" /\ page' = [page EXCEPT ![p] = "wait"]
  /\ IF entry THEN clients' = clients \cup {p} /\ open' = open \cup {p}
              ELSE UNCHANGED <<clients, open>>
  /\ UNCHANGED <<token, entry, adds, remover, leaving, history, requestID, job, snapped,
                 sender, queue, dropped, got, lost>>

(* ... and then sends it the history: one batch, from a goroutine that     *)
(* waits for room in the queue or for the page to close.                   *)
sendRequestHistory(p) ==
  /\ page[p] # "new" /\ p \notin snapped
  /\ snapped' = snapped \cup {p}
  /\ sender' = [sender EXCEPT ![p] = Retained]
  /\ UNCHANGED <<routeVars, history, requestID, job, page, open, queue,
                 dropped, got, lost>>

(* A mutant: the goroutine only waits for room.                            *)
sendDeaf(p) ==
  /\ sender[p] # {} /\ Len(queue[p]) < SendQueueSize
  /\ queue' = [queue EXCEPT ![p] = Append(@, sender[p])]
  /\ sender' = [sender EXCEPT ![p] = {}]
  /\ UNCHANGED <<routeVars, history, requestID, job, page, open, snapped,
                 dropped, got, lost>>

send(p) ==
  /\ sender[p] # {}
  /\ \/ Len(queue[p]) < SendQueueSize
        /\ queue' = [queue EXCEPT ![p] = Append(@, sender[p])]
     \/ p \notin open /\ UNCHANGED queue
  /\ sender' = [sender EXCEPT ![p] = {}]
  /\ UNCHANGED <<routeVars, history, requestID, job, page, open, snapped,
                 dropped, got, lost>>

(* Handle: wait for a message or for the end ...                           *)
Take(p) ==
  /\ page[p] = "wait" /\ queue[p] # <<>>
  /\ page' = [page EXCEPT ![p] = "write"]
  /\ got' = [got EXCEPT ![p] = @ \cup Head(queue[p])]
  /\ queue' = [queue EXCEPT ![p] = Tail(@)]
  /\ UNCHANGED <<routeVars, history, requestID, job, open, snapped, sender,
                 dropped, lost>>

(* ... write it, which succeeds unless the page is closed or runs into the *)
(* write deadline, and then the notice for what was dropped so far.        *)
PageWritten(p) ==
  /\ page[p] = "write" /\ p \in open
  /\ page' = [page EXCEPT ![p] = "wait"]
  /\ dropped' = [dropped EXCEPT ![p] = 0]
  /\ UNCHANGED <<routeVars, history, requestID, job, open, snapped, sender,
                 queue, got, lost>>

HandleEnds(p) ==
  /\ \/ page[p] = "wait" /\ p \notin open
     \/ page[p] = "write"
  /\ page' = [page EXCEPT ![p] = "leave"]
  /\ UNCHANGED <<routeVars, history, requestID, job, open, snapped, sender,
                 queue, dropped, got, lost>>

(* Handle returns: the page leaves the list and is closed.                 *)
RemoveClient(p) ==
  /\ page[p] = "leave" /\ page' = [page EXCEPT ![p] = "gone"]
  /\ clients' = clients \ {p} /\ open' = open \ {p}
  /\ UNCHANGED <<token, entry, adds, remover, leaving, history, requestID, job, snapped,
                 sender, queue, dropped, got, lost>>

(* ReadPump closes the page when the browser has gone.                     *)
ReadPump(p) ==
  /\ p \in open /\ open' = open \ {p}
  /\ UNCHANGED <<routeVars, history, requestID, job, page, snapped, sender,
                 queue, dropped, got, lost>>

-----------------------------------------------------------------------------
RouteStep == RemoveToken \/ removeRequestHistory \/ RemoverCloses

JobStep(j) ==
  Record(j) \/ queueToRoute(j) \/ Enqueue(j) \/ CountDropped(j)

FeedNext ==
  \/ AddRoute \/ RemoveRoute \/ RouteStep
  \/ \E j \in Job : \/ NotBroadcast(j) \/ BroadcastRoute(j) \/ JobStep(j)
                    \/ \E r \in Job : BroadcastEvent(j, r)
  \/ \E p \in Page : \/ ConnectPage(p) \/ sendRequestHistory(p) \/ send(p)
                     \/ Take(p) \/ PageWritten(p) \/ HandleEnds(p)
                     \/ RemoveClient(p) \/ ReadPump(p)

(* Goroutines run; a write ends by its deadline at the latest.  Browsers   *)
(* and forwards owe nothing.                                               *)
FeedFairness ==
  /\ WF_feedVars(RouteStep)
  /\ \A j \in Job : WF_feedVars(JobStep(j))
  /\ \A p \in Page :
       /\ WF_feedVars(sendRequestHistory(p))
       /\ WF_feedVars(send(p))
       /\ WF_feedVars(Take(p) \/ PageWritten(p) \/ HandleEnds(p)
                        \/ RemoveClient(p))

-----------------------------------------------------------------------------
(* What a page has been sent, is about to be sent, or is told it missed.   *)
InQueue(p) == UNION ToSet(queue[p])
Shown(p) == got[p] \cup InQueue(p) \cup sender[p] \cup lost[p]

(* A page that connects while requests are being made misses none of them: *)
(* whatever the history of the route still holds has reached the page, as  *)
(* a live message or with its history, or was counted as dropped.          *)
PageMissesNothing ==
  \A p \in clients \cap open \cap snapped, j \in Job :
    job[j].pc = "done" /\ job[j].msg \in Retained => job[j].msg \in Shown(p)

(* The history of a route fits in its limits, by a size that is the sum of *)
(* what it really holds, and is empty once the route is gone, although     *)
(* requests to it may still be on their way.                               *)
HistoryBounded ==
  /\ Len(history) <= HistoryLimit /\ Length(history) <= MaxBytes
  /\ \A i \in DOMAIN history :
       /\ Len(history[i].events) <= EventLimit
       /\ \E j \in Job : /\ job[j].msg = <<history[i].id, 0>>
                          /\ history[i].size = job[j].len + Length(history[i].events)
  /\ ~token /\ remover \in {"close", "idle"} => history = <<>>

(* A page of a route that is gone, or that has closed, is closed, taken    *)
(* off the list and leaves no goroutine behind.                            *)
PageEnds ==
  \A p \in Page :
    (page[p] # "new" /\ (p \notin open \/ ~entry)) ~>
      (page[p] = "gone" /\ sender[p] = {} /\ p \notin open \cup clients)
=============================================================================
