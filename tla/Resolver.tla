------------------------------ MODULE Resolver ------------------------------
(***************************************************************************)
(* The resolver of the socket library: res_search tries the domains of the *)
(* search list, res_query judges the answers, res_send asks the servers    *)
(* with datagrams or over a virtual circuit (socklib/res_quer.c,           *)
(* res_send.c, sethost.c).                                                 *)
(*                                                                         *)
(* A process runs from one place where it waits to the next: select,       *)
(* connect and read.  Datagrams may be lost or late: an answer may come    *)
(* when something else has been asked through the same socket.             *)
(*                                                                         *)
(* errno and h_errno belong to the process: what one call leaves there is  *)
(* still there when another one is judged.                                 *)
(***************************************************************************)
EXTENDS Naturals, Sequences

CONSTANTS
    nscount,     \* name servers
    retry,       \* _res.retry
    Domains,     \* domains in the search list
    Begin,       \* sets of options an application may begin with
    Refusing,    \* servers that may be down while their host is up
    Records,     \* what the servers may know: functions from candidates to verdicts
    Long,        \* candidates whose answer does not fit into a datagram
    MaxLookups,  \* bound on the lookups
    MaxTroubles, \* bound on calls that fail and connections that break
    None

Servers == 1 .. nscount

\* The candidates of a lookup: the name in each domain, then the name itself
Itself == Domains + 1
Candidates == 1 .. Itself

Verdicts == {"NOERROR", "HOST_NOT_FOUND", "NO_DATA", "TRY_AGAIN"}

ASSUME ResolverAssumption ==
    /\ nscount \in Nat \ {0} /\ retry \in Nat \ {0} /\ Domains \in Nat \ {0}
    /\ Refusing \subseteq Servers /\ Long \subseteq Candidates
    /\ Records \subseteq [Candidates -> Verdicts]
    /\ Begin \subseteq SUBSET {"STAYOPEN"}
    /\ {MaxLookups, MaxTroubles} \subseteq Nat
    /\ None \notin Verdicts \cup {"found"} /\ None \notin Servers \cup Candidates

VARIABLES
    pc,       \* idle, ask (the head of res_send's loops), select, read
    search,   \* res_search: the candidate, dots in the name, got_nodata, the result
    q,        \* the locals of res_send
    sock,     \* the static socket s: kind, peer, what has come, a pending error
    options,  \* _res.options
    errno, h_errno,
    out,      \* questions asked through the open socket and not answered yet
    records,  \* the member of Records that is true
    log,      \* whom this res_send has asked, whom the last one that failed, verdicts
    troubles

rvars == <<pc, search, q, sock, options, errno, h_errno, out, records, log, troubles>>

Closed == [kind |-> "none", peer |-> None, in |-> <<>>, err |-> FALSE]
Open(kind, peer) == [Closed EXCEPT !.kind = kind, !.peer = peer]

\* The locals of res_send at its beginning
Question(id, vc) ==
    [id |-> id, try |-> 0, ns |-> 1, vc |-> vc, connected |-> FALSE,
     connreset |-> FALSE, gotsomewhere |-> FALSE, terrno |-> "ETIMEDOUT"]

Nobody == [n \in Servers |-> 0]
NoVerdicts == [c \in Candidates |-> None]

ResolverInit ==
    /\ pc = "idle"
    /\ search = [cand |-> 1, dots |-> FALSE, nodata |-> FALSE, result |-> None, lookups |-> 0]
    /\ q = Question(0, FALSE)
    /\ sock = Closed /\ options \in Begin
    /\ errno = "0" /\ h_errno = "0"
    /\ out = {} /\ records \in Records
    /\ log = [asked |-> Nobody, gaveup |-> None, verdicts |-> NoVerdicts]
    /\ troubles = 0

Trouble == troubles < MaxTroubles /\ troubles' = troubles + 1
Fine == UNCHANGED troubles

(***************************************************************************)
(* res_search and res_query.  Verdict v is NOERROR, or what res_query      *)
(* leaves in h_errno when it fails; e is errno at that moment.             *)
(***************************************************************************)
\* The candidate after one that failed with v, None if there is none left
NextCandidate(v) ==
    IF search.cand < Domains /\ v \in {"HOST_NOT_FOUND", "NO_DATA"} THEN search.cand + 1
    ELSE IF search.cand # Itself /\ search.dots THEN Itself ELSE None

\* "If no server present, give up."
GiveUp(e) == search.cand # Itself /\ e = "ECONNREFUSED"

Result(nodata, v, e) ==
    IF v = "NOERROR" THEN "found"
    ELSE IF GiveUp(e) THEN "TRY_AGAIN"
    ELSE IF nodata THEN "NO_DATA" ELSE v

Ask(cand) ==
    /\ pc' = "ask"
    /\ search' = cand
    /\ q' = Question(q.id + 1, "USEVC" \in options)

\* res_query has the verdict v; a is what res_send has asked and taken.
Judged(v, e, a) ==
    LET nodata == search.nodata \/ (search.cand # Itself /\ v = "NO_DATA")
        next   == IF v = "NOERROR" \/ GiveUp(e) THEN None ELSE NextCandidate(v)
    IN  /\ errno' = e
        /\ IF next # None
           THEN /\ Ask([search EXCEPT !.cand = next, !.nodata = nodata])
                /\ h_errno' = v
                /\ log' = [a EXCEPT !.asked = Nobody]
           ELSE /\ pc' = "idle"
                /\ search' = [search EXCEPT !.result = Result(nodata, v, e), !.nodata = nodata]
                /\ h_errno' = IF search'.result = "found" THEN h_errno ELSE search'.result
                /\ log' = [a EXCEPT !.asked = Nobody]
                /\ q' = Question(q.id, FALSE)

\* gethostbyname, when the name has dots and when it has none
Lookup ==
    /\ pc = "idle" /\ search.lookups < MaxLookups
    /\ \E dots \in BOOLEAN :
          Ask([cand |-> 1, dots |-> dots, nodata |-> FALSE, result |-> None,
               lookups |-> search.lookups + 1])
    /\ errno' = "0" /\ h_errno' = "HOST_NOT_FOUND"
    /\ log' = [asked |-> Nobody, gaveup |-> None, verdicts |-> NoVerdicts]
    /\ UNCHANGED <<sock, options, out, records, troubles>>

(***************************************************************************)
(* res_send                                                                *)
(***************************************************************************)
(* The end of a round of the loops: on to the next server with the locals  *)
(* r, or back with -1.  s is the socket, e errno, o what is under way.     *)
Continue(r, s, e, o) ==
    IF r.ns < nscount \/ (~r.vc /\ r.try + 1 < retry)
    THEN /\ pc' = "ask"
         /\ q' = IF r.ns < nscount THEN [r EXCEPT !.ns = @ + 1]
                                   ELSE [r EXCEPT !.ns = 1, !.try = @ + 1]
         /\ sock' = s /\ errno' = e /\ out' = o
         /\ UNCHANGED <<search, h_errno, log>>
    ELSE /\ sock' = Closed /\ out' = {}
         /\ Judged("TRY_AGAIN",
                   IF r.vc THEN r.terrno
                   ELSE IF r.gotsomewhere THEN "ETIMEDOUT" ELSE "ECONNREFUSED",
                   [log EXCEPT !.gaveup = [asked |-> log.asked, vc |-> r.vc]])

\* The answer m has come; s is the socket after it.
Taken(m, s) ==
    LET close == \/ q.vc /\ ("USEVC" \notin options \/ q.ns # 1)
                 \/ "STAYOPEN" \notin options
    IN  /\ sock' = IF close THEN Closed ELSE s
        /\ out' = IF close THEN {} ELSE out
        /\ Judged(records[m.cand], errno,
                  [log EXCEPT !.verdicts[search.cand] = records[m.cand]])

Asked == [log EXCEPT !.asked[q.ns] = @ + 1]

\* An answer comes while its question or the next one is the latest, or never.
Sent(kind) ==
    {o \in out : o.id + 1 >= q.id}
      \cup {[srv |-> q.ns, id |-> q.id, cand |-> search.cand, kind |-> kind]}

\* To one server at a time the socket is connected, to hear that it is not there.
Connects == nscount = 1 \/ (q.try = 0 /\ q.ns = 1)

(* The socket and errno before the question is sent.  The kernel           *)
(* disconnects a socket and says EAFNOSUPPORT when the address is no_addr. *)
Prepared ==
    LET s == IF sock.kind = "none" THEN Open("dgram", None) ELSE sock
    IN  IF Connects THEN [sock |-> [s EXCEPT !.peer = q.ns], errno |-> errno]
        ELSE IF q.connected THEN [sock |-> [s EXCEPT !.peer = None], errno |-> "EAFNOSUPPORT"]
        ELSE [sock |-> s, errno |-> errno]

AskDatagram ==
    /\ pc = "ask" /\ ~q.vc
    /\ \/ /\ Fine /\ ~sock.err
          /\ pc' = "select"
          /\ sock' = Prepared.sock /\ errno' = Prepared.errno
          /\ q' = [q EXCEPT !.connected = Connects]
          /\ out' = Sent("dgram")
          /\ log' = Asked
          /\ UNCHANGED <<search, h_errno>>
       \/ /\ Fine /\ sock.err                   \* send is told of a refusal
          /\ Continue([q EXCEPT !.connected = Connects], [Prepared.sock EXCEPT !.err = FALSE],
                      "ECONNREFUSED", out)
       \/ /\ Trouble /\ ~sock.err               \* or fails
          /\ Continue([q EXCEPT !.connected = Connects], Prepared.sock, "EHOSTUNREACH", out)
    /\ UNCHANGED <<options, records>>

\* select times out
SelectTimeout ==
    /\ pc = "select" /\ sock.in = <<>> /\ ~sock.err
    /\ Continue([q EXCEPT !.gotsomewhere = TRUE], sock, errno, out)
    /\ Fine /\ UNCHANGED <<options, records>>

\* select returns, recv is told of a refusal before it looks for data
RecvError ==
    /\ pc = "select" /\ sock.err
    /\ Continue(q, [sock EXCEPT !.err = FALSE], "ECONNREFUSED", out)
    /\ Fine /\ UNCHANGED <<options, records>>

\* Faulty: the id of an answer is not looked at.
OldAnswer_Never(m) == FALSE

OldAnswer(m) == m.id # q.id

Recv ==
    /\ pc = "select" /\ sock.in # <<>> /\ ~sock.err
    /\ LET m == Head(sock.in)
           s == [sock EXCEPT !.in = Tail(@)]
       IN  \/ /\ OldAnswer(m)                   \* goto wait
              /\ sock' = s /\ q' = [q EXCEPT !.gotsomewhere = TRUE]
              /\ UNCHANGED <<pc, search, errno, h_errno, out, log>>
           \/ /\ ~OldAnswer(m) /\ m.cand \in Long   \* goto usevc
              /\ pc' = "ask" /\ sock' = Closed /\ out' = {}
              /\ q' = [q EXCEPT !.gotsomewhere = TRUE, !.vc = TRUE]
              /\ UNCHANGED <<search, errno, h_errno, log>>
           \/ /\ ~OldAnswer(m) /\ m.cand \notin Long
              /\ Taken(m, s)
    /\ Fine /\ UNCHANGED <<options, records>>

\* Faulty: nobody looks at what sendmsg returned.
AskCircuit_Unchecked ==
    /\ pc = "ask" /\ q.vc
    /\ \/ /\ Fine
          /\ pc' = "read"
          /\ sock' = IF sock.kind = "none" THEN Open("stream", q.ns) ELSE sock
          /\ out' = Sent("stream")
          /\ log' = Asked
          /\ UNCHANGED <<search, q, errno, h_errno>>
       \/ /\ Trouble
          /\ Continue([q EXCEPT !.terrno = "EPIPE"], Closed, "EPIPE", {})
    /\ UNCHANGED <<options, records>>

\* socket, connect and sendmsg of the virtual circuit; the try is the last one.
AskCircuit ==
    /\ pc = "ask" /\ q.vc
    /\ \/ /\ Fine /\ ~sock.err
          /\ pc' = "read"
          /\ sock' = IF sock.kind = "none" THEN Open("stream", q.ns) ELSE sock
          /\ out' = Sent("stream")
          /\ log' = Asked
          /\ UNCHANGED <<search, q, errno, h_errno>>
       \/ /\ IF sock.err THEN Fine ELSE Trouble
          /\ Continue([q EXCEPT !.terrno = "EPIPE"], Closed, "EPIPE", {})
    /\ UNCHANGED <<options, records>>

\* The length and the answer are read; what is too long is read and dropped.
Read ==
    /\ pc = "read"
    /\ \/ /\ sock.in # <<>>
          /\ \/ Fine /\ Taken(Head(sock.in), [sock EXCEPT !.in = Tail(@)])
             \/ /\ Trouble                      \* the connection breaks in the rest
                /\ Taken(Head(sock.in), [sock EXCEPT !.in = <<>>, !.err = TRUE])
       \/ \E e \in {errno, "ECONNRESET"} :      \* end of file leaves errno alone
             LET r == [q EXCEPT !.terrno = e]
             IN  /\ Trouble
                 /\ IF e = "ECONNRESET" /\ ~q.connreset
                    THEN /\ pc' = "ask"         \* ns-- and the loop's ns++
                         /\ q' = [r EXCEPT !.connreset = TRUE]
                         /\ sock' = Closed /\ errno' = e /\ out' = {}
                         /\ UNCHANGED <<search, h_errno, log>>
                    ELSE Continue(r, Closed, e, {})
    /\ UNCHANGED <<options, records>>

(***************************************************************************)
(* The application between two lookups.  One that sets RES_STAYOPEN itself *)
(* does not call sethostent: the kept socket would be of the wrong kind.   *)
(***************************************************************************)
sethostent ==
    /\ pc = "idle" /\ options = {}
    /\ options' = {"STAYOPEN", "USEVC"}
    /\ UNCHANGED <<pc, search, q, sock, errno, h_errno, out, records, log, troubles>>

endhostent ==
    /\ pc = "idle" /\ options # {}
    /\ options' = {}
    /\ sock' = Closed /\ out' = {}
    /\ UNCHANGED <<pc, search, q, errno, h_errno, records, log, troubles>>

(***************************************************************************)
(* The servers and the network                                             *)
(***************************************************************************)
(* What is answered after the socket was closed finds nobody: the next one *)
(* has another port.  A connected socket hears its peer only.              *)
Reply(o) ==
    /\ out' = out \ {o}
    /\ sock' = IF sock.peer \in {None, o.srv} /\ ~(o.kind = "stream" /\ sock.err)
               THEN [sock EXCEPT !.in = Append(@, [id |-> o.id, cand |-> o.cand])]
               ELSE sock
    /\ UNCHANGED <<pc, search, q, options, errno, h_errno, records, log, troubles>>

DatagramReply == \E o \in out : o.kind = "dgram" /\ Reply(o)
CircuitReply == \E o \in out : o.kind = "stream" /\ Reply(o)

\* Port unreachable, which only a connected socket hears
Refusal ==
    \E o \in out :
        /\ o.kind = "dgram" /\ o.srv \in Refusing
        /\ out' = out \ {o}
        /\ sock' = IF sock.peer = o.srv
                   THEN [sock EXCEPT !.err = TRUE] ELSE sock
        /\ UNCHANGED <<pc, search, q, options, errno, h_errno, records, log, troubles>>

Step == AskDatagram \/ SelectTimeout \/ RecvError \/ Recv \/ AskCircuit \/ Read

ResolverNext ==
    \/ Lookup \/ Step
    \/ sethostent \/ endhostent
    \/ DatagramReply \/ CircuitReply \/ Refusal

ResolverSpec == ResolverInit /\ [][ResolverNext]_rvars

(* select ends, with an answer or without; a server that has accepted a    *)
(* connection answers or closes it, for read has no time-out.              *)
Fairness == WF_rvars(Step) /\ WF_rvars(CircuitReply)

FairResolverSpec == ResolverSpec /\ Fairness

-----------------------------------------------------------------------------
Answer == [id : Nat, cand : Candidates]

TypeOK ==
    /\ pc \in {"idle", "ask", "select", "read"}
    /\ search \in [cand : Candidates, dots : BOOLEAN, nodata : BOOLEAN, lookups : 0 .. MaxLookups,
                   result : {None, "found"} \cup Verdicts]
    /\ sock.kind \in {"none", "dgram", "stream"} /\ sock.peer \in Servers \cup {None}
    /\ sock.in \in Seq(Answer) /\ sock.err \in BOOLEAN
    /\ options \in SUBSET {"STAYOPEN", "USEVC"}
    /\ q.ns \in Servers /\ q.try \in 0 .. retry - 1
    /\ pc = "select" => sock.kind = "dgram"
    /\ pc = "read" => sock.kind = "stream" /\ sock.peer = q.ns

(* What is taken for the answer to a question is the answer to it, though  *)
(* answers to older ones come through the same socket.                     *)
RightAnswers == \A c \in Candidates : log.verdicts[c] \in {None, records[c]}

(* "We wish to receive answers from the first server to respond": a        *)
(* process that waits hears every server that it has asked.                *)
EveryoneHeard ==
    pc = "select" => \A n \in Servers : log.asked[n] > 0 => sock.peer \in {None, n}

(* Between two lookups the socket is open only if the application wants    *)
(* that, and a circuit only if it leads to the preferred server.           *)
SocketKept ==
    pc = "idle" =>
        \/ sock.kind = "none"
        \/ "STAYOPEN" \in options /\ sock.kind = "dgram" /\ "USEVC" \notin options
        \/ "STAYOPEN" \in options /\ sock.kind = "stream" /\ "USEVC" \in options /\ sock.peer = 1

(* What a lookup says follows from answers: of a name without dots it says *)
(* that there is no such host only if each of its candidates was denied.   *)
(* (With a dot the verdict on the name itself is all that counts.)         *)
ResultFounded ==
    /\ search.result = "found" => log.verdicts[search.cand] = "NOERROR"
    /\ search.result = "NO_DATA" => \E c \in Candidates : log.verdicts[c] = "NO_DATA"
    /\ search.result = "HOST_NOT_FOUND" =>
          IF search.dots THEN log.verdicts[Itself] = "HOST_NOT_FOUND"
          ELSE \A c \in 1 .. Domains : log.verdicts[c] = "HOST_NOT_FOUND"

(* res_send gives up only when every server was asked: a circuit once, by  *)
(* datagrams in every round but one, unless calls failed.  (A refusal that *)
(* comes late makes the kernel fail the send to the next server instead,   *)
(* which is skipped in that round.  If there is one server only, it is     *)
(* skipped whenever an old refusal comes, and may never be asked.)         *)
EveryServerAsked ==
    log.gaveup # None =>
        \A n \in Servers :
            log.gaveup.asked[n] + troubles >= IF log.gaveup.vc THEN 1
                                              ELSE IF nscount > 1 THEN retry - 1 ELSE 0

ResolverInv ==
    /\ TypeOK /\ RightAnswers /\ EveryoneHeard /\ SocketKept
    /\ ResultFounded /\ EveryServerAsked

(* "If no server present, give up": a lookup fails for the time being only *)
(* if an answer said so or a res_send heard nothing.                       *)
NoServerPresent ==
    search.result = "TRY_AGAIN" =>
        log.gaveup # None \/ \E c \in Candidates : log.verdicts[c] = "TRY_AGAIN"

(* Every lookup ends, whatever is lost, late or broken.                    *)
LookupsEnd == pc # "idle" ~> pc = "idle"
=============================================================================
