---------------------------- MODULE PrintPipeline ----------------------------
(***************************************************************************)
(* PrintOutbox with the wire and the print agents that it leaves open: the *)
(* Socket.IO room that loses what nobody is connected to receive, agents   *)
(* that crash, restart and lose their connection, their durable ledger of  *)
(* completed jobs (PrintJobLedger), and printers whose answer need not     *)
(* tell whether paper came out.                                            *)
(*                                                                         *)
(* A handler of an agent runs from the check of the ledger, through        *)
(* rendering and sending, to the answer.  The handlers of one agent        *)
(* overlap: each is an async function, and nothing serialises two events.  *)
(***************************************************************************)
EXTENDS PrintOutbox

CONSTANT Agents         \* print agents of the tenant

VARIABLES
    wire,       \* deliveries on their way to an agent
    replies,    \* print:result messages on their way to the API
    link,       \* link[a]: the agent's socket, "down" without a process
    handling,   \* handling[a]: handlers of a that have not answered yet
    ledger,     \* ledger[a]: completed-print-jobs.json; a copy in memory
                \* equals it whenever a handler can look
    paper       \* paper[a][j]: times the bytes of j went to a printer by a

agentVars == <<wire, replies, link, handling, ledger, paper>>
pipelineVars == <<vars, agentVars>>

Delivery == [agent : Agents, job : Jobs, attempt : Attempt]
Reply == [agent : Agents, job : Jobs, attempt : Attempt, success : BOOLEAN]
Handler == [job : Jobs, attempt : Attempt, inked : BOOLEAN]

\* "retrying": the client reconnects by itself after a transport loss;
\* "refused": it does not after the server disconnected or denied it.
Link == {"down", "retrying", "connected", "refused"}

PipelineTypeOK ==
    /\ TypeOK
    /\ wire \in SUBSET Delivery
    /\ replies \in SUBSET Reply
    /\ link \in [Agents -> Link]
    /\ handling \in [Agents -> SUBSET Handler]
    /\ ledger \in [Agents -> SUBSET Jobs]
    /\ paper \in [Agents -> [Jobs -> Nat]]

PipelineInit ==
    /\ Init
    /\ wire = {}
    /\ replies = {}
    /\ link = [a \in Agents |-> "retrying"]
    /\ handling = [a \in Agents |-> {}]
    /\ ledger = [a \in Agents |-> {}]
    /\ paper = [a \in Agents |-> [j \in Jobs |-> 0]]

-----------------------------------------------------------------------------
\* The API side

\* The event goes to every agent that is in the tenant room right now.
EmitToRoom(w) ==
    /\ Emit(w)
    /\ LET room == {a \in Agents : link[a] = "connected"}
           c == claim[w]
       IN  wire' = wire \cup
              {[agent |-> a, job |-> c.job, attempt |-> c.attempt] : a \in room}
    /\ UNCHANGED <<replies, link, handling, ledger, paper>>

\* The dispatcher's other steps do not touch the wire.
DispatcherStep(w) ==
    /\ \/ TickStart(w) \/ MarkExhaustedDead(w) \/ ClaimNext(w)
       \/ NothingToClaim(w) \/ DeadLetter(w) \/ DeadLetterAudit(w)
       \/ Purge(w) \/ TickFails(w)
    /\ UNCHANGED agentVars

OutboxStep ==
    /\ \/ \E j \in Jobs : Enqueue(j) \/ DeadlinePasses(j)
       \/ \E a \in acking : Settle(a) \/ LeaseRaceLost(a) \/ AckAborts(a)
    /\ UNCHANGED agentVars

\* The first check that finds the license locked disconnects every socket of
\* the server, and what was on the wire to it is lost.
LicenseLocks ==
    /\ licensed
    /\ LicenseChanges
    /\ link' = [a \in Agents |->
                   IF link[a] = "connected" THEN "refused" ELSE link[a]]
    /\ wire' = {}
    /\ UNCHANGED <<replies, handling, ledger, paper>>

LicenseUnlocks ==
    /\ ~licensed
    /\ LicenseChanges
    /\ UNCHANGED agentVars

\* Mutation: an answer is taken for whatever attempt its row is leased to, as
\* one without dispatchToken had to be.
AcknowledgeByJob(m) ==
    /\ licensed
    /\ status[m.job] = "LEASED"
    /\ acking' = acking \cup {[job |-> m.job, attempt |-> attempts[m.job],
                               success |-> m.success]}
    /\ UNCHANGED <<rows, emitted, ticks, licensed>>

\* The read of acknowledge() as it is called with a message: it sees the row
\* and the audit of the attempt the message names, and no more.  Whether that
\* attempt was ever emitted it cannot tell.
Acknowledge(m) ==
    /\ licensed
    /\ \/ /\ status[m.job] \in {"ABSENT", "DELETED", "PRINTED"}
          /\ UNCHANGED <<rows, acking>>
       \/ /\ status[m.job] \notin {"ABSENT", "DELETED", "PRINTED"}
          /\ ~Current(m.job, m.attempt)
          /\ audit' = Audited(m.job, m.attempt, "stale")
          /\ UNCHANGED <<status, attempts, due, acking>>
       \/ /\ Current(m.job, m.attempt)
          /\ acking' = acking \cup {[job |-> m.job, attempt |-> m.attempt,
                                     success |-> m.success]}
          /\ UNCHANGED rows
    /\ UNCHANGED <<emitted, ticks, licensed>>

\* What an agent sends while it is not connected waits in its own buffer.
HandleReply(m) ==
    /\ m \in replies
    /\ link[m.agent] \in {"connected", "down"}
    /\ Acknowledge(m)
    /\ replies' = replies \ {m}
    /\ UNCHANGED <<wire, link, handling, ledger, paper>>

-----------------------------------------------------------------------------
\* The agent: events and answers

Answer(a, j, n, ok) ==
    replies' = replies \cup
        {[agent |-> a, job |-> j, attempt |-> n, success |-> ok]}

\* Mutation: the ledger is not looked at before a job is printed.
ReceiveAgain(d) ==
    /\ d \in wire
    /\ link[d.agent] = "connected"
    /\ wire' = wire \ {d}
    /\ handling' = [handling EXCEPT ![d.agent] = @ \cup
          {[job |-> d.job, attempt |-> d.attempt, inked |-> FALSE]}]
    /\ UNCHANGED <<vars, replies, link, ledger, paper>>

\* A job in the ledger is answered at once, and no paper is used; any other
\* starts a handler.
Receive(d) ==
    /\ d \in wire
    /\ link[d.agent] = "connected"
    /\ wire' = wire \ {d}
    /\ IF d.job \in ledger[d.agent]
       THEN /\ Answer(d.agent, d.job, d.attempt, TRUE)
            /\ UNCHANGED handling
       ELSE /\ handling' = [handling EXCEPT ![d.agent] = @ \cup
                  {[job |-> d.job, attempt |-> d.attempt, inked |-> FALSE]}]
            /\ UNCHANGED replies
    /\ UNCHANGED <<vars, link, ledger, paper>>

\* Mutation: a printer that does not answer in time is sent the bytes again.
InkAgain(a, h) ==
    /\ h \in handling[a]
    /\ ~h.inked
    /\ paper' = [paper EXCEPT ![a][h.job] = @ + 1]
    /\ \E again \in BOOLEAN :
          handling' = [handling EXCEPT ![a] =
                          (@ \ {h}) \cup {[h EXCEPT !.inked = ~again]}]
    /\ UNCHANGED <<vars, wire, replies, link, ledger>>

\* sendToNetworkPrinter has written the last chunk of the receipt.
Ink(a, h) ==
    /\ h \in handling[a]
    /\ ~h.inked
    /\ paper' = [paper EXCEPT ![a][h.job] = @ + 1]
    /\ handling' = [handling EXCEPT ![a] =
                       (@ \ {h}) \cup {[h EXCEPT !.inked = TRUE]}]
    /\ UNCHANGED <<vars, wire, replies, link, ledger>>

\* Mutation: the handler answers without waiting for the ledger.
SucceedUnrecorded(a, h) ==
    /\ h \in handling[a]
    /\ h.inked
    /\ Answer(a, h.job, h.attempt, TRUE)
    /\ handling' = [handling EXCEPT ![a] = @ \ {h}]
    /\ UNCHANGED <<vars, wire, link, ledger, paper>>

\* Mutation: the result of the printer is not looked at.
SucceedUninked(a, h) ==
    /\ h \in handling[a]
    /\ ledger' = [ledger EXCEPT ![a] = @ \cup {h.job}]
    /\ Answer(a, h.job, h.attempt, TRUE)
    /\ handling' = [handling EXCEPT ![a] = @ \ {h}]
    /\ UNCHANGED <<vars, wire, link, paper>>

\* acknowledgePrint(success): the ledger is durable before the answer leaves.
Succeed(a, h) ==
    /\ h \in handling[a]
    /\ h.inked
    /\ ledger' = [ledger EXCEPT ![a] = @ \cup {h.job}]
    /\ Answer(a, h.job, h.attempt, TRUE)
    /\ handling' = [handling EXCEPT ![a] = @ \ {h}]
    /\ UNCHANGED <<vars, wire, link, paper>>

\* A refused connection, a render error, or a timeout after the paper moved.
Fail(a, h) ==
    /\ h \in handling[a]
    /\ Answer(a, h.job, h.attempt, FALSE)
    /\ handling' = [handling EXCEPT ![a] = @ \ {h}]
    /\ UNCHANGED <<vars, wire, link, ledger, paper>>

\* The agent's process ends: its handlers, its connection, and the answers
\* it had not sent yet end with it.
AgentDown(a) ==
    /\ link' = [link EXCEPT ![a] = "down"]
    /\ handling' = [handling EXCEPT ![a] = {}]
    /\ wire' = {d \in wire : d.agent # a}
    /\ replies' = {m \in replies : m.agent # a \/ link[a] = "connected"}
    /\ UNCHANGED <<vars, paper>>

Crash(a) ==
    /\ link[a] # "down"
    /\ AgentDown(a)
    /\ UNCHANGED ledger

\* markCompleted threw: exit(70).  The rename may have happened or not.
LedgerWriteFails(a, h) ==
    /\ h \in handling[a]
    /\ h.inked
    /\ AgentDown(a)
    /\ \E kept \in BOOLEAN :
          ledger' = [ledger EXCEPT ![a] = IF kept THEN @ \cup {h.job} ELSE @]

\* The ledger is read back from the file.
Restart(a) ==
    /\ link[a] = "down"
    /\ link' = [link EXCEPT ![a] = "retrying"]
    /\ UNCHANGED <<vars, wire, replies, handling, ledger, paper>>

-----------------------------------------------------------------------------
\* The agent's connection

\* The handshake is denied while the license is locked.
Connect(a) ==
    /\ link[a] = "retrying"
    /\ link' = [link EXCEPT ![a] = IF licensed THEN "connected" ELSE "refused"]
    /\ UNCHANGED <<vars, wire, replies, handling, ledger, paper>>

LoseConnection(a) ==
    /\ link[a] = "connected"
    /\ link' = [link EXCEPT ![a] = "retrying"]
    /\ wire' = {d \in wire : d.agent # a}
    /\ UNCHANGED <<vars, replies, handling, ledger, paper>>

LoseDelivery(d) ==
    /\ wire' = wire \ {d}
    /\ UNCHANGED <<vars, replies, link, handling, ledger, paper>>

\* Lost with its connection, or turned away by the socket middleware while
\* the license is locked.
LoseReply(m) ==
    /\ replies' = replies \ {m}
    /\ UNCHANGED <<vars, wire, link, handling, ledger, paper>>

AgentStep(a) ==
    \/ \E h \in handling[a] :
          Ink(a, h) \/ Succeed(a, h) \/ Fail(a, h) \/ LedgerWriteFails(a, h)
    \/ Crash(a) \/ Restart(a) \/ Connect(a) \/ LoseConnection(a)

PipelineNext ==
    \/ \E w \in Workers : EmitToRoom(w) \/ DispatcherStep(w)
    \/ OutboxStep \/ LicenseLocks \/ LicenseUnlocks
    \/ \E m \in replies : HandleReply(m) \/ LoseReply(m)
    \/ \E d \in wire : Receive(d) \/ LoseDelivery(d)
    \/ \E a \in Agents : AgentStep(a)

PipelineSpec == PipelineInit /\ [][PipelineNext]_pipelineVars

-----------------------------------------------------------------------------
\* Properties

\* A job is reported PRINTED only if an agent sent it to a printer, over any
\* number of lost, late and repeated deliveries and answers.
PrintedMeansPaper ==
    \A j \in Jobs : status[j] = "PRINTED" => \E a \in Agents : paper[a][j] > 0

\* An answer of success is backed by the ledger: an agent that crashes after
\* it will not print that job again.
SuccessIsDurable ==
    \A m \in replies : m.success => m.job \in ledger[m.agent]

\* Once the ledger of an agent holds a job, and no handler of it began before
\* that, the agent never uses paper for it again: the ledger closes the
\* "printed, ACK lost, retry" gap, restarts included.
LedgerStopsPaper ==
    [][\A a \in Agents, j \in Jobs :
          /\ j \in ledger[a]
          /\ \A h \in handling[a] : h.job # j
          => /\ paper'[a][j] = paper[a][j]
             /\ j \in ledger'[a]
             /\ \A h \in handling'[a] : h.job # j]_pipelineVars

\* What acknowledge() makes of the messages is what PrintOutbox allows: over
\* lost, late and repeated deliveries, crashes and answers out of order, only
\* attempts that the dispatcher emitted are ever settled or audited as stale.
ImplementsOutbox == Spec

\* Each attempt is one sheet at most: handlers of one job that overlap,
\* because a retry arrived while the printer was still busy, an agent that
\* crashed while it printed, and an answer that got lost cost as much paper as
\* there were attempts to deliver it, and no more.
OnePaperPerAttempt ==
    \A a \in Agents, j \in Jobs : paper[a][j] <= Cardinality(emitted[j])

\* The agent's connection loop never gives up (reconnectionAttempts Infinity,
\* "Continuing to retry silently..."): once the license is good for ever and
\* the agent's process stays up, it is connected again and again.
AgentReconnects ==
    \A a \in Agents :
        <>[](licensed /\ link[a] # "down") => []<>(link[a] = "connected")

\* The license does not stay locked, and the client runs its retry timer.
ReconnectFairness ==
    /\ WF_pipelineVars(LicenseUnlocks)
    /\ \A a \in Agents : WF_pipelineVars(Connect(a)) /\ WF_pipelineVars(Restart(a))

FairPipelineSpec == PipelineSpec /\ ReconnectFairness
=============================================================================
