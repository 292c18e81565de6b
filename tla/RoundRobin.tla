----------------------------- MODULE RoundRobin -----------------------------
(***************************************************************************)
(* The endpoints the program reads the chain from: adapters/rpc/           *)
(* roundrobin.go.  Callers share one client; whoever meets an error moves  *)
(* it to the next endpoint, in steps another caller may come between.      *)
(***************************************************************************)
EXTENDS Integers

CONSTANTS
  Callers,
  KindsOf,     \* caller -> the kinds of methods it calls
  Endpoints,   \* how many endpoints there are
  MaxCalls     \* bound on the calls of all callers together

VARIABLES
  current,    \* the atomic index; only its value modulo Endpoints is used
  client,     \* the endpoint of the shared client
  up,         \* external: endpoints that answer
  dialable,   \* external: endpoints whose URL ethclient.Dial accepts
  call,       \* per caller: where its call is, the kind of the method, whether
              \* what it asks for exists, its endpoint, its answer
  made        \* history: calls made

vars == <<current, client, up, dialable, call, made>>

All == 0..(Endpoints - 1)

(* What a method does after an error: a read asks again when the next endpoint
   was dialled and gives up otherwise; FilterLogs, SendTransaction,
   TransactionByHash and TransactionReceipt do the opposite; NetworkID moves on
   and gives up. *)
MethodKinds == {"read", "inverted", "once"}

At(c, place) == call[c].at = place
Step(c, place, endpoint) ==
  call' = [call EXCEPT ![c].at = place, ![c].endpoint = endpoint]
Returns(c, answer) == call' = [call EXCEPT ![c].at = "idle", ![c].answer = answer]

-----------------------------------------------------------------------------
(* getClientWithRetry: there is a client from NewRoundRobinProvider on. *)
Call(c) ==
  /\ At(c, "idle") /\ made < MaxCalls
  /\ \E kind \in KindsOf[c], known \in BOOLEAN :
       call' = [call EXCEPT ![c] = [at |-> "asking", kind |-> kind, known |-> known,
                                    endpoint |-> client, answer |-> "none"]]
  /\ made' = made + 1
  /\ UNCHANGED <<current, client, up, dialable>>

Answerable(c) == call[c].endpoint \in up /\ call[c].known

Succeeds(c) ==
  /\ At(c, "asking") /\ Answerable(c)
  /\ Returns(c, "ok")
  /\ UNCHANGED <<current, client, up, dialable, made>>

(* SendTransaction leaves the endpoint alone after "already known" and
   "replacement underpriced". *)
Refused(c) ==
  /\ At(c, "asking") /\ call[c].endpoint \in up /\ call[c].kind = "inverted"
  /\ Returns(c, "error")
  /\ UNCHANGED <<current, client, up, dialable, made>>

(* Mutant: the index stays. *)
FailsInPlace(c) ==
  /\ At(c, "asking") /\ ~Answerable(c)
  /\ Step(c, "dialling", current)
  /\ UNCHANGED <<current, client, up, dialable, made>>

(* An error, the answer "not found" included, and the first step of nextEndpoint. *)
Fails(c) ==
  /\ At(c, "asking") /\ ~Answerable(c)
  /\ current' = (current + 1) % Endpoints
  /\ Step(c, "dialling", current')
  /\ UNCHANGED <<client, up, dialable, made>>

(* The rest of it; the client is replaced under the lock. *)
Dialled(c) ==
  /\ At(c, "dialling") /\ call[c].endpoint \in dialable
  /\ client' = call[c].endpoint
  /\ IF call[c].kind = "read" THEN Step(c, "again", call[c].endpoint) ELSE Returns(c, "error")
  /\ UNCHANGED <<current, up, dialable, made>>

DialFails(c) ==
  /\ At(c, "dialling") /\ call[c].endpoint \notin dialable
  /\ IF call[c].kind = "inverted" THEN Step(c, "again", call[c].endpoint) ELSE Returns(c, "error")
  /\ UNCHANGED <<current, client, up, dialable, made>>

(* The method calls itself, and gets the client anew. *)
Again(c) ==
  /\ At(c, "again")
  /\ Step(c, "asking", client)
  /\ UNCHANGED <<current, client, up, dialable, made>>

(* An endpoint fails or recovers. *)
Toggle(e) ==
  /\ up' = IF e \in up THEN up \ {e} ELSE up \cup {e}
  /\ UNCHANGED <<current, client, dialable, call, made>>

(* NewRoundRobinProvider dials the first endpoint, and fails if that does. *)
Init ==
  /\ current = 0 /\ client = 0
  /\ up \in SUBSET All
  /\ dialable \in {D \in SUBSET All : 0 \in D}
  /\ call = [c \in Callers |-> [at |-> "idle", kind |-> "read", known |-> TRUE,
                            endpoint |-> 0, answer |-> "none"]]
  /\ made = 0

CallStep(c) == Succeeds(c) \/ Fails(c) \/ Dialled(c) \/ DialFails(c) \/ Again(c)

Next ==
  \/ \E c \in Callers : Call(c) \/ Refused(c) \/ CallStep(c)
  \/ \E e \in All : Toggle(e)

Spec == Init /\ [][Next]_vars

(* Calls are scheduled, and endpoints answer, if with an error. *)
FairSpec == Spec /\ \A c \in Callers : WF_vars(CallStep(c))

-----------------------------------------------------------------------------
(* Types of the index, the endpoints and the calls. *)
TypeOK ==
  /\ current \in All /\ client \in All
  /\ up \subseteq All /\ dialable \subseteq All
  /\ call \in [Callers -> [at : {"idle", "asking", "dialling", "again"},
                           kind : MethodKinds, known : BOOLEAN, endpoint : All,
                           answer : {"none", "ok", "error"}]]
  /\ made \in 0..MaxCalls

(* Nobody but c is in a call. *)
Alone(c) == \A d \in Callers \ {c} : At(d, "idle")

(* While one endpoint stays up and nobody else calls, a reader gets what there
   is to read, wherever earlier callers have left the index and the client;
   unless an endpoint cannot even be dialled.  Callers that fail beside it may
   move the client on for ever just before it asks, and a read of what does not
   exist, or whose context is cancelled, asks for ever. *)
ReadFindsHealthyEndpoint ==
  \A c \in Callers, e \in All :
    call[c].kind = "read" /\ dialable = All
      /\ ~At(c, "idle") /\ call[c].known /\ [](e \in up /\ Alone(c))
      ~> At(c, "idle") /\ call[c].answer = "ok"
=============================================================================
