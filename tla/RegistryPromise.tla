---------------------------- MODULE RegistryPromise ----------------------------
(***************************************************************************)
(* What the Vault registry promises the clients that change it, without    *)
(* its file, its lock or its two reads of the file: a line of revisions,   *)
(* each made by one call out of exactly the revision that call named; a    *)
(* success is forever, a refusal changed nothing, and only an answer that  *)
(* says the storage failed leaves open whether the change was made.        *)
(* Registry implements it (Registry!PromiseKept).                          *)
(***************************************************************************)
EXTENDS VaultDefinitions, Sequences

CONSTANTS
  Client,
  Named      \* the revisions a client may name

VARIABLES
  history,   \* the definitions of each revision, the newest last
  kept,      \* the newest revision a client was told it made
  readable,  \* FALSE over a file this build cannot read
  call,      \* what each client asked for, and the revision made for it
  answer     \* each client's last answer

vars == <<history, kept, readable, call, answer>>

NoCall == [kind |-> "none", vault |-> NoVault, expected |-> 0, made |-> 0]

Latest == IF history = <<>> THEN NoVaults ELSE history[Len(history)]

Init ==
  /\ history = <<>> /\ kept = 0 /\ readable \in BOOLEAN
  /\ call = [c \in Client |-> NoCall]
  /\ answer = [c \in Client |-> NoAnswer]

Ask(c) ==
  /\ call[c] = NoCall
  /\ \E kind \in Kind, v \in Vault, r \in Named :
       call' = [call EXCEPT ![c] = [kind |-> kind, vault |-> v, expected |-> r, made |-> 0]]
  /\ answer' = [answer EXCEPT ![c] = NoAnswer]
  /\ UNCHANGED <<history, kept, readable>>

\* The change is made, out of the revision the call named and no other.
Apply(c) ==
  LET m == call[c] IN
  /\ m # NoCall /\ m.made = 0 /\ readable
  /\ m.expected = Len(history)
  /\ Fits(m.kind, m.vault, Latest) /\ ~Idle(m.kind, m.vault, Latest)
  /\ history' = Append(history, Effect(m.kind, m.vault, Latest, Len(history) + 1))
  /\ call' = [call EXCEPT ![c].made = Len(history) + 1]
  /\ UNCHANGED <<kept, readable, answer>>

Tell(c, result) ==
  /\ call[c] # NoCall
  /\ call' = [call EXCEPT ![c] = NoCall]
  /\ answer' = [answer EXCEPT ![c] = result]
  /\ UNCHANGED <<history, readable>>

Succeed(c) ==
  /\ call[c].made # 0
  /\ Tell(c, Success(call[c].vault))
  /\ kept' = IF call[c].made > kept THEN call[c].made ELSE kept

\* A call that had nothing to change.
Confirm(c) ==
  /\ call[c].made = 0 /\ readable /\ call[c].expected = Len(history)
  /\ Idle(call[c].kind, call[c].vault, Latest)
  /\ Tell(c, Success(call[c].vault))
  /\ UNCHANGED kept

Refuse(c) == call[c].made = 0 /\ Tell(c, Refused) /\ UNCHANGED kept

Fail(c) == Tell(c, Failed) /\ UNCHANGED kept

\* The process ends, the machine perhaps with it: no client is answered, and
\* revisions nobody was told of may be lost.
Restart ==
  /\ \E n \in kept .. Len(history) : history' = SubSeq(history, 1, n)
  /\ call' = [c \in Client |-> NoCall]
  /\ answer' = [c \in Client |-> NoAnswer]
  /\ UNCHANGED <<kept, readable>>

Next ==
  \/ \E c \in Client :
       \/ Ask(c) \/ Apply(c) \/ Succeed(c) \/ Confirm(c) \/ Refuse(c) \/ Fail(c)
  \/ Restart

Spec == Init /\ [][Next]_vars
=============================================================================
