--------------------------- MODULE VaultDefinitions ---------------------------
(* What a registry revision holds, and what a management call makes of it.  *)
(* A definition is its status and the revision that last edited it.         *)
EXTENDS Naturals

CONSTANT Vault

\* A Vault is added enabled or not, as the client asks.
Kind == {"add", "add_disabled", "edit", "enable", "disable", "disconnect"}
Adding(kind) == kind \in {"add", "add_disabled"}
Absent == [status |-> "absent", edition |-> 0]
Definition == [status : {"absent", "enabled", "disabled"}, edition : Nat]
NoVault == "none"

\* What a client is told: a success names a Vault.
NoAnswer == [result |-> "none", vault |-> NoVault]
Refused == [result |-> "refused", vault |-> NoVault]
Failed == [result |-> "failed", vault |-> NoVault]
Success(v) == [result |-> "ok", vault |-> v]
Answer == {NoAnswer, Refused, Failed} \cup {Success(v) : v \in Vault}

NoVaults == [v \in Vault |-> Absent]

\* The call finds the Vault it needs: an added one is new, any other is there.
Fits(kind, v, vaults) == Adding(kind) <=> vaults[v] = Absent

\* Enabling an enabled Vault, or disabling a disabled one, changes nothing.
Idle(kind, v, vaults) ==
  \/ kind = "enable" /\ vaults[v].status = "enabled"
  \/ kind = "disable" /\ vaults[v].status = "disabled"

\* The definitions the call makes of `vaults', as revision r.
Effect(kind, v, vaults, r) ==
  [vaults EXCEPT ![v] =
     CASE kind = "add" -> [status |-> "enabled", edition |-> r]
       [] kind = "add_disabled" -> [status |-> "disabled", edition |-> r]
       [] kind = "edit" -> [vaults[v] EXCEPT !.edition = r]
       [] kind = "enable" -> [vaults[v] EXCEPT !.status = "enabled"]
       [] kind = "disable" -> [vaults[v] EXCEPT !.status = "disabled"]
       [] kind = "disconnect" -> Absent]
=============================================================================
