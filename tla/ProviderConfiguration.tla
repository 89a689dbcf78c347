------------------------ MODULE ProviderConfiguration ------------------------
(***************************************************************************)
(* Operators that configure providers at the same time: the operations of  *)
(* ProviderManagementService, each of which reads a provider in one        *)
(* transaction and writes it in another, without a lock or a version.      *)
(*                                                                         *)
(* A call that ends at its first read (no such provider, nothing to do, an *)
(* invalid request) changes nothing and is not a step.                     *)
(***************************************************************************)
EXTENDS Integers

CONSTANTS
  Ids,         \* providers; an id is made for each registration
  Requests,    \* calls of operators that can be under way together
  Idle,        \* no call is under way
  HttpUrls,    \* base URLs that are well formed
  NoUrl,
  Registrations,   \* the providers that operators register: records of all Fields
  Updates,         \* the patches they send: functions on some of Mutable
  Credentials      \* the credentials they set: records of auth and secret

Mutable == {"name", "url", "timeout", "caps"}
Fields == Mutable \cup {"kind", "driver", "enabled"}
Capabilities == {"availability", "hold", "confirm", "release"}

ASSUME ConfigurationAssumption ==
  /\ NoUrl \notin HttpUrls
  /\ \A p \in Registrations :
       /\ p = [f \in Fields |-> p[f]]
       /\ p.enabled = FALSE
       /\ p.timeout \in Int
       /\ p.caps \subseteq Capabilities
  /\ \A u \in Updates :
       /\ DOMAIN u \subseteq Mutable
       /\ "timeout" \in DOMAIN u => u["timeout"] \in Int
       /\ "caps" \in DOMAIN u => u["caps"] \subseteq Capabilities

VARIABLES
  stored,       \* inventory_providers, by id
  credentials,  \* provider_credentials, by the id of the provider
  call          \* per request, what it is about to write

vars == <<stored, credentials, call>>

Registered == DOMAIN stored

Init ==
  /\ stored = [i \in {} |-> Idle]
  /\ credentials = [i \in {} |-> Idle]
  /\ call = [r \in Requests |-> Idle]

Put(f, i, v) == [j \in DOMAIN f \cup {i} |-> IF j = i THEN v ELSE f[j]]

\* Faulty variant of Valid: the timeout is not looked at.
ValidButTimeout(p) ==
  /\ p.kind = "internal" => p.url = NoUrl /\ p.driver = "internal"
  /\ p.kind = "external" => p.url \in HttpUrls /\ p.driver = "http"
  /\ "hold" \in p.caps => {"confirm", "release"} \subseteq p.caps

\* _validate_provider_configuration, but for a blank name
Valid(p) ==
  /\ p.timeout > 0
  /\ p.kind = "internal" => p.url = NoUrl /\ p.driver = "internal"
  /\ p.kind = "external" => p.url \in HttpUrls /\ p.driver = "http"
  /\ "hold" \in p.caps => {"confirm", "release"} \subseteq p.caps

\* uq_inventory_providers_name
NameFree(i, name) == \A j \in Registered \ {i} : stored[j].name # name

Register(i, p) ==
  /\ i \notin Registered
  /\ Valid(p)
  /\ NameFree(i, p.name)
  /\ stored' = Put(stored, i, p)
  /\ UNCHANGED <<credentials, call>>

\* The fields that a patch gives, over those that were read.
Merged(p, given) ==
  [f \in Fields |-> IF f \in DOMAIN given THEN given[f] ELSE p[f]]

\* The second transaction of a call is still to come.
Goes(r, op, i, row) ==
  /\ call[r] = Idle
  /\ call' = [call EXCEPT ![r] = [op |-> op, id |-> i, was |-> stored[i], row |-> row]]
  /\ UNCHANGED <<stored, credentials>>

ReadForUpdate(r, i, given) ==
  LET updated == Merged(stored[i], given)
  IN Valid(updated) /\ Goes(r, "update", i, updated)

ReadForEnable(r, i) ==
  ~stored[i].enabled /\ Valid(stored[i]) /\ Goes(r, "enable", i, stored[i])

ReadForDisable(r, i) ==
  stored[i].enabled /\ Goes(r, "disable", i, stored[i])

\* set_provider_credentials
Acceptable(p, c) ==
  /\ p.kind = "internal" => c.auth = "none"
  /\ c.auth = "none" <=> ~c.secret

ReadForCredentials(r, i, c) ==
  Acceptable(stored[i], c) /\ Goes(r, "credentials", i, c)

Writes(r, op) == call[r] # Idle /\ call[r].op = op

Ends(r) == call' = [call EXCEPT ![r] = Idle]

\* Faulty variant of Update: only what the call has changed is written.
UpdateChanged(r) ==
  LET i == call[r].id
      p == call[r].row
      was == call[r].was
  IN /\ Writes(r, "update")
     /\ NameFree(i, p.name)
     /\ stored' = [stored EXCEPT
          ![i].name = IF p.name = was.name THEN @ ELSE p.name,
          ![i].url = IF p.url = was.url THEN @ ELSE p.url,
          ![i].timeout = IF p.timeout = was.timeout THEN @ ELSE p.timeout,
          ![i].caps = (@ \ (was.caps \ p.caps)) \cup (p.caps \ was.caps)]
     /\ Ends(r)
     /\ UNCHANGED credentials

\* Faulty variant of Update: the whole row is written as it was read.
UpdateRow(r) ==
  /\ Writes(r, "update")
  /\ NameFree(call[r].id, call[r].row.name)
  /\ stored' = [stored EXCEPT ![call[r].id] = call[r].row]
  /\ Ends(r)
  /\ UNCHANGED credentials

\* One UPDATE of every mutable column, is_enabled not among them.
Update(r) ==
  LET i == call[r].id
      p == call[r].row
  IN /\ Writes(r, "update")
     /\ NameFree(i, p.name)
     /\ stored' = [stored EXCEPT ![i].name = p.name, ![i].url = p.url,
                                 ![i].timeout = p.timeout, ![i].caps = p.caps]
     /\ Ends(r)
     /\ UNCHANGED credentials

SetEnabled(r) ==
  /\ Writes(r, "enable") \/ Writes(r, "disable")
  /\ stored' = [stored EXCEPT ![call[r].id].enabled = (call[r].op = "enable")]
  /\ Ends(r)
  /\ UNCHANGED credentials

UpsertCredentials(r) ==
  /\ Writes(r, "credentials")
  /\ credentials' = Put(credentials, call[r].id, call[r].row)
  /\ Ends(r)
  /\ UNCHANGED stored

\* A name that is taken, or a call that comes to nothing after its read.
Fail(r) == call[r] # Idle /\ Ends(r) /\ UNCHANGED <<stored, credentials>>

Next ==
  \/ \E i \in Ids, p \in Registrations : Register(i, p)
  \/ \E r \in Requests, i \in Registered :
       \/ \E given \in Updates : ReadForUpdate(r, i, given)
       \/ ReadForEnable(r, i)
       \/ ReadForDisable(r, i)
       \/ \E c \in Credentials : ReadForCredentials(r, i, c)
  \/ \E r \in Requests : Update(r) \/ SetEnabled(r) \/ UpsertCredentials(r) \/ Fail(r)

Spec == Init /\ [][Next]_vars

-----------------------------------------------------------------------------
\* The columns of the two tables, with the constraint on the timeout, the unique
\* constraints and the reference from the credentials to their provider.
TypeOK ==
  /\ Registered \subseteq Ids
  /\ \A i \in Registered :
       /\ stored[i].timeout \in Nat \ {0}
       /\ stored[i].caps \subseteq Capabilities
       /\ stored[i].enabled \in BOOLEAN
       /\ NameFree(i, stored[i].name)
  /\ DOMAIN credentials \subseteq Registered
  /\ \A r \in Requests : call[r] # Idle => call[r].id \in Registered

\* A provider at which create may hold is one that confirm and release can call:
\* _hold_provider finds it an adapter, and neither _confirm_external_hold nor
\* _release_external_hold raises for want of a capability, however the calls that
\* configured it have overlapped.  An internal provider has no secret to send.
HoldersCanSettle ==
  \A i \in Registered :
    /\ stored[i].enabled /\ "hold" \in stored[i].caps =>
         /\ {"confirm", "release"} \subseteq stored[i].caps
         /\ stored[i].kind = "external" => stored[i].url # NoUrl /\ stored[i].driver = "http"
    /\ i \in DOMAIN credentials =>
         /\ credentials[i].auth # "none" => credentials[i].secret
         /\ stored[i].kind = "internal" => credentials[i].auth = "none"

\* A disabled provider stays disabled until a call to enable it writes: an update
\* that overlaps with disabling does not bring it back, nor does it disable.
OnlyItsCallSwitches ==
  [][\A i \in Registered : stored'[i].enabled # stored[i].enabled =>
       \E r \in Requests :
         /\ call[r] # Idle
         /\ call[r].id = i
         /\ call[r].op = (IF stored'[i].enabled THEN "enable" ELSE "disable")]_vars
=============================================================================
