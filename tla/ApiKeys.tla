------------------------------ MODULE ApiKeys ------------------------------
(***************************************************************************)
(* One API key of an organization.  An update or a rotation loads the      *)
(* document, changes it in memory and saves it; Mongoose then writes the   *)
(* paths whose value changed, and only when the list of permissions is one *)
(* of them asks that the version is still the one it read.  Two requests   *)
(* on the same key overlap freely.                                         *)
(***************************************************************************)
EXTENDS Integers, FiniteSets, Functions

CONSTANTS
  Requests,       \* requests on the key under way at once
  Bodies,         \* bodies of an update: functions from some of the fields
  MaxSecrets,     \* bound on the secrets handed out
  MaxVersions     \* bound on the changes of the permissions

VARIABLES
  key,            \* the document of the key, or NoKey
  request,        \* [Requests -> what the request is at]
  issued,         \* secrets generated so far; a secret stands for its hash too
  dead            \* history: secrets a saved rotation has replaced

keyVars == <<key, request, issued, dead>>

Permissions == {"read", "write"}
Expiries == {"never", "later", "past"}

KeyDocuments == [active : BOOLEAN, secret : Nat, permissions : SUBSET Permissions,
                 expires : Expiries, version : Nat]
NoKey == [active |-> FALSE, secret |-> 0, permissions |-> {}, expires |-> "never", version |-> 0]

(* An update names at least one field; permissions are never emptied.      *)
BodyAllowed(b) ==
  /\ DOMAIN b \in SUBSET {"active", "expires", "permissions"} \ {{}}
  /\ "active" \in DOMAIN b => b["active"] \in BOOLEAN
  /\ "expires" \in DOMAIN b => b["expires"] \in Expiries
  /\ "permissions" \in DOMAIN b => b["permissions"] \in SUBSET Permissions \ {{}}

ASSUME BodiesAssumption == \A b \in Bodies : BodyAllowed(b)

Resting == [pc |-> "resting"]

KeyInit ==
  /\ key = NoKey /\ issued = 0 /\ dead = {}
  /\ request = [q \in Requests |-> Resting]

Exists == key # NoKey

-----------------------------------------------------------------------------
(* A new key, once its organization and account are known to exist.        *)
Create(q, permissions, expires) ==
  /\ request[q].pc = "resting" /\ ~Exists /\ issued < MaxSecrets
  /\ issued' = issued + 1
  /\ key' = [active |-> TRUE, secret |-> issued + 1, permissions |-> permissions,
             expires |-> expires, version |-> 0]
  /\ UNCHANGED <<request, dead>>

(* The document is loaded and the body's fields set on it.                 *)
Load(q, changes, kind) ==
  request' = [request EXCEPT ![q] = [pc |-> "saving", read |-> key, changes |-> changes,
                                     kind |-> kind]]

Update(q, body) ==
  /\ request[q].pc = "resting" /\ Exists /\ key.version < MaxVersions
  /\ Load(q, body, "update")
  /\ UNCHANGED <<key, issued, dead>>

(* To revoke is to update with active alone, which the log tells apart.    *)
Revoke(q) == Update(q, [f \in {"active"} |-> FALSE])

(* A rotation sets a new secret and, whatever it read, active.             *)
Rotate(q) ==
  /\ request[q].pc = "resting" /\ Exists /\ issued < MaxSecrets
  /\ issued' = issued + 1
  /\ Load(q, [f \in {"secret", "active"} |-> IF f = "secret" THEN issued + 1 ELSE TRUE], "rotate")
  /\ UNCHANGED <<key, dead>>

(* Mutant: what the save does not compare is written back as it was read.  *)
Written_All(read, changes) ==
  [f \in {"active", "secret", "expires"} \cup DOMAIN changes |->
     IF f \in DOMAIN changes THEN changes[f] ELSE read[f]]

(* What Mongoose writes: the paths that were set to another value.         *)
Written(read, changes) ==
  Restrict(changes, {f \in DOMAIN changes : changes[f] # read[f]})

(* The save.  A changed list of permissions must find the version read.    *)
Save(q) ==
  LET read == request[q].read
      written == Written(read, request[q].changes)
      versioned == "permissions" \in DOMAIN written
  IN /\ request[q].pc = "saving"
     /\ request' = [request EXCEPT ![q] = Resting]
     /\ \/ /\ versioned => read.version = key.version
           /\ key' = [f \in DOMAIN key |->
                CASE f \in DOMAIN written -> written[f]
                  [] f = "version" /\ versioned -> key.version + 1
                  [] OTHER -> key[f]]
           /\ dead' = IF key'.secret # key.secret THEN dead \cup {key.secret} ELSE dead
        \/ versioned /\ read.version # key.version /\ UNCHANGED <<key, dead>>
     /\ UNCHANGED issued

(* The expiry the key was given comes.                                     *)
Expire ==
  /\ key.expires = "later"
  /\ key' = [key EXCEPT !.expires = "past"]
  /\ UNCHANGED <<request, issued, dead>>

(* What authenticate accepts: the stored secret of an active key that has  *)
(* not expired.                                                            *)
Authenticates(secret) ==
  /\ Exists /\ key.secret = secret
  /\ key.active /\ key.expires # "past"

(* The routes of the key, each with a body its schema lets through.        *)
PostKey(q) == \E p \in SUBSET Permissions \ {{}}, e \in Expiries : Create(q, p, e)
PatchKey(q) == \E b \in Bodies : Update(q, b)
DeleteKey(q) == Revoke(q)
PostRotate(q) == Rotate(q)

KeyStep(q) == PostKey(q) \/ PatchKey(q) \/ DeleteKey(q) \/ PostRotate(q) \/ Save(q)

KeyNext == (\E q \in Requests : KeyStep(q)) \/ Expire

KeySpec == KeyInit /\ [][KeyNext]_keyVars

-----------------------------------------------------------------------------
(* A revocation is undone only by a request that saw it: one that was      *)
(* under way when the key was revoked never reactivates it, and a secret a *)
(* rotation replaced never authenticates again, whatever was under way.    *)
RevokedStaysRevoked ==
  [][/\ Exists /\ ~key.active /\ key'.active =>
          \E q \in Requests : /\ request[q].pc = "saving" /\ request'[q].pc = "resting"
                              /\ ~request[q].read.active
     /\ \A s \in dead : ~Authenticates(s)']_keyVars

=============================================================================
