----------------------------- MODULE WebClient -----------------------------
(***************************************************************************)
(* The browser's side of sign-in and of live events: the auth mutations    *)
(* that write the credentials, the React commit that follows a change of   *)
(* them, the one socket of socketService, and the listeners that put what  *)
(* arrives into the list of notifications.                                 *)
(*                                                                         *)
(* A commit runs the effects in React's order: all clean-ups first, then   *)
(* the effects of children before those of their parents.  The listeners   *)
(* are children of SocketProvider.                                         *)
(***************************************************************************)
EXTENDS Integers, Sequences, FiniteSets

CONSTANTS
  Memberships,     \* organizations the user may sign in to
  Absent,
  MaxTokens,       \* bound on the tokens issued
  MaxItems,        \* how many notifications the list keeps
  MaxAttempts      \* attempts to reconnect before the client gives up

VARIABLES
  creds,           \* the auth slice: [token, org], token 0 when signed out
  committed,       \* the credentials of the last commit
  socket,          \* socketService's socket, or Absent
  mounted,         \* the listeners are on the page
  items,           \* the notifications slice, newest first
  mutation,        \* [Mutations -> "idle" or "sent"], requests under way
  tokens           \* tokens issued so far

clientVars == <<creds, committed, socket, mounted, items, mutation, tokens>>

Channels == {"signals", "approvals", "notifications"}
Mutations == {"login", "logout", "refresh"}

(* What connect makes a socket of; no such record stands for none at all.  *)
Sockets == [token : Nat, org : Memberships \cup {Absent}, up : BOOLEAN, attempts : Nat,
            on : SUBSET Channels]

ASSUME AbsentAssumption == Absent \notin Sockets

SignedOut == [token |-> 0, org |-> Absent]
Usable(c) == c.token # 0 /\ c.org # Absent

ClientInit ==
  /\ creds = SignedOut /\ committed = SignedOut /\ socket = Absent /\ mounted = FALSE
  /\ items = <<>> /\ mutation = [m \in Mutations |-> "idle"] /\ tokens = 0

-----------------------------------------------------------------------------
(* The mutations of authApi.                                               *)
Send(m) ==
  /\ mutation[m] = "idle"
  /\ m # "login" => creds.token # 0
  /\ mutation' = [mutation EXCEPT ![m] = "sent"]
  /\ UNCHANGED <<creds, committed, socket, mounted, items, tokens>>

Finish(m) == /\ mutation[m] = "sent"
             /\ mutation' = [mutation EXCEPT ![m] = "idle"]

(* The organization is the token's org_id claim, which it may lack.        *)
OrgClaims == Memberships \cup {Absent}

SetCredentials(org) ==
  /\ tokens < MaxTokens /\ tokens' = tokens + 1
  /\ creds' = [token |-> tokens + 1, org |-> org]

LoggedIn(org) ==
  /\ Finish("login") /\ SetCredentials(org)
  /\ UNCHANGED <<committed, socket, mounted, items>>

LoginFailed ==
  Finish("login") /\ UNCHANGED <<creds, committed, socket, mounted, items, tokens>>

(* Answered or not, the logout clears both slices.                         *)
LoggedOut ==
  /\ Finish("logout")
  /\ creds' = SignedOut /\ items' = <<>>
  /\ UNCHANGED <<committed, socket, mounted, tokens>>

Refreshed(org) ==
  /\ Finish("refresh") /\ SetCredentials(org)
  /\ UNCHANGED <<committed, socket, mounted, items>>

(* A refresh that fails signs out, and leaves the notifications.           *)
RefreshFailed ==
  /\ Finish("refresh") /\ creds' = SignedOut
  /\ UNCHANGED <<committed, socket, mounted, items, tokens>>

-----------------------------------------------------------------------------
(* socketService                                                           *)
Opened(c) == [token |-> c.token, org |-> c.org, up |-> FALSE, attempts |-> 0, on |-> {}]

(* connect keeps a socket that is connected and replaces any other.        *)
Connect(s, c) == IF s # Absent /\ s.up THEN s ELSE Opened(c)

(* subscribe and unsubscribe reach only a socket that exists.              *)
Subscribe(s, channels) == IF s = Absent THEN Absent ELSE [s EXCEPT !.on = @ \cup channels]
Unsubscribe(s, channels) == IF s = Absent THEN Absent ELSE [s EXCEPT !.on = @ \ channels]

Disconnect(s) == Absent

-----------------------------------------------------------------------------
(* Mutant: the provider's effect returns no clean-up.                      *)
CleanUp_None(s) == s

(* The clean-up SocketProvider's effect returns.                           *)
CleanUp(s) == IF Usable(committed) THEN Disconnect(s) ELSE s

(* SocketProvider's effect on its new token and organization.              *)
ProviderEffect(s) == IF Usable(creds) THEN Connect(s, creds) ELSE Disconnect(s)

(* useSocket: the listeners subscribe when they appear, and only then.     *)
ListenersLeave(s) == IF mounted /\ creds.token = 0 THEN Unsubscribe(s, Channels) ELSE s
ListenersAppear(s) == IF ~mounted /\ creds.token # 0 THEN Subscribe(s, Channels) ELSE s

Commit ==
  /\ creds # committed
  /\ committed' = creds
  /\ mounted' = (creds.token # 0)
  /\ socket' = ProviderEffect(ListenersAppear(CleanUp(ListenersLeave(socket))))
  /\ UNCHANGED <<creds, items, mutation, tokens>>

-----------------------------------------------------------------------------
(* The connection comes up, drops, and is given up after some attempts.    *)
Up ==
  /\ socket # Absent /\ ~socket.up /\ socket.attempts < MaxAttempts
  /\ socket' = [socket EXCEPT !.up = TRUE, !.attempts = 0]
  /\ UNCHANGED <<creds, committed, mounted, items, mutation, tokens>>

Drop ==
  /\ socket # Absent /\ socket.up
  /\ socket' = [socket EXCEPT !.up = FALSE]
  /\ UNCHANGED <<creds, committed, mounted, items, mutation, tokens>>

AttemptFails ==
  /\ socket # Absent /\ ~socket.up /\ socket.attempts < MaxAttempts
  /\ socket' = [socket EXCEPT !.attempts = @ + 1]
  /\ UNCHANGED <<creds, committed, mounted, items, mutation, tokens>>

(* addNotification, newest first and cut to length.                        *)
Prepend(list, n) == SubSeq(<<n>> \o list, 1, IF Len(list) < MaxItems THEN Len(list) + 1 ELSE MaxItems)

(* The server emits an event to the room of an organization.               *)
Emit(org, channel) ==
  /\ socket # Absent /\ socket.up /\ socket.org = org /\ channel \in socket.on
  /\ items' = Prepend(items, [org |-> org, channel |-> channel, read |-> FALSE])
  /\ UNCHANGED <<creds, committed, socket, mounted, mutation, tokens>>

MarkAllRead ==
  /\ items # <<>>
  /\ items' = [i \in DOMAIN items |-> [items[i] EXCEPT !.read = TRUE]]
  /\ UNCHANGED <<creds, committed, socket, mounted, mutation, tokens>>

SocketStep == Up \/ Drop \/ AttemptFails

ClientNext ==
  \/ \E m \in Mutations : Send(m)
  \/ \E org \in OrgClaims : LoggedIn(org) \/ Refreshed(org)
  \/ LoginFailed \/ LoggedOut \/ RefreshFailed \/ Commit \/ SocketStep
  \/ \E org \in Memberships, channel \in Channels : Emit(org, channel)
  \/ MarkAllRead

ClientSpec == ClientInit /\ [][ClientNext]_clientVars

-----------------------------------------------------------------------------
(* Once the page has caught up with the credentials there is a socket just *)
(* when they are usable, and it was opened with exactly these: no sign-in, *)
(* refresh, sign-out or late answer leaves the socket of another token.    *)
SocketMatchesLogin ==
  creds = committed =>
    /\ (socket # Absent) = Usable(creds)
    /\ socket # Absent => socket.token = creds.token /\ socket.org = creds.org

(* While the listeners are on the page and the socket is up, the events    *)
(* reach them (docs/NOTIFICATIONS.md promises immediate alerts).           *)
ListenersHear ==
  creds = committed /\ mounted /\ socket # Absent /\ socket.up => socket.on = Channels

=============================================================================
