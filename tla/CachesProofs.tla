---------------------------- MODULE CachesProofs ----------------------------
(***************************************************************************)
(* The two caches in Redis: a response, or the permissions of a user, that *)
(* nobody is loading or changing is the one the database would give.  And  *)
(* the ceiling of custom roles, which the same requests write.             *)
(***************************************************************************)
EXTENDS Access, ResponseCache, TLAPS

-----------------------------------------------------------------------------
(* The responses.  An entry that no race has spoiled is in the index, or   *)
(* about to be, or an invalidation has it on its list; a stale one is on   *)
(* such a list, or the list is still to be read; and while the lists of    *)
(* its organization are worked off, it is on one.  The last part is why no *)
(* tag is deleted from under an entry.                                     *)

CallRecords ==
  [pc : {"load", "set", "tag", "members", "delete"}, at : Replicas, key : Keys, version : Int,
   members : SUBSET Keys]

DataTyped == data \in [Replicas -> [Routes -> Int]] /\ version \in Int

CacheTyped ==
  /\ DataTyped
  /\ entry \in [Keys -> Int] /\ tag \subseteq Keys
  /\ call \in [Calls -> CallRecords \cup {NoCall}]

At(pc, s) == \E c \in Calls : call[c].pc = pc /\ call[c].key.shelf = s
Filing(k) == \E c \in Calls : call[c].pc = "tag" /\ call[c].key = k
Listed(k) ==
  \E c \in Calls : call[c].pc = "delete" /\ call[c].key.shelf = k.shelf /\ k \in call[c].members

Sound(k) ==
  /\ k \in tag \/ Filing(k) \/ Listed(k)
  /\ ~Current(k.route, entry[k]) => Listed(k) \/ At("members", k.shelf)
  /\ At("delete", k.shelf) => Listed(k)

EntriesAreSound == \A k \in Keys : entry[k] # NoEntry /\ k \notin crossed => Sound(k)

CacheInv == CacheTyped /\ EntriesAreSound

LEMMA KeysAreFiled ==
  /\ \A k \in Keys : k.route \in Routes /\ k.shelf \in Shelves
  /\ \A s \in Shelves : Filed(List, s) \in Keys /\ Filed(List, s).shelf = s
  /\ Own \in Shelves /\ List \in Routes /\ Deliveries \in Routes
BY DEF Keys, Filed, Routes, Shelves

LEMMA CallFacts ==
  ASSUME CacheTyped, NEW c \in Calls, call[c].pc # "idle"
  PROVE  /\ call[c] \in CallRecords /\ call[c] # NoCall /\ call[c].at \in Replicas
         /\ call[c].key \in Keys /\ call[c].version \in Int /\ call[c].members \subseteq Keys
BY DEF CacheTyped, CallRecords, NoCall

LEMMA CallMoves ==
  ASSUME CacheTyped, NEW c \in Calls, NEW r \in CallRecords \cup {NoCall},
         call' = [call EXCEPT ![c] = r]
  PROVE  /\ call' \in [Calls -> CallRecords \cup {NoCall}]
         /\ call'[c] = r /\ \A d \in Calls \ {c} : call'[d] = call[d]
BY DEF CacheTyped

LEMMA CallBegins ==
  ASSUME CacheTyped, NEW c \in Calls, NEW pc \in {"load", "members"}, NEW p \in Replicas,
         NEW k \in Keys, Begin(c, pc, p, k)
  PROVE  /\ call[c].pc = "idle"
         /\ \E r \in CallRecords : /\ call' = [call EXCEPT ![c] = r]
                                   /\ r.pc = pc /\ r.key = k
<1>1. PICK r : r = [pc |-> pc, at |-> p, key |-> k, version |-> NoEntry, members |-> {}]
  OBVIOUS
<1>2. r \in CallRecords /\ r.pc = pc /\ r.key = k
  BY <1>1 DEF CallRecords, NoEntry
<1>3. call[c].pc = "idle" /\ call' = [call EXCEPT ![c] = r]
  BY <1>1 DEF Begin, NoCall
<1> QED BY <1>2, <1>3

(* A change on a replica: what is current stays so, but for what showed    *)
(* that replica's data.                                                    *)
LEMMA DataChange ==
  ASSUME DataTyped, NEW p \in Replicas, NEW route \in Routes, Changes(p, route)
  PROVE  /\ DataTyped'
         /\ \A other \in Routes : \A v : Current(other, v) =>
              (Current(other, v))' \/ (other = route /\ v = data[p][route])
<1>1. data' = [data EXCEPT ![p][route] = version + 1] /\ version' = version + 1
  BY DEF Changes
<1>2. /\ \A q \in Replicas, other \in Routes :
           (q # p \/ other # route) => data'[q][other] = data[q][other]
      /\ data' \in [Replicas -> [Routes -> Int]]
  BY <1>1 DEF DataTyped
<1>3. DataTyped'
  BY <1>1, <1>2 DEF DataTyped
<1> QED BY <1>2, <1>3 DEF Current

LEMMA DataStay ==
  ASSUME UNCHANGED data
  PROVE  \A route, v : (Current(route, v))' <=> Current(route, v)
BY DEF Current

(* An entry that was sound, its index and the lists it is on are there     *)
(* still, and it is as current as it was.                                  *)
LEMMA SoundStays ==
  ASSUME NEW k \in Keys, Sound(k), entry'[k] = entry[k],
         k \in tag => k \in tag', Filing(k) => Filing(k)' \/ k \in tag',
         Listed(k) => Listed(k)',
         At("delete", k.shelf)' => At("delete", k.shelf),
         At("members", k.shelf) => At("members", k.shelf)',
         Current(k.route, entry[k]) =>
           Current(k.route, entry[k])' \/ At("members", k.shelf)'
  PROVE  Sound(k)'
BY DEF Sound, Current

(* A request begins, or loads: nothing an entry depends on, but that a     *)
(* change is followed by an invalidation.                                  *)
LEMMA RequestMoves ==
  ASSUME CacheInv, NEW c \in Calls, NEW p \in Replicas, NEW k0 \in Keys, NEW s0 \in Shelves,
         Miss(c, p, k0) \/ Load(c) \/ Change(c, p) \/ Dispatch(c, p, s0)
  PROVE  CacheInv'
<1>1. CacheTyped /\ EntriesAreSound /\ DataTyped
  BY DEF CacheInv, CacheTyped
<1>2. PICK r \in CallRecords :
        /\ call' = [call EXCEPT ![c] = r] /\ r.pc \in {"load", "set", "members"}
        /\ call[c].pc \in {"idle", "load"}
        /\ Change(c, p) => r.pc = "members" /\ r.key.shelf = Own
  <2>1. CASE Miss(c, p, k0) /\ ~Change(c, p)
    BY <1>1, <2>1, CallBegins DEF Miss
  <2>2. CASE Load(c) /\ ~Change(c, p)
    <3>1. call[c].pc = "load" /\ call[c] \in CallRecords
      BY <1>1, <2>2, CallFacts DEF Load
    <3>2. data[call[c].at][call[c].key.route] \in Int
      BY <1>1, <3>1, CallFacts, KeysAreFiled DEF DataTyped
    <3>3. PICK r : r = [call[c] EXCEPT !.pc = "set",
                                       !.version = data[call[c].at][call[c].key.route]]
      OBVIOUS
    <3>4. r \in CallRecords /\ r.pc = "set"
      BY <3>1, <3>2, <3>3 DEF CallRecords
    <3>5. call' = [call EXCEPT ![c] = r]
      BY <1>1, <2>2, <3>3 DEF Load, CacheTyped
    <3> QED BY <2>2, <3>1, <3>4, <3>5
  <2>3. CASE Change(c, p)
    <3>1. Begin(c, "members", p, Filed(List, Own))
      BY <2>3 DEF Change
    <3>2. Filed(List, Own) \in Keys /\ Filed(List, Own).shelf = Own
      BY KeysAreFiled
    <3> QED BY <1>1, <3>1, <3>2, CallBegins
  <2>4. CASE Dispatch(c, p, s0) /\ ~Change(c, p)
    <3>1. Begin(c, "members", p, Filed(List, s0)) /\ Filed(List, s0) \in Keys
      BY <2>4, KeysAreFiled DEF Dispatch
    <3> QED BY <1>1, <2>4, <3>1, CallBegins
  <2> QED BY <2>1, <2>2, <2>3, <2>4
<1>3. /\ call' \in [Calls -> CallRecords \cup {NoCall}]
      /\ call'[c] = r /\ \A d \in Calls \ {c} : call'[d] = call[d]
  BY <1>1, <1>2, CallMoves
<1>4. UNCHANGED <<entry, tag>>
  BY DEF Miss, Load, Change, Dispatch
<1>5. /\ DataTyped'
      /\ \A k \in Keys : Current(k.route, entry[k]) =>
           Current(k.route, entry[k])' \/ (Change(c, p) /\ k \in OutOfReach(p, List, Shelves))
             \/ entry[k] = NoEntry
  <2>1. CASE Change(c, p)
    <3>1. Changes(p, List) /\ List \in Routes
      BY <2>1, KeysAreFiled DEF Change
    <3>2. /\ DataTyped'
          /\ \A other \in Routes : \A v : Current(other, v) =>
               (Current(other, v))' \/ (other = List /\ v = data[p][List])
      BY <1>1, <3>1, DataChange
    <3>3. \A k \in Keys : k.route \in Routes /\ k.shelf \in Shelves
      BY KeysAreFiled
    <3>4. \A k \in Keys : Current(k.route, entry[k]) =>
            Current(k.route, entry[k])' \/ (k.route = List /\ entry[k] = data[p][List])
      BY <1>4, <3>2, <3>3 DEF Current
    <3> QED BY <2>1, <3>2, <3>3, <3>4 DEF OutOfReach
  <2>2. CASE ~Change(c, p)
    <3>1. UNCHANGED <<data, version>>
      BY <2>2 DEF Miss, Load, Dispatch
    <3> QED BY <1>1, <1>4, <3>1 DEF DataTyped, Current
  <2> QED BY <2>1, <2>2
<1>6. CacheTyped'
  BY <1>1, <1>3, <1>4, <1>5 DEF CacheTyped
<1>7. crossed \subseteq crossed'
      /\ (Change(c, p) => OutOfReach(p, List, Shelves \ {Own}) \subseteq crossed')
  BY DEF Miss, Load, Change, Dispatch
<1>8. ASSUME NEW k \in Keys, entry[k] # NoEntry, k \notin crossed'
      PROVE  Sound(k)'
  <2>1. Sound(k)
    BY <1>1, <1>7, <1>8 DEF EntriesAreSound
  <2>2. (Filing(k) => Filing(k)') /\ (Listed(k) => Listed(k)')
    BY <1>2, <1>3 DEF Filing, Listed
  <2>3. At("delete", k.shelf)' => At("delete", k.shelf)
    BY <1>2, <1>3 DEF At
  <2>4. At("members", k.shelf) => At("members", k.shelf)'
    BY <1>2, <1>3 DEF At
  <2>5. ASSUME Change(c, p), k \in OutOfReach(p, List, Shelves)
        PROVE  At("members", k.shelf)'
    <3>1. k.shelf = Own
      BY <1>7, <1>8, <2>5 DEF OutOfReach
    <3> QED BY <1>2, <1>3, <2>5, <3>1 DEF At
  <2> QED BY <1>4, <1>5, <1>8, <2>1, <2>2, <2>3, <2>4, <2>5, SoundStays
<1> QED BY <1>4, <1>6, <1>8 DEF CacheInv, EntriesAreSound

LEMMA SetMoves ==
  ASSUME CacheInv, NEW c \in Calls, Set(c)
  PROVE  CacheInv'
<1> DEFINE k0 == call[c].key
<1>1. CacheTyped /\ EntriesAreSound /\ DataTyped
  BY DEF CacheInv, CacheTyped
<1>2. /\ call[c].pc = "set" /\ call[c] \in CallRecords /\ k0 \in Keys
      /\ call[c].version \in Int /\ call[c] # NoCall
  BY <1>1, CallFacts DEF Set
<1>3. PICK r : r = [call[c] EXCEPT !.pc = "tag", !.version = NoEntry]
  OBVIOUS
<1>4. r \in CallRecords /\ r.pc = "tag" /\ r.key = k0
  <2>1. NoEntry \in Int
    BY DEF NoEntry
  <2> QED BY <1>2, <1>3, <2>1 DEF CallRecords
<1>5. /\ entry' = [entry EXCEPT ![k0] = call[c].version]
      /\ call' = [call EXCEPT ![c] = r]
      /\ UNCHANGED <<data, version, tag>>
      /\ crossed' = (crossed \ {k0}) \cup
           {k \in {k0} : ~Current(k.route, call[c].version) \/ Flushing(k.shelf)}
  BY <1>1, <1>3 DEF Set, FilledLate, CacheTyped
<1>6. /\ call' \in [Calls -> CallRecords \cup {NoCall}]
      /\ call'[c] = r /\ \A d \in Calls \ {c} : call'[d] = call[d]
  BY <1>1, <1>4, <1>5, CallMoves
<1> HIDE DEF k0
<1>7. /\ entry' \in [Keys -> Int]
      /\ entry'[k0] = call[c].version /\ \A k \in Keys \ {k0} : entry'[k] = entry[k]
  BY <1>1, <1>2, <1>5 DEF CacheTyped
<1>8. CacheTyped'
  BY <1>1, <1>5, <1>6, <1>7 DEF CacheTyped, DataTyped
<1>9. ASSUME NEW k \in Keys, entry'[k] # NoEntry, k \notin crossed'
      PROVE  Sound(k)'
  <2>1. \A pc, s : pc \in {"members", "delete"} => (At(pc, s)' <=> At(pc, s))
    BY <1>2, <1>4, <1>6 DEF At
  <2>2. CASE k = k0
    <3>1. ~Flushing(k.shelf) /\ Current(k.route, call[c].version) /\ entry'[k] = call[c].version
      BY <1>5, <1>7, <1>9, <2>2
    <3>2. ~At("delete", k.shelf)'
      BY <2>1, <3>1 DEF Flushing, At, InFlight, NoCall
    <3>3. Filing(k)'
      BY <1>4, <1>6, <2>2 DEF Filing
    <3> QED BY <1>5, <3>1, <3>2, <3>3 DEF Sound, Current
  <2>3. CASE k # k0
    <3>1. Sound(k)
      BY <1>1, <1>5, <1>7, <1>9, <2>3 DEF EntriesAreSound
    <3>2. (Filing(k) => Filing(k)') /\ (Listed(k) => Listed(k)')
      BY <1>2, <1>6 DEF Filing, Listed
    <3>3. entry'[k] = entry[k] /\ tag' = tag /\ data' = data
      BY <1>5, <1>7, <2>3
    <3> QED BY <2>1, <3>1, <3>2, <3>3, SoundStays, DataStay
  <2> QED BY <2>2, <2>3
<1> QED BY <1>8, <1>9 DEF CacheInv, EntriesAreSound

LEMMA RegisterMoves ==
  ASSUME CacheInv, NEW c \in Calls, Register(c)
  PROVE  CacheInv'
<1>1. CacheTyped /\ EntriesAreSound
  BY DEF CacheInv
<1>2. call[c].pc = "tag" /\ call[c].key \in Keys
  BY <1>1, CallFacts DEF Register
<1>3. /\ tag' = tag \cup {call[c].key} /\ call' = [call EXCEPT ![c] = NoCall]
      /\ UNCHANGED <<data, version, entry, crossed>>
  BY DEF Register, Done
<1>4. /\ call' \in [Calls -> CallRecords \cup {NoCall}]
      /\ call'[c] = NoCall /\ \A d \in Calls \ {c} : call'[d] = call[d]
  BY <1>1, <1>3, CallMoves
<1>5. CacheTyped'
  BY <1>1, <1>2, <1>3, <1>4 DEF CacheTyped, DataTyped
<1>6. ASSUME NEW k \in Keys, entry[k] # NoEntry, k \notin crossed
      PROVE  Sound(k)'
  <2>1. Sound(k)
    BY <1>1, <1>6 DEF EntriesAreSound
  <2>2. \A pc, s : pc \in {"members", "delete"} => (At(pc, s)' <=> At(pc, s))
    BY <1>2, <1>4 DEF At, NoCall
  <2>3. (Filing(k) => Filing(k)' \/ k \in tag') /\ (Listed(k) => Listed(k)')
    BY <1>2, <1>3, <1>4 DEF Filing, Listed
  <2> QED BY <1>3, <2>1, <2>2, <2>3, SoundStays, DataStay
<1> QED BY <1>3, <1>5, <1>6 DEF CacheInv, EntriesAreSound

(* The list is read: what is not on it is spoiled, on another, or filed    *)
(* under the other organization.                                           *)
LEMMA MembersMoves ==
  ASSUME CacheInv, NEW c \in Calls, Members(c)
  PROVE  CacheInv'
<1>1. CacheTyped /\ EntriesAreSound
  BY DEF CacheInv
<1>2. call[c].pc = "members" /\ call[c] \in CallRecords /\ tag \subseteq Keys
  BY <1>1, CallFacts DEF Members, CacheTyped
<1>3. PICK r, s : /\ s = call[c].key.shelf
                  /\ r = [call[c] EXCEPT !.pc = "delete", !.members = TagOf(s)]
  OBVIOUS
<1>4. /\ r \in CallRecords /\ r.pc = "delete" /\ r.members = TagOf(s)
      /\ r.key.shelf = s /\ call[c].key.shelf = s
  BY <1>2, <1>3 DEF CallRecords, TagOf
<1>5. /\ call' = [call EXCEPT ![c] = r] /\ UNCHANGED <<data, version, entry, tag>>
      /\ crossed' = crossed \cup {k \in Tagging \ tag : k.shelf = s /\ entry[k] # NoEntry}
  BY <1>1, <1>3 DEF Members, CacheTyped
<1>6. /\ call' \in [Calls -> CallRecords \cup {NoCall}]
      /\ call'[c] = r /\ \A d \in Calls \ {c} : call'[d] = call[d]
  BY <1>1, <1>4, <1>5, CallMoves
<1>7. CacheTyped'
  BY <1>1, <1>5, <1>6 DEF CacheTyped, DataTyped
<1>8. ASSUME NEW k \in Keys, entry[k] # NoEntry, k \notin crossed'
      PROVE  Sound(k)'
  <2>1. Sound(k)
    BY <1>1, <1>5, <1>8 DEF EntriesAreSound
  <2>2. Listed(k) => Listed(k)'
    BY <1>2, <1>6 DEF Listed
  <2>3. CASE k.shelf = s
    <3>1. Filing(k) => k \in tag
      BY <1>5, <1>8, <2>3 DEF Filing, Tagging, InFlight, NoCall
    <3>2. k \in tag => Listed(k)'
      BY <1>4, <1>6, <2>3 DEF Listed, TagOf
    <3> QED BY <2>1, <2>2, <3>1, <3>2 DEF Sound
  <2>4. CASE k.shelf # s
    <3>1. \A pc : At(pc, k.shelf)' <=> At(pc, k.shelf)
      BY <1>4, <1>6, <2>4 DEF At
    <3>2. Filing(k) => Filing(k)'
      BY <1>2, <1>6 DEF Filing
    <3> QED BY <1>5, <2>1, <2>2, <3>1, <3>2, SoundStays, DataStay
  <2> QED BY <2>3, <2>4
<1> QED BY <1>5, <1>7, <1>8 DEF CacheInv, EntriesAreSound

LEMMA DeleteMoves ==
  ASSUME CacheInv, NEW c \in Calls, NEW k0 \in Keys, Delete(c, k0)
  PROVE  CacheInv'
<1>1. CacheTyped /\ EntriesAreSound
  BY DEF CacheInv
<1>2. call[c].pc = "delete" /\ call[c] \in CallRecords /\ call[c].members \subseteq Keys
  BY <1>1, CallFacts DEF Delete
<1>3. PICK r : r = [call[c] EXCEPT !.members = call[c].members \ {k0}]
  OBVIOUS
<1>4. /\ r \in CallRecords /\ r.pc = "delete" /\ r.members = call[c].members \ {k0}
      /\ r.key = call[c].key
  BY <1>2, <1>3 DEF CallRecords
<1>5. /\ call' = [call EXCEPT ![c] = r] /\ UNCHANGED <<data, version, tag>>
      /\ entry' = [entry EXCEPT ![k0] = NoEntry] /\ crossed' = crossed \ {k0}
  BY <1>1, <1>3 DEF Delete, CacheTyped
<1>6. /\ call' \in [Calls -> CallRecords \cup {NoCall}]
      /\ call'[c] = r /\ \A d \in Calls \ {c} : call'[d] = call[d]
  BY <1>1, <1>4, <1>5, CallMoves
<1>7. /\ entry' \in [Keys -> Int]
      /\ entry'[k0] = NoEntry /\ \A k \in Keys \ {k0} : entry'[k] = entry[k]
  BY <1>1, <1>5 DEF CacheTyped, NoEntry
<1>8. CacheTyped'
  BY <1>1, <1>5, <1>6, <1>7 DEF CacheTyped, DataTyped
<1>9. ASSUME NEW k \in Keys, entry'[k] # NoEntry, k \notin crossed'
      PROVE  Sound(k)'
  <2>1. k # k0 /\ Sound(k)
    BY <1>1, <1>5, <1>7, <1>9 DEF EntriesAreSound
  <2>2. \A pc, s : At(pc, s)' <=> At(pc, s)
    BY <1>2, <1>4, <1>6 DEF At
  <2>3. (Filing(k) => Filing(k)') /\ (Listed(k) => Listed(k)')
    BY <1>2, <1>4, <1>6, <2>1 DEF Filing, Listed
  <2> QED BY <1>5, <1>7, <2>1, <2>2, <2>3, SoundStays, DataStay
<1> QED BY <1>8, <1>9 DEF CacheInv, EntriesAreSound

(* The tag goes, and with it the index of whatever is still there: all of  *)
(* that is on the list of another invalidation.                            *)
LEMMA DeleteTagMoves ==
  ASSUME CacheInv, NEW c \in Calls, DeleteTag(c)
  PROVE  CacheInv'
<1>1. CacheTyped /\ EntriesAreSound
  BY DEF CacheInv
<1>2. PICK s : s = call[c].key.shelf
  OBVIOUS
<1>3. /\ call[c].pc = "delete" /\ call[c].members = {}
      /\ tag' = tag \ TagOf(s) /\ call' = [call EXCEPT ![c] = NoCall]
      /\ UNCHANGED <<data, version, entry, crossed>>
  BY <1>2 DEF DeleteTag, Done
<1>4. /\ call' \in [Calls -> CallRecords \cup {NoCall}]
      /\ call'[c] = NoCall /\ \A d \in Calls \ {c} : call'[d] = call[d]
  BY <1>1, <1>3, CallMoves
<1>5. CacheTyped'
  BY <1>1, <1>3, <1>4 DEF CacheTyped, DataTyped
<1>6. ASSUME NEW k \in Keys, entry[k] # NoEntry, k \notin crossed
      PROVE  Sound(k)'
  <2>1. Sound(k)
    BY <1>1, <1>6 DEF EntriesAreSound
  <2>2. Listed(k) => Listed(k)'
    BY <1>3, <1>4 DEF Listed
  <2>3. CASE k.shelf = s
    <3>1. Listed(k)
      BY <1>2, <1>3, <2>1, <2>3 DEF Sound, At
    <3> QED BY <2>2, <3>1 DEF Sound
  <2>4. CASE k.shelf # s
    <3>1. k \in tag => k \in tag'
      BY <1>3, <2>4 DEF TagOf
    <3>2. \A pc : pc # "idle" => (At(pc, k.shelf)' <=> At(pc, k.shelf))
      BY <1>2, <1>3, <1>4, <2>4 DEF At, NoCall
    <3>3. Filing(k) => Filing(k)'
      BY <1>3, <1>4 DEF Filing
    <3> QED BY <1>3, <2>1, <2>2, <3>1, <3>2, <3>3, SoundStays, DataStay
  <2> QED BY <2>3, <2>4
<1> QED BY <1>3, <1>5, <1>6 DEF CacheInv, EntriesAreSound

(* Requests that go no further, one or a replica's: their entries are      *)
(* marked, the others keep what they have.                                 *)
LEMMA RequestsEnd ==
  ASSUME CacheInv, NEW ending \in SUBSET Calls,
         call' = [c \in Calls |-> IF c \in ending THEN NoCall ELSE call[c]],
         \A c \in ending : LeftBehind(c) \subseteq crossed', crossed \subseteq crossed',
         UNCHANGED <<entry, tag>>, DataTyped',
         \A k \in Keys : entry[k] # NoEntry /\ k \notin crossed' /\ Current(k.route, entry[k])
                           => Current(k.route, entry[k])'
  PROVE  CacheInv'
<1>1. CacheTyped /\ EntriesAreSound
  BY DEF CacheInv
<1>2. CacheTyped'
  BY <1>1 DEF CacheTyped
<1>3. ASSUME NEW k \in Keys, entry[k] # NoEntry, k \notin crossed'
      PROVE  Sound(k)'
  <2>1. Sound(k)
    BY <1>1, <1>3 DEF EntriesAreSound
  <2>2. \A c \in ending :
          /\ ~(call[c].pc \in {"members", "delete"} /\ call[c].key.shelf = k.shelf)
          /\ ~(call[c].pc = "tag" /\ call[c].key = k)
    BY <1>3 DEF LeftBehind
  <2>3. \A pc : pc \in {"members", "delete"} => (At(pc, k.shelf)' <=> At(pc, k.shelf))
    BY <2>2 DEF At, NoCall
  <2>4. Filing(k) => Filing(k)'
    BY <2>2 DEF Filing
  <2>5. Listed(k) => Listed(k)'
    BY <2>2 DEF Listed
  <2>6. Current(k.route, entry[k]) => Current(k.route, entry[k])'
    BY <1>3
  <2> QED BY <2>1, <2>3, <2>4, <2>5, <2>6, SoundStays
<1> QED BY <1>2, <1>3 DEF CacheInv, EntriesAreSound

LEMMA FailMoves ==
  ASSUME CacheInv, NEW c \in Calls, Fail(c)
  PROVE  CacheInv'
<1>1. DataTyped /\ CacheTyped
  BY DEF CacheInv, CacheTyped
<1>2. /\ call' = [call EXCEPT ![c] = NoCall] /\ UNCHANGED <<data, version, entry, tag>>
      /\ crossed' = crossed \cup LeftBehind(c)
  BY DEF Fail, Done
<1>3. call' = [d \in Calls |-> IF d \in {c} THEN NoCall ELSE call[d]]
  BY <1>1, <1>2 DEF CacheTyped
<1>4. DataTyped' /\ \A k \in Keys : Current(k.route, entry[k]) => Current(k.route, entry[k])'
  BY <1>1, <1>2 DEF DataTyped, Current
<1> QED BY <1>2, <1>3, <1>4, RequestsEnd

(* A replica ends: what showed its hooks or its log is marked, and what    *)
(* its requests leave behind.                                              *)
LEMMA RestartMoves ==
  ASSUME CacheInv, NEW p \in Replicas, Restart(p)
  PROVE  CacheInv'
<1>1. DataTyped
  BY DEF CacheInv, CacheTyped
<1>2. PICK dying \in SUBSET Calls :
        /\ call' = [c \in Calls |-> IF c \in dying THEN NoCall ELSE call[c]]
        /\ crossed' = crossed \cup {k \in Keys : \/ \E c \in dying : k \in LeftBehind(c)
                                                \/ k \in OutOfReach(p, k.route, Shelves)}
  BY DEF Restart, InFlight
<1>3. /\ data' = [data EXCEPT ![p] = [route \in Routes |-> Empty]]
      /\ UNCHANGED <<version, entry, tag>>
  BY DEF Restart
<1>4. DataTyped' /\ \A q \in Replicas \ {p} : data'[q] = data[q]
  BY <1>1, <1>3 DEF DataTyped, Empty
<1>5. /\ crossed \subseteq crossed' /\ \A c \in dying : LeftBehind(c) \subseteq crossed'
      /\ \A route \in Routes : OutOfReach(p, route, Shelves) \subseteq crossed'
  <2>1. \A c \in dying : \A k \in LeftBehind(c) : k \in Keys /\ k \in crossed'
    BY <1>2 DEF LeftBehind
  <2>2. \A route \in Routes : \A k \in OutOfReach(p, route, Shelves) :
          k \in Keys /\ k.route = route
    BY DEF OutOfReach
  <2> QED BY <1>2, <2>1, <2>2
<1>6. ASSUME NEW k \in Keys, entry[k] # NoEntry, k \notin crossed', Current(k.route, entry[k])
      PROVE  Current(k.route, entry[k])'
  <2>1. k \notin OutOfReach(p, k.route, Shelves)
    BY <1>5, <1>6, KeysAreFiled
  <2>2. entry[k] # data[p][k.route]
    BY <1>6, <2>1, KeysAreFiled DEF OutOfReach
  <2> QED BY <1>3, <1>4, <1>6, <2>2 DEF Current
<1> QED BY <1>2, <1>3, <1>4, <1>5, <1>6, RequestsEnd

(* The worker of a replica logs a delivery: what showed its log is marked. *)
LEMMA DeliveredMoves ==
  ASSUME CacheInv, NEW p \in Replicas, Delivered(p)
  PROVE  CacheInv'
<1>1. CacheTyped /\ EntriesAreSound /\ DataTyped
  BY DEF CacheInv, CacheTyped
<1>2. /\ Changes(p, Deliveries) /\ UNCHANGED <<entry, tag, call>>
      /\ crossed' = crossed \cup OutOfReach(p, Deliveries, Shelves)
  BY DEF Delivered
<1>3. /\ DataTyped'
      /\ \A other \in Routes : \A v : Current(other, v) =>
           (Current(other, v))' \/ (other = Deliveries /\ v = data[p][Deliveries])
  BY <1>1, <1>2, KeysAreFiled, DataChange
<1>4. CacheTyped'
  BY <1>1, <1>2, <1>3 DEF CacheTyped
<1>5. ASSUME NEW k \in Keys, entry[k] # NoEntry, k \notin crossed'
      PROVE  Sound(k)'
  <2>1. Sound(k) /\ k \notin OutOfReach(p, Deliveries, Shelves)
    BY <1>1, <1>2, <1>5 DEF EntriesAreSound
  <2>2. ~(k.route = Deliveries /\ entry[k] = data[p][Deliveries])
    BY <1>5, <2>1, KeysAreFiled DEF OutOfReach
  <2>3. Current(k.route, entry[k]) => Current(k.route, entry[k])'
    BY <1>2, <1>3, <2>2, KeysAreFiled DEF Current
  <2>4. /\ \A pc : At(pc, k.shelf)' <=> At(pc, k.shelf)
        /\ (Filing(k)' <=> Filing(k)) /\ (Listed(k)' <=> Listed(k))
    BY <1>2 DEF At, Filing, Listed
  <2> QED BY <1>2, <2>1, <2>3, <2>4, SoundStays
<1> QED BY <1>2, <1>4, <1>5 DEF CacheInv, EntriesAreSound

(* An entry's time is over.                                                *)
LEMMA ExpiryMoves ==
  ASSUME CacheInv, NEW k0 \in Keys, EntryExpires(k0)
  PROVE  CacheInv'
<1>1. CacheTyped /\ EntriesAreSound
  BY DEF CacheInv
<1>2. /\ entry' \in [Keys -> Int] /\ \A k \in Keys \ {k0} : entry'[k] = entry[k]
      /\ entry'[k0] = NoEntry /\ crossed' = crossed \ {k0}
      /\ UNCHANGED <<data, version, tag, call>>
  BY <1>1 DEF EntryExpires, CacheTyped, NoEntry
<1>3. CacheTyped'
  BY <1>1, <1>2 DEF CacheTyped, DataTyped
<1>4. ASSUME NEW k \in Keys, entry'[k] # NoEntry, k \notin crossed'
      PROVE  Sound(k)'
  <2>1. Sound(k) /\ entry'[k] = entry[k]
    BY <1>1, <1>2, <1>4 DEF EntriesAreSound
  <2>2. /\ \A pc : At(pc, k.shelf)' <=> At(pc, k.shelf)
        /\ (Filing(k)' <=> Filing(k)) /\ (Listed(k)' <=> Listed(k))
    BY <1>2 DEF At, Filing, Listed
  <2> QED BY <1>2, <2>1, <2>2, SoundStays, DataStay
<1> QED BY <1>3, <1>4 DEF CacheInv, EntriesAreSound

LEMMA CacheStart == CacheInit => CacheInv
<1> SUFFICES ASSUME CacheInit PROVE CacheInv
  OBVIOUS
<1>1. CacheTyped
  BY DEF CacheInit, CacheTyped, DataTyped, NoEntry, Empty
<1>2. \A k \in Keys : entry[k] = NoEntry
  BY DEF CacheInit
<1> QED BY <1>1, <1>2 DEF CacheInv, EntriesAreSound

LEMMA CacheKeeps == CacheInv /\ [CacheNext]_cacheVars => CacheInv'
<1> SUFFICES ASSUME CacheInv, [CacheNext]_cacheVars PROVE CacheInv'
  OBVIOUS
<1>1. ASSUME NEW c \in Calls, NEW p \in Replicas, NEW k \in Keys, Miss(c, p, k)
      PROVE  CacheInv'
  BY <1>1, RequestMoves, KeysAreFiled
<1>2. ASSUME NEW c \in Calls, Load(c)
      PROVE  CacheInv'
  <2>1. call[c].at \in Replicas /\ call[c].key \in Keys
    BY <1>2, CallFacts DEF Load, CacheInv
  <2> QED BY <1>2, <2>1, RequestMoves, KeysAreFiled
<1>3. ASSUME NEW c \in Calls, NEW p \in Replicas, NEW s \in Shelves,
             Change(c, p) \/ Dispatch(c, p, s)
      PROVE  CacheInv'
  BY <1>3, RequestMoves, KeysAreFiled
<1>4. CASE \E c \in Calls : Set(c) \/ Register(c) \/ Members(c) \/ DeleteTag(c) \/ Fail(c)
  BY <1>4, SetMoves, RegisterMoves, MembersMoves, DeleteTagMoves, FailMoves
<1>5. CASE \E c \in Calls : \E k \in Keys : Delete(c, k)
  BY <1>5, DeleteMoves
<1>6. CASE \E p \in Replicas : Delivered(p) \/ Restart(p)
  BY <1>6, DeliveredMoves, RestartMoves
<1>7. CASE \E k \in Keys : EntryExpires(k)
  BY <1>7, ExpiryMoves
<1>8. CASE UNCHANGED cacheVars
  <2>1. UNCHANGED <<data, version, entry, tag, call, crossed>>
    BY <1>8 DEF cacheVars
  <2> QED BY <2>1 DEF CacheInv, CacheTyped, DataTyped, EntriesAreSound, Sound, Current, Filing,
                     Listed, At
<1> QED BY <1>1, <1>2, <1>3, <1>4, <1>5, <1>6, <1>7, <1>8, KeysAreFiled DEF CacheNext

(* For every number of replicas, of overlapping fills, invalidations and   *)
(* failures: once they are over, a cached response is what some replica    *)
(* would answer, and the tag index of its organization holds it, unless a  *)
(* fill and an invalidation raced for it, a delivery worker or a restart   *)
(* changed its data, or it is filed under an organization that the header  *)
(* named and the query did not (response-cache middleware,                 *)
(* CacheInvalidationService and the webhook repository).                   *)
THEOREM ResponsesStayCoherent == CacheSpec => []SettledIsCoherent
<1>1. CacheInv => SettledIsCoherent
  <2> SUFFICES ASSUME CacheInv, NEW k \in Keys, entry[k] # NoEntry, k \notin crossed
               PROVE  (Current(k.route, entry[k]) \/ k \in Busy) /\ k \in tag \cup Busy
    BY DEF SettledIsCoherent, SettledIsFresh, SettledIsTagged
  <2>1. Sound(k)
    BY DEF CacheInv, EntriesAreSound
  <2>2. Filing(k) => k \in Busy
    BY DEF Filing, Busy, Tagging, InFlight, NoCall
  <2>3. Listed(k) \/ At("members", k.shelf) => k \in Busy
    BY DEF Listed, At, Busy, InFlight, NoCall
  <2> QED BY <2>1, <2>2, <2>3 DEF Sound
<1> QED BY <1>1, CacheStart, CacheKeeps, PTL DEF CacheSpec

-----------------------------------------------------------------------------
(* The permissions.  For a user no race has touched, what a request in     *)
(* flight has read of the user is still so, and the entry is what the      *)
(* database says, unless a request is about to clear it.  A write of a     *)
(* role is seen by all others in flight, who are then a race; and a user   *)
(* only leaves raced when nobody is in flight and the entry is gone.       *)

UserShape(d) == d \in [role : {d.role}, is_deleted : {d.is_deleted}, place : {d.place}]

ReqShape(x) ==
  /\ x.pc \in {"config", "writeUser"} =>
       x \in [pc : {x.pc}, o : {x.o}, seen : {x.seen}, set : {x.set}]
  /\ x.pc = "ceiling" => x \in [pc : {x.pc}, o : {x.o}, level : {x.level}]

AccessTyped ==
  /\ user = [u \in Users |-> user[u]] /\ \A u \in Users : UserShape(user[u])
  /\ cached = [u \in Users |-> cached[u]]
  /\ req = [r \in Requests |-> req[r]] /\ \A r \in Requests : ReqShape(req[r])

(* What a request has read of u, whose document is d and whose permissions *)
(* are g, is still so.                                                     *)
Agrees(x, u, d, g) ==
  /\ x.pc = "roles" /\ x.by = u => ~d.is_deleted /\ x.role = d.role
  /\ x.pc = "fill" /\ x.by = u => x.grants = g
  /\ x.pc \in {"config", "writeUser"} /\ x.o.on = u => x.seen.role = d.role

AllAgree(u) == \A r \in Requests : Agrees(req[r], u, user[u], Effective(u))

Clearing(u) == \E r \in Requests : req[r].pc = "clear" /\ req[r].on = u

EntryHolds(u) == cached[u] = None \/ cached[u] = Effective(u) \/ Clearing(u)

UntouchedAreFresh ==
  \A u \in Users : u \notin raced =>
    AllAgree(u) /\ EntryHolds(u)

AccessInv == AccessTyped /\ UntouchedAreFresh

LEMMA RequestChanges ==
  ASSUME AccessTyped, NEW r \in Requests, NEW x, req' = [req EXCEPT ![r] = x], ReqShape(x)
  PROVE  /\ req' = [q \in Requests |-> req'[q]] /\ \A q \in Requests : ReqShape(req'[q])
         /\ req'[r] = x /\ \A q \in Requests \ {r} : req'[q] = req[q]
BY DEF AccessTyped

(* A request goes on, and nothing it shares with others changes.           *)
LEMMA OnlyOneMoves ==
  ASSUME AccessInv, NEW r \in Requests, NEW x, req' = [req EXCEPT ![r] = x], ReqShape(x),
         req[r].pc # "clear", UNCHANGED <<user, sysDocs, cached, raced>>,
         \A u \in Users \ raced : Agrees(x, u, user[u], Effective(u))
  PROVE  AccessInv'
<1>1. AccessTyped /\ UntouchedAreFresh
  BY DEF AccessInv
<1>2. /\ req' = [q \in Requests |-> req'[q]] /\ \A q \in Requests : ReqShape(req'[q])
      /\ req'[r] = x /\ \A q \in Requests \ {r} : req'[q] = req[q]
  BY <1>1, RequestChanges
<1>3. AccessTyped'
  BY <1>1, <1>2 DEF AccessTyped, UserShape
<1>4. ASSUME NEW u \in Users, u \notin raced
      PROVE  AllAgree(u)' /\ EntryHolds(u)'
  <2>1. AllAgree(u) /\ EntryHolds(u) /\ Agrees(x, u, user[u], Effective(u))
    BY <1>1, <1>4 DEF UntouchedAreFresh
  <2>2. Live(u)' = Live(u) /\ Effective(u)' = Effective(u)
    BY DEF Live, Effective
  <2>3. Clearing(u) => Clearing(u)'
    BY <1>2 DEF Clearing
  <2>4. EntryHolds(u)'
    BY <2>1, <2>2, <2>3 DEF EntryHolds
  <2>5. ASSUME NEW q \in Requests PROVE Agrees(req'[q], u, user'[u], Effective(u)')
    BY <1>2, <2>1, <2>2 DEF AllAgree
  <2> QED BY <2>4, <2>5 DEF AllAgree
<1> QED BY <1>3, <1>4 DEF AccessInv, UntouchedAreFresh, AllAgree

Settled(x) == x.pc \in {"idle", "find", "ceiling", "writeRole", "affected", "load"}

LEMMA SettledIsCurrent ==
  ASSUME NEW x, Settled(x), NEW u, NEW d, NEW g
  PROVE  Agrees(x, u, d, g)
BY DEF Settled, Agrees

LEMMA GrantedSettles ==
  ASSUME NEW r, NEW by, NEW grants, Granted(r, by, grants)
  PROVE  \E x : req' = [req EXCEPT ![r] = x] /\ ReqShape(x) /\ Settled(x)
<1>1. CASE Finish(r)
  <2>1. PICK x : x = Idle
    OBVIOUS
  <2>2. ReqShape(x) /\ Settled(x)
    BY <2>1 DEF Idle, ReqShape, Settled
  <2> QED BY <1>1, <2>1, <2>2 DEF Finish
<1>2. ASSUME NEW o, Goto(r, [pc |-> "ceiling", o |-> o, level |-> o.level])
      PROVE  \E x : req' = [req EXCEPT ![r] = x] /\ ReqShape(x) /\ Settled(x)
  <2>1. PICK x : x = [pc |-> "ceiling", o |-> o, level |-> o.level]
    OBVIOUS
  <2>2. ReqShape(x) /\ Settled(x)
    BY <2>1 DEF ReqShape, Settled
  <2> QED BY <1>2, <2>1, <2>2 DEF Goto
<1>3. ASSUME NEW o, Goto(r, [pc |-> "find", o |-> o])
      PROVE  \E x : req' = [req EXCEPT ![r] = x] /\ ReqShape(x) /\ Settled(x)
  <2>1. PICK x : x = [pc |-> "find", o |-> o]
    OBVIOUS
  <2>2. ReqShape(x) /\ Settled(x)
    BY <2>1 DEF ReqShape, Settled
  <2> QED BY <1>3, <2>1, <2>2 DEF Goto
<1> QED BY <1>1, <1>2, <1>3 DEF Granted

(* Reading, and the administration of roles.                               *)
LEMMA SettledMoves ==
  ASSUME AccessInv, NEW r \in Requests, NEW x, req' = [req EXCEPT ![r] = x], ReqShape(x),
         req[r].pc # "clear", Settled(x), UNCHANGED <<user, sysDocs, cached, raced>>
  PROVE  AccessInv'
BY SettledIsCurrent, OnlyOneMoves

LEMMA AuthorizeMoves ==
  ASSUME AccessInv, NEW r \in Requests, NEW by, Authorize(r, by)
  PROVE  AccessInv'
<1>1. req[r].pc # "clear" /\ UNCHANGED <<user, sysDocs, cached, raced>>
  BY DEF Authorize
<1>2. PICK x : req' = [req EXCEPT ![r] = x] /\ ReqShape(x) /\ Settled(x)
  <2>1. CASE Granted(r, by, cached[by])
    BY <2>1, GrantedSettles
  <2>2. CASE Goto(r, [pc |-> "load", by |-> by])
    <3>1. PICK x : x = [pc |-> "load", by |-> by]
      OBVIOUS
    <3>2. ReqShape(x) /\ Settled(x)
      BY <3>1 DEF ReqShape, Settled
    <3> QED BY <2>2, <3>1, <3>2 DEF Goto
  <2> QED BY <2>1, <2>2 DEF Authorize
<1> QED BY <1>1, <1>2, SettledMoves

LEMMA LoadUserMoves ==
  ASSUME AccessInv, NEW r \in Requests, LoadUser(r)
  PROVE  AccessInv'
<1> DEFINE by == req[r].by
<1>1. req[r].pc = "load" /\ UNCHANGED <<user, sysDocs, cached, raced>>
  BY DEF LoadUser
<1>2. CASE Live(by)
  <2>1. PICK x : x = [pc |-> "roles", by |-> by, role |-> user[by].role]
    OBVIOUS
  <2>2. req' = [req EXCEPT ![r] = x]
    BY <1>2, <2>1 DEF LoadUser, Goto
  <2>3. x.pc = "roles" /\ x.by = by /\ x.role = user[by].role
    BY <2>1
  <2>4. ReqShape(x) /\ \A u \in Users : Agrees(x, u, user[u], Effective(u))
    BY <1>2, <2>3 DEF ReqShape, Agrees, Live
  <2> QED BY <1>1, <2>2, <2>4, OnlyOneMoves
<1>3. CASE ~Live(by)
  <2>1. PICK x : x = [pc |-> "fill", by |-> by, grants |-> {}]
    OBVIOUS
  <2>2. req' = [req EXCEPT ![r] = x]
    BY <1>3, <2>1 DEF LoadUser, Goto
  <2>3. x.pc = "fill" /\ x.by = by /\ x.grants = {}
    BY <2>1
  <2>4. Effective(by) = {}
    BY <1>3 DEF Effective
  <2>5. ReqShape(x) /\ \A u \in Users : Agrees(x, u, user[u], Effective(u))
    BY <2>3, <2>4 DEF ReqShape, Agrees, Live
  <2> QED BY <1>1, <2>2, <2>5, OnlyOneMoves
<1> QED BY <1>2, <1>3

LEMMA LoadRolesMoves ==
  ASSUME AccessInv, NEW r \in Requests, LoadRoles(r)
  PROVE  AccessInv'
<1> DEFINE by == req[r].by
<1>1. req[r].pc = "roles" /\ UNCHANGED <<user, sysDocs, cached, raced>>
  BY DEF LoadRoles
<1>2. PICK x : x = [pc |-> "fill", by |-> by, grants |-> GrantsOf(sysDocs, req[r].role)]
  OBVIOUS
<1>3. req' = [req EXCEPT ![r] = x]
  BY <1>2 DEF LoadRoles, Goto
<1>4. x.pc = "fill" /\ x.by = by /\ x.grants = GrantsOf(sysDocs, req[r].role)
  BY <1>2
<1>5. ASSUME NEW u \in Users \ raced PROVE Agrees(x, u, user[u], Effective(u))
  <2>1. Agrees(req[r], u, user[u], Effective(u))
    BY <1>5 DEF AccessInv, UntouchedAreFresh, AllAgree
  <2>2. by = u => GrantsOf(sysDocs, req[r].role) = Effective(u)
    BY <1>1, <2>1 DEF Agrees, Live, Effective
  <2> QED BY <1>4, <2>2 DEF Agrees, Live
<1>6. ReqShape(x)
  BY <1>4 DEF ReqShape
<1> QED BY <1>1, <1>3, <1>5, <1>6, OnlyOneMoves

LEMMA RoleReadMoves ==
  ASSUME AccessInv, NEW r \in Requests, FindRole(r) \/ CheckCeiling(r)
  PROVE  AccessInv'
<1>1. req[r].pc # "clear" /\ UNCHANGED <<user, sysDocs, cached, raced>>
  BY DEF FindRole, CheckCeiling
<1>2. CASE Finish(r)
  BY <1>1, <1>2, SettledMoves DEF Finish, Idle, ReqShape, Settled
<1>3. CASE FindRole(r) /\ ~Finish(r)
  <2> DEFINE o == req[r].o
  <2>1. PICK pc \in {"ceiling", "writeRole"} :
          Goto(r, [pc |-> pc, o |-> o, level |-> role[o.id].hierarchy_level])
    BY <1>3 DEF FindRole
  <2>2. PICK x : x = [pc |-> pc, o |-> o, level |-> role[o.id].hierarchy_level]
    OBVIOUS
  <2>3. ReqShape(x) /\ Settled(x)
    BY <2>2 DEF ReqShape, Settled
  <2> QED BY <1>1, <2>1, <2>2, <2>3, SettledMoves DEF Goto
<1>4. CASE CheckCeiling(r) /\ ~Finish(r)
  <2>1. Goto(r, [req[r] EXCEPT !.pc = "writeRole"]) /\ req[r].pc = "ceiling" /\ ReqShape(req[r])
    BY <1>4 DEF CheckCeiling, AccessInv, AccessTyped
  <2>2. PICK x : x = [req[r] EXCEPT !.pc = "writeRole"]
    OBVIOUS
  <2>3. x.pc = "writeRole"
    BY <2>1, <2>2 DEF ReqShape
  <2>4. ReqShape(x) /\ Settled(x)
    BY <2>3 DEF ReqShape, Settled
  <2> QED BY <1>1, <2>1, <2>2, <2>4, SettledMoves DEF Goto
<1> QED BY <1>2, <1>3, <1>4

LEMMA RoleWriteMoves ==
  ASSUME AccessInv, NEW r \in Requests, CreateRole(r) \/ UpdateRole(r) \/ DeleteRole(r)
  PROVE  AccessInv'
<1>1. req[r].pc # "clear" /\ UNCHANGED <<user, sysDocs, cached, raced>>
  BY DEF CreateRole, UpdateRole, DeleteRole
<1>2. Finish(r) \/ Goto(r, [pc |-> "affected", id |-> req[r].o.id])
  BY DEF CreateRole, UpdateRole, DeleteRole
<1>3. CASE Finish(r)
  BY <1>1, <1>3, SettledMoves DEF Finish, Idle, ReqShape, Settled
<1>4. CASE Goto(r, [pc |-> "affected", id |-> req[r].o.id])
  <2>1. PICK x : x = [pc |-> "affected", id |-> req[r].o.id]
    OBVIOUS
  <2>2. ReqShape(x) /\ Settled(x)
    BY <2>1 DEF ReqShape, Settled
  <2> QED BY <1>1, <1>4, <2>1, <2>2, SettledMoves DEF Goto
<1> QED BY <1>2, <1>3, <1>4

LEMMA ReadUserMoves ==
  ASSUME AccessInv, NEW r \in Requests, NEW o, ReadUser(r, o)
  PROVE  AccessInv'
<1>1. req[r].pc = "idle" /\ UNCHANGED <<user, sysDocs, cached, raced>>
  BY DEF ReadUser
<1> DEFINE pc == IF o.op = "sync" THEN "config" ELSE "writeUser"
           set == [role |-> IF o.op = "sync" THEN None ELSE o.role, place |-> None]
<1>2. PICK x : x = [pc |-> pc, o |-> o, seen |-> user[o.on], set |-> set]
  OBVIOUS
<1>3. req' = [req EXCEPT ![r] = x]
  BY <1>2 DEF ReadUser, Goto
<1> HIDE DEF pc, set
<1>4. x.pc = pc /\ x.o = o /\ x.seen = user[o.on] /\ x.set = set
  BY <1>2
<1>5. pc \in {"config", "writeUser"}
  BY DEF pc
<1>6. ReqShape(x)
  BY <1>2, <1>4, <1>5 DEF ReqShape
<1>7. \A u \in Users : Agrees(x, u, user[u], Effective(u))
  BY <1>4, <1>5 DEF Agrees, Live
<1> QED BY <1>1, <1>3, <1>6, <1>7, OnlyOneMoves

LEMMA ReadMappingMoves ==
  ASSUME AccessInv, NEW r \in Requests, ReadMapping(r)
  PROVE  AccessInv'
<1>1. req[r].pc = "config" /\ UNCHANGED <<user, sysDocs, cached, raced>>
  BY DEF ReadMapping
<1>2. Finish(r) \/ \E set : Goto(r, [req[r] EXCEPT !.pc = "writeUser", !.set = set])
  BY DEF ReadMapping
<1>3. CASE Finish(r)
  BY <1>1, <1>3, SettledMoves DEF Finish, Idle, ReqShape, Settled
<1>4. ASSUME NEW set, Goto(r, [req[r] EXCEPT !.pc = "writeUser", !.set = set])
      PROVE  AccessInv'
  <2>1. PICK x : x = [req[r] EXCEPT !.pc = "writeUser", !.set = set]
    OBVIOUS
  <2>2. ReqShape(req[r])
    BY DEF AccessInv, AccessTyped
  <2>3. /\ x.pc = "writeUser" /\ x.o = req[r].o /\ x.seen = req[r].seen
        /\ x \in [pc : {"writeUser"}, o : {req[r].o}, seen : {req[r].seen}, set : {set}]
    BY <1>1, <2>1, <2>2 DEF ReqShape
  <2>4. ReqShape(x)
    BY <2>3 DEF ReqShape
  <2>5. ASSUME NEW u \in Users \ raced PROVE Agrees(x, u, user[u], Effective(u))
    <3>1. Agrees(req[r], u, user[u], Effective(u))
      BY <2>5 DEF AccessInv, UntouchedAreFresh, AllAgree
    <3> QED BY <1>1, <2>3, <3>1 DEF Agrees, Live
  <2> QED BY <1>1, <1>4, <2>1, <2>4, <2>5, OnlyOneMoves DEF Goto
<1> QED BY <1>2, <1>3, <1>4

LEMMA FillMoves ==
  ASSUME AccessInv, NEW r \in Requests, Fill(r)
  PROVE  AccessInv'
<1> DEFINE by == req[r].by
<1>1. /\ req[r].pc = "fill" /\ cached' = [cached EXCEPT ![by] = req[r].grants]
      /\ UNCHANGED <<user, sysDocs, raced>>
  BY DEF Fill
<1>2. PICK x : req' = [req EXCEPT ![r] = x] /\ ReqShape(x) /\ Settled(x)
  BY GrantedSettles DEF Fill
<1>3. AccessTyped /\ UntouchedAreFresh
  BY DEF AccessInv
<1>4. /\ req' = [q \in Requests |-> req'[q]] /\ \A q \in Requests : ReqShape(req'[q])
      /\ req'[r] = x /\ \A q \in Requests \ {r} : req'[q] = req[q]
  BY <1>2, <1>3, RequestChanges
<1>5. /\ cached' = [u \in Users |-> cached'[u]]
      /\ \A u \in Users : cached'[u] = IF u = by THEN req[r].grants ELSE cached[u]
  BY <1>1, <1>3 DEF AccessTyped
<1>6. AccessTyped'
  BY <1>1, <1>3, <1>4, <1>5 DEF AccessTyped, UserShape
<1>7. ASSUME NEW u \in Users, u \notin raced
      PROVE  AllAgree(u)' /\ EntryHolds(u)'
  <2>1. AllAgree(u) /\ EntryHolds(u) /\ Agrees(x, u, user[u], Effective(u))
    BY <1>2, <1>3, <1>7, SettledIsCurrent DEF UntouchedAreFresh, AllAgree
  <2>2. Live(u)' = Live(u) /\ Effective(u)' = Effective(u)
    BY <1>1 DEF Live, Effective
  <2>3. Clearing(u) => Clearing(u)'
    BY <1>1, <1>4 DEF Clearing
  <2>4. u = by => req[r].grants = Effective(u)
    BY <1>1, <2>1 DEF AllAgree, Agrees
  <2>5. EntryHolds(u)'
    BY <1>5, <2>1, <2>2, <2>3, <2>4 DEF EntryHolds
  <2>6. ASSUME NEW q \in Requests PROVE Agrees(req'[q], u, user'[u], Effective(u)')
    BY <1>1, <1>4, <2>1, <2>2 DEF AllAgree
  <2> QED BY <2>5, <2>6 DEF AllAgree
<1> QED BY <1>1, <1>6, <1>7 DEF AccessInv, UntouchedAreFresh, AllAgree

(* Nobody in flight depends on u.                                          *)
LEMMA NoSubjectIsCurrent ==
  ASSUME NEW q, NEW u, u \notin Subject(q), NEW d, NEW g
  PROVE  Agrees(req[q], u, d, g)
BY DEF Subject, Agrees

(* The writers of a role of a user.  While nobody else in flight depends   *)
(* on the user, what the writer has read of the role is what it replaces,  *)
(* so a write that changes it goes on to clear the entry.                  *)
LEMMA WriteUserMoves ==
  ASSUME AccessInv, NEW r \in Requests, WriteUser(r)
  PROVE  AccessInv'
<1> DEFINE on == req[r].o.on
           next == Stored(user[on], req[r].set)
<1>1. req[r].pc = "writeUser" /\ UNCHANGED <<sysDocs, cached>>
  BY DEF WriteUser
<1>2. AccessTyped /\ UntouchedAreFresh
  BY DEF AccessInv
<1>3. CASE ~WriteApplies(r)
  <2>1. Finish(r) /\ UNCHANGED <<user, raced>>
    BY <1>3 DEF WriteUser
  <2> QED BY <1>1, <2>1, SettledMoves DEF Finish, Idle, ReqShape, Settled
<1>4. CASE WriteApplies(r)
  <2>1. /\ user' = [user EXCEPT ![on] = next]
        /\ raced' = IF next.role # user[on].role /\ Overlapped(r, on)
                    THEN raced \cup {on} ELSE raced
        /\ IF NeedsClear(r) THEN Goto(r, [pc |-> "clear", on |-> on]) ELSE Finish(r)
    BY <1>4 DEF WriteUser
  <2>2. PICK x : x = IF NeedsClear(r) THEN [pc |-> "clear", on |-> on] ELSE Idle
    OBVIOUS
  <2>3. req' = [req EXCEPT ![r] = x]
    BY <2>1, <2>2 DEF Goto, Finish
  <2>4. /\ x.pc \in {"clear", "idle"}
        /\ NeedsClear(r) => x.pc = "clear" /\ x.on = on
    BY <2>2 DEF Idle
  <2>5. ReqShape(x)
    BY <2>4 DEF ReqShape
  <2>6. /\ req' = [q \in Requests |-> req'[q]] /\ \A q \in Requests : ReqShape(req'[q])
        /\ req'[r] = x /\ \A q \in Requests \ {r} : req'[q] = req[q]
    BY <1>2, <2>3, <2>5, RequestChanges
  <2>7. ASSUME on \in Users
        PROVE  /\ next.is_deleted = user[on].is_deleted /\ UserShape(next)
               /\ next.role = IF req[r].set.role # None THEN req[r].set.role ELSE user[on].role
    BY <1>2, <2>7 DEF AccessTyped, UserShape, Stored
  <2> HIDE DEF next
  <2>8. /\ user' = [u \in Users |-> user'[u]]
        /\ \A u \in Users : user'[u] = IF u = on THEN next ELSE user[u]
    BY <1>2, <2>1 DEF AccessTyped
  <2>9. \A u \in Users : UserShape(user'[u])
    BY <1>2, <2>7, <2>8 DEF AccessTyped
  <2>10. AccessTyped'
    BY <1>1, <1>2, <2>6, <2>8, <2>9 DEF AccessTyped
  <2>11. ASSUME NEW u \in Users, u \notin raced'
         PROVE  AllAgree(u)' /\ EntryHolds(u)'
    <3>1. AllAgree(u) /\ EntryHolds(u) /\ u \notin raced
      BY <1>2, <2>1, <2>11 DEF UntouchedAreFresh
    <3>2. Clearing(u) => Clearing(u)'
      BY <1>1, <2>6 DEF Clearing
    <3>3. CASE u # on \/ next.role = user[on].role
      <4>1. user'[u].role = user[u].role /\ user'[u].is_deleted = user[u].is_deleted
        BY <2>7, <2>8, <3>3
      <4>2. Effective(u)' = Effective(u)
        BY <1>1, <4>1 DEF Effective, Live
      <4>3. ASSUME NEW q \in Requests PROVE Agrees(req'[q], u, user'[u], Effective(u)')
        <5>1. CASE q = r
          BY <2>4, <2>6, <5>1 DEF Agrees
        <5>2. CASE q # r
          BY <2>6, <3>1, <4>1, <4>2, <5>2 DEF AllAgree, Agrees
        <5> QED BY <5>1, <5>2
      <4> QED BY <1>1, <3>1, <3>2, <4>2, <4>3 DEF AllAgree, EntryHolds
    <3>4. CASE u = on /\ next.role # user[on].role
      <4>1. ~Overlapped(r, u)
        BY <2>1, <2>11, <3>4
      <4>2. req[r].seen.role = user[u].role
        BY <1>1, <3>1, <3>4 DEF AllAgree, Agrees
      <4>3. NeedsClear(r)
        BY <2>7, <3>4, <4>2 DEF NeedsClear, RoleChanges
      <4>4. Clearing(u)'
        BY <2>4, <2>6, <3>4, <4>3 DEF Clearing
      <4>5. ASSUME NEW q \in Requests PROVE Agrees(req'[q], u, user'[u], Effective(u)')
        <5>1. CASE q = r
          BY <2>4, <2>6, <5>1 DEF Agrees
        <5>2. CASE q # r
          <6>1. u \notin Subject(q)
            BY <4>1, <5>2 DEF Overlapped
          <6> QED BY <2>6, <5>2, <6>1, NoSubjectIsCurrent
        <5> QED BY <5>1, <5>2
      <4> QED BY <4>4, <4>5 DEF AllAgree, EntryHolds
    <3> QED BY <3>3, <3>4
  <2> QED BY <2>10, <2>11 DEF AccessInv, UntouchedAreFresh
<1> QED BY <1>3, <1>4

(* A request ends, entries go, and raced loses only users nobody else is   *)
(* concerned with.                                                         *)
LEMMA EntriesGo ==
  ASSUME AccessInv, NEW r \in Requests, Finish(r), UNCHANGED <<user, sysDocs>>,
         cached' = [u \in Users |-> cached'[u]],
         \A u \in Users : cached'[u] \in {None, cached[u]},
         \A u \in Users \ raced' :
           /\ u \notin raced \/ (cached'[u] = None /\ ~Overlapped(r, u))
           /\ req[r].pc = "clear" /\ req[r].on = u => cached'[u] = None
  PROVE  AccessInv'
<1>1. AccessTyped /\ UntouchedAreFresh
  BY DEF AccessInv
<1>2. PICK x : x = Idle
  OBVIOUS
<1>3. x.pc = "idle" /\ req' = [req EXCEPT ![r] = x]
  BY <1>2 DEF Idle, Finish
<1>4. ReqShape(x)
  BY <1>3 DEF ReqShape
<1>5. /\ req' = [q \in Requests |-> req'[q]] /\ \A q \in Requests : ReqShape(req'[q])
      /\ req'[r] = x /\ \A q \in Requests \ {r} : req'[q] = req[q]
  BY <1>1, <1>3, <1>4, RequestChanges
<1>6. AccessTyped'
  BY <1>1, <1>5 DEF AccessTyped, UserShape
<1>7. ASSUME NEW u \in Users, u \notin raced'
      PROVE  AllAgree(u)' /\ EntryHolds(u)'
  <2>1. Effective(u)' = Effective(u)
    BY DEF Effective, Live
  <2>2. EntryHolds(u)'
    <3>1. CASE cached'[u] = None
      BY <3>1 DEF EntryHolds
    <3>2. CASE cached'[u] # None
      <4>1. cached'[u] = cached[u] /\ EntryHolds(u) /\ ~(req[r].pc = "clear" /\ req[r].on = u)
        BY <1>1, <1>7, <3>2 DEF UntouchedAreFresh
      <4>2. Clearing(u) => Clearing(u)'
        BY <1>5, <4>1 DEF Clearing
      <4> QED BY <2>1, <4>1, <4>2 DEF EntryHolds
    <3> QED BY <3>1, <3>2
  <2>3. ASSUME NEW q \in Requests PROVE Agrees(req'[q], u, user'[u], Effective(u)')
    <3>1. CASE q = r
      BY <1>3, <1>5, <3>1 DEF Agrees
    <3>2. CASE q # r /\ u \notin raced
      <4>1. AllAgree(u)
        BY <1>1, <3>2 DEF UntouchedAreFresh
      <4> QED BY <1>5, <2>1, <3>2, <4>1 DEF AllAgree
    <3>3. CASE q # r /\ u \in raced
      <4>1. u \notin Subject(q)
        BY <1>7, <3>3 DEF Overlapped
      <4> QED BY <1>5, <3>3, <4>1, NoSubjectIsCurrent
    <3> QED BY <3>1, <3>2, <3>3
  <2> QED BY <2>2, <2>3 DEF AllAgree
<1> QED BY <1>6, <1>7 DEF AccessInv, UntouchedAreFresh

LEMMA InvalidateMoves ==
  ASSUME AccessInv, NEW r \in Requests, Invalidate(r)
  PROVE  AccessInv'
<1> DEFINE on == req[r].on
<1>1. req[r].pc = "clear" /\ Finish(r) /\ UNCHANGED <<user, sysDocs>>
  BY DEF Invalidate
<1>2. cached = [u \in Users |-> cached[u]]
  BY DEF AccessInv, AccessTyped
<1>3. CASE /\ cached' = [cached EXCEPT ![on] = None]
           /\ raced' = IF Overlapped(r, on) THEN raced ELSE raced \ {on}
  <2>1. /\ cached' = [u \in Users |-> cached'[u]]
        /\ \A u \in Users : cached'[u] = IF u = on THEN None ELSE cached[u]
    BY <1>2, <1>3
  <2>2. \A u \in Users \ raced' : u \notin raced \/ (u = on /\ ~Overlapped(r, u))
    BY <1>3
  <2> QED BY <1>1, <2>1, <2>2, EntriesGo
<1>4. CASE UNCHANGED cached /\ raced' = raced \cup {on}
  <2>1. \A u \in Users \ raced' : u \notin raced /\ u # on
    BY <1>4
  <2> QED BY <1>1, <1>2, <1>4, <2>1, EntriesGo
<1> QED BY <1>3, <1>4 DEF Invalidate

LEMMA InvalidateForRoleMoves ==
  ASSUME AccessInv, NEW r \in Requests, InvalidateForRole(r)
  PROVE  AccessInv'
<1>1. /\ req[r].pc = "affected" /\ Finish(r) /\ UNCHANGED <<user, sysDocs>>
      /\ raced' = { u \in raced : cached'[u] # None \/ ~Quiet(u) }
  BY DEF InvalidateForRole
<1>2. /\ cached' = [u \in Users |-> cached'[u]]
      /\ \A u \in Users : cached'[u] \in {None, cached[u]}
  BY DEF InvalidateForRole
<1>3. \A u \in Users \ raced' : u \notin raced \/ (cached'[u] = None /\ ~Overlapped(r, u))
  BY <1>1 DEF Quiet, Overlapped
<1> QED BY <1>1, <1>2, <1>3, EntriesGo

(* Everyone who is touched without a request is in raced, or nobody in     *)
(* flight depends on them.                                                 *)
LEMMA RemoveUserMoves ==
  ASSUME AccessInv, NEW v \in Users, RemoveUser(v)
  PROVE  AccessInv'
<1>1. AccessTyped /\ UntouchedAreFresh
  BY DEF AccessInv
<1>2. /\ user' = [user EXCEPT ![v].is_deleted = TRUE] /\ raced' = raced \cup {v}
      /\ UNCHANGED <<sysDocs, cached, req>>
  BY DEF RemoveUser
<1>3. PICK d : d = [user[v] EXCEPT !.is_deleted = TRUE]
  OBVIOUS
<1>4. UserShape(d)
  BY <1>1, <1>3 DEF AccessTyped, UserShape
<1>5. /\ user' = [u \in Users |-> user'[u]]
      /\ user'[v] = d /\ \A u \in Users \ {v} : user'[u] = user[u]
  BY <1>1, <1>2, <1>3 DEF AccessTyped
<1>6. AccessTyped'
  BY <1>1, <1>2, <1>4, <1>5 DEF AccessTyped
<1>7. ASSUME NEW u \in Users, u \notin raced'
      PROVE  AllAgree(u)' /\ EntryHolds(u)'
  <2>1. AllAgree(u) /\ EntryHolds(u)
    BY <1>1, <1>2, <1>7 DEF UntouchedAreFresh
  <2>2. Effective(u)' = Effective(u) /\ user'[u] = user[u]
    <3>1. user'[u] = user[u] /\ sysDocs' = sysDocs
      BY <1>2, <1>5, <1>7
    <3> QED BY <3>1 DEF Effective, Live
  <2>3. Clearing(u)' = Clearing(u)
    BY <1>2 DEF Clearing
  <2> QED BY <1>2, <2>1, <2>2, <2>3 DEF AllAgree, EntryHolds
<1> QED BY <1>6, <1>7 DEF AccessInv, UntouchedAreFresh

LEMMA ExpireMoves ==
  ASSUME AccessInv, NEW v \in Users, Expire(v)
  PROVE  AccessInv'
<1>1. AccessTyped /\ UntouchedAreFresh
  BY DEF AccessInv
<1>2. /\ cached' = [cached EXCEPT ![v] = None]
      /\ raced' = IF Quiet(v) THEN raced \ {v} ELSE raced
      /\ UNCHANGED <<user, sysDocs, req>>
  BY DEF Expire
<1>3. /\ cached' = [u \in Users |-> cached'[u]]
      /\ \A u \in Users : cached'[u] = IF u = v THEN None ELSE cached[u]
  BY <1>1, <1>2 DEF AccessTyped
<1>4. AccessTyped'
  BY <1>1, <1>2, <1>3 DEF AccessTyped, UserShape
<1>5. ASSUME NEW u \in Users, u \notin raced'
      PROVE  AllAgree(u)' /\ EntryHolds(u)'
  <2>1. Effective(u)' = Effective(u) /\ Clearing(u)' = Clearing(u)
    BY <1>2 DEF Effective, Live, Clearing
  <2>2. CASE u \notin raced
    <3>1. AllAgree(u) /\ EntryHolds(u)
      BY <1>1, <2>2 DEF UntouchedAreFresh
    <3> QED BY <1>2, <1>3, <2>1, <3>1 DEF AllAgree, EntryHolds
  <2>3. CASE u \in raced
    <3>1. u = v /\ Quiet(u)
      BY <1>2, <1>5, <2>3
    <3>2. \A q \in Requests : Agrees(req[q], u, user[u], Effective(u))
      BY <3>1, NoSubjectIsCurrent DEF Quiet
    <3> QED BY <1>2, <1>3, <2>1, <3>1, <3>2 DEF AllAgree, EntryHolds
  <2> QED BY <2>2, <2>3
<1> QED BY <1>4, <1>5 DEF AccessInv, UntouchedAreFresh

LEMMA AccessStays ==
  ASSUME AccessInv, UNCHANGED <<user, sysDocs, cached, req, raced>>
  PROVE  AccessInv'
BY DEF AccessInv, AccessTyped, UserShape, UntouchedAreFresh, AllAgree, EntryHolds, Clearing,
       Effective, Live, ReqShape, Agrees

LEMMA SeedRoleMoves ==
  ASSUME AccessInv, SeedRole
  PROVE  AccessInv'
<1>1. /\ raced' = IF sysDocs' = sysDocs THEN raced ELSE raced \cup Users
      /\ UNCHANGED <<user, cached, req>>
  BY DEF SeedRole
<1>2. CASE sysDocs' = sysDocs
  BY <1>1, <1>2, AccessStays
<1>3. CASE sysDocs' # sysDocs
  <2>1. \A u \in Users : u \in raced'
    BY <1>1, <1>3
  <2>2. AccessTyped'
    BY <1>1 DEF AccessInv, AccessTyped, UserShape
  <2> QED BY <2>1, <2>2 DEF AccessInv, UntouchedAreFresh
<1> QED BY <1>2, <1>3

LEMMA AccessStart == AccessInit => AccessInv
<1> SUFFICES ASSUME AccessInit PROVE AccessInv
  OBVIOUS
<1>1. \A r \in Requests : req[r].pc = "idle"
  BY DEF AccessInit, Idle
<1>2. \A r \in Requests : ReqShape(req[r])
  BY <1>1 DEF ReqShape
<1>3. AccessTyped
  BY <1>2 DEF AccessInit, AccessTyped, UserShape
<1>4. \A u \in Users : AllAgree(u)
  BY <1>1 DEF AllAgree, Agrees
<1>5. \A u \in Users : EntryHolds(u)
  BY DEF AccessInit, EntryHolds
<1> QED BY <1>3, <1>4, <1>5 DEF AccessInv, UntouchedAreFresh

LEMMA AccessKeeps == AccessInv /\ [AccessNext]_accessVars => AccessInv'
<1> SUFFICES ASSUME AccessInv, [AccessNext]_accessVars PROVE AccessInv'
  OBVIOUS
<1>1. ASSUME NEW r \in Requests,
             \/ \E u \in Users : Authorize(r, u)
             \/ \E o \in UserOps \cup SyncOps : ReadUser(r, o)
      PROVE  AccessInv'
  BY <1>1, AuthorizeMoves, ReadUserMoves
<1>2. ASSUME NEW r \in Requests, Step(r)
      PROVE  AccessInv'
  <2>1. CASE LoadUser(r) \/ LoadRoles(r) \/ Fill(r)
    BY <2>1, LoadUserMoves, LoadRolesMoves, FillMoves
  <2>2. CASE FindRole(r) \/ CheckCeiling(r) \/ CreateRole(r) \/ UpdateRole(r) \/ DeleteRole(r)
    BY <2>2, RoleReadMoves, RoleWriteMoves
  <2>3. CASE InvalidateForRole(r) \/ ReadMapping(r) \/ WriteUser(r) \/ Invalidate(r)
    BY <2>3, InvalidateForRoleMoves, ReadMappingMoves, WriteUserMoves, InvalidateMoves
  <2> QED BY <1>2, <2>1, <2>2, <2>3 DEF Step
<1>3. ASSUME NEW u \in Users, RemoveUser(u) \/ Expire(u)
      PROVE  AccessInv'
  BY <1>3, RemoveUserMoves, ExpireMoves
<1>4. ASSUME NEW doc, UpsertMapping(doc)
      PROVE  AccessInv'
  BY <1>4, AccessStays DEF UpsertMapping
<1>5. CASE SeedRole
  BY <1>5, SeedRoleMoves
<1>6. CASE UNCHANGED accessVars
  BY <1>6, AccessStays DEF accessVars
<1> QED BY <1>1, <1>2, <1>3, <1>4, <1>5, <1>6 DEF AccessNext

(* For every number of users and of overlapping requests: the permissions  *)
(* Redis serves for a user nobody is loading or changing are those of the  *)
(* database, unless a race, a swallowed clearing, a deletion or a release  *)
(* that changed the system roles left the entry behind (PermissionCache-   *)
(* Service and the writers of a user's role).                              *)
THEOREM PermissionsStayFresh == AccessSpec => []SettledPermissionsAreFresh
<1>1. AccessInv => SettledPermissionsAreFresh
  <2> SUFFICES ASSUME AccessInv, NEW u \in Users, Quiet(u), cached[u] # None, u \notin raced
               PROVE  cached[u] = Effective(u)
    BY DEF SettledPermissionsAreFresh
  <2>1. EntryHolds(u)
    BY DEF AccessInv, UntouchedAreFresh
  <2>2. ~Clearing(u)
    BY DEF Quiet, Clearing, Subject
  <2> QED BY <2>1, <2>2 DEF EntryHolds
<1> QED BY <1>1, AccessStart, AccessKeeps, PTL DEF AccessSpec

-----------------------------------------------------------------------------
(* The ceiling.  A request that is about to write a role has held its      *)
(* permissions against a level that the role has had, or will have by that *)
(* write; what was read of its level only ever lies below the top one.     *)
(* Documents are mixed while a release is being seeded, but each grant     *)
(* comes from a document of one release, and one grant is all it takes.    *)

EverGrants(level, p) ==
  \E docs \in {OldPermissions, SystemPermissions} :
    HasPermission(GrantsOf(docs, CeilingRole(level)), p)

EverWithin(level, perms) == \A p \in perms : EverGrants(level, p)

DocsOfReleases ==
  \A n \in SystemRoleNames : sysDocs[n] \in {OldPermissions[n], SystemPermissions[n]}

RoleShape(d) ==
  /\ d \in [name : {d.name}, permissions : {d.permissions},
            hierarchy_level : {d.hierarchy_level}, is_deleted : {d.is_deleted}]
  /\ d.hierarchy_level \in Int

(* A role has nothing above the most privileged level it has had.          *)
RoleFits(d, top) ==
  d # None =>
    /\ RoleShape(d)
    /\ top <= d.hierarchy_level
    /\ EverWithin(top, d.permissions)

Held(x) == IF x.o.level # None THEN x.o.level ELSE x.level

SetsPermissions(o) == o \in CreateOps \/ (o \in UpdateOps /\ o.permissions # None)

RoleOps == CreateOps \cup UpdateOps \cup DeleteOps

(* What a request in flight has established about the role it works on.    *)
RoleWork(x, top) ==
  /\ x.pc = "find" => x.o \in UpdateOps \cup DeleteOps
  /\ x.pc \in {"ceiling", "writeRole"} => x.o \in RoleOps
  /\ x.pc = "ceiling" =>
       x \in [pc : {x.pc}, o : {x.o}, level : {x.level}] /\ x.o \notin DeleteOps
  /\ x.pc \in {"ceiling", "writeRole"} /\ x.o \in UpdateOps =>
       x.level \in Int /\ top[x.o.id] <= x.level
  /\ x.pc \in {"ceiling", "writeRole"} /\ x.o \in CreateOps => x.level = x.o.level
  /\ x.pc = "writeRole" /\ SetsPermissions(x.o) =>
       EverWithin(Held(x), ValidatedPermissions(x.o.permissions))

CeilingInv ==
  /\ DocsOfReleases
  /\ topLevel = [i \in RoleIds |-> topLevel[i]] /\ \A i \in RoleIds : topLevel[i] \in Int
  /\ role = [i \in RoleIds |-> role[i]] /\ \A i \in RoleIds : RoleFits(role[i], topLevel[i])
  /\ req = [r \in Requests |-> req[r]] /\ \A r \in Requests : RoleWork(req[r], topLevel)

(* A higher place in the hierarchy grants no less.                         *)
LEMMA CeilingsRise ==
  ASSUME NEW a \in Int, NEW b \in Int, a <= b
  PROVE  EffectiveRoleNames(CeilingRole(b)) \subseteq EffectiveRoleNames(CeilingRole(a))
<1>1. \A x \in Int : CeilingRole(x) \in UserRoles
  BY DEF CeilingRole, UserRoles
<1>2. /\ RolePlace["org_admin"] = 1 /\ RolePlace["account_admin"] = 2
      /\ RolePlace["dept_manager"] = 3 /\ RolePlace["dept_user"] = 4
  BY DEF RolePlace, UserRoles
<1>3. RolePlace[CeilingRole(a)] <= RolePlace[CeilingRole(b)]
  BY <1>2 DEF CeilingRole
<1>4. \A r \in UserRoles : RolePlace[r] \in Int
  BY <1>2 DEF UserRoles
<1> QED BY <1>1, <1>3, <1>4 DEF EffectiveRoleNames

LEMMA MoreGrantsMorePermissions ==
  ASSUME NEW S, NEW T, S \subseteq T, NEW p, HasPermission(S, p)
  PROVE  HasPermission(T, p)
BY DEF HasPermission

LEMMA WithinRises ==
  ASSUME NEW a \in Int, NEW b \in Int, a <= b, NEW perms, EverWithin(b, perms)
  PROVE  EverWithin(a, perms)
<1> SUFFICES ASSUME NEW p \in perms PROVE EverGrants(a, p)
  BY DEF EverWithin
<1>1. PICK docs \in {OldPermissions, SystemPermissions} :
        HasPermission(GrantsOf(docs, CeilingRole(b)), p)
  BY DEF EverWithin, EverGrants
<1>2. GrantsOf(docs, CeilingRole(b)) \subseteq GrantsOf(docs, CeilingRole(a))
  BY CeilingsRise DEF GrantsOf
<1> QED BY <1>1, <1>2, MoreGrantsMorePermissions DEF EverGrants

(* One grant of one document decides.                                      *)
LEMMA OneGrantDecides ==
  ASSUME NEW grants, NEW q, HasPermission(grants, q)
  PROVE  \E g \in grants : \A T : g \in T => HasPermission(T, q)
BY DEF HasPermission

LEMMA CheckedIsWithin ==
  ASSUME DocsOfReleases, NEW level, NEW perms, WithinCeiling(sysDocs, level, perms)
  PROVE  EverWithin(level, perms)
<1> SUFFICES ASSUME NEW p \in perms PROVE EverGrants(level, p)
  BY DEF EverWithin
<1>1. HasPermission(GrantsOf(sysDocs, CeilingRole(level)), p)
  BY DEF WithinCeiling
<1>2. PICK g \in GrantsOf(sysDocs, CeilingRole(level)) : \A T : g \in T => HasPermission(T, p)
  BY <1>1, OneGrantDecides
<1>3. PICK n \in EffectiveRoleNames(CeilingRole(level)) : g \in sysDocs[n]
  BY <1>2 DEF GrantsOf
<1>4. n \in SystemRoleNames
  BY DEF EffectiveRoleNames, SystemRoleNames
<1>5. PICK docs \in {OldPermissions, SystemPermissions} : g \in docs[n]
  BY <1>3, <1>4 DEF DocsOfReleases
<1>6. g \in GrantsOf(docs, CeilingRole(level))
  BY <1>5 DEF GrantsOf
<1> QED BY <1>2, <1>5, <1>6 DEF EverGrants

(* Operations are told apart by their name.                                *)
LEMMA OpsDiffer ==
  ASSUME NEW o \in RoleOps
  PROVE  /\ o.op = "createRole" <=> o \in CreateOps
         /\ o.op = "updateRole" <=> o \in UpdateOps
         /\ o.op = "deleteRole" <=> o \in DeleteOps
         /\ o.id \in RoleIds
<1>1. /\ o \in CreateOps => o.op = "createRole" /\ o.id \in RoleIds
      /\ o \in UpdateOps => o.op = "updateRole" /\ o.id \in RoleIds
      /\ o \in DeleteOps => o.op = "deleteRole" /\ o.id \in RoleIds
  BY DEF CreateOps, UpdateOps, DeleteOps
<1> QED BY <1>1 DEF RoleOps

(* A request goes on, and the roles stay as they are.                      *)
LEMMA CeilingHolds ==
  ASSUME CeilingInv, NEW r \in Requests, NEW x, req' = [req EXCEPT ![r] = x],
         RoleWork(x, topLevel), UNCHANGED <<sysDocs, role, topLevel>>
  PROVE  CeilingInv'
<1>1. /\ req' = [q \in Requests |-> req'[q]]
      /\ \A q \in Requests : RoleWork(req'[q], topLevel)
  BY DEF CeilingInv
<1>2. DocsOfReleases'
  BY DEF CeilingInv, DocsOfReleases
<1> QED BY <1>1, <1>2 DEF CeilingInv

Elsewhere(x) == x.pc \notin {"find", "ceiling", "writeRole"}

LEMMA ElsewhereHolds ==
  ASSUME NEW x, Elsewhere(x), NEW top
  PROVE  RoleWork(x, top)
BY DEF Elsewhere, RoleWork

LEMMA GoesElsewhere ==
  ASSUME CeilingInv, NEW r \in Requests, NEW x, req' = [req EXCEPT ![r] = x],
         Elsewhere(x), UNCHANGED <<sysDocs, role, topLevel>>
  PROVE  CeilingInv'
BY ElsewhereHolds, CeilingHolds

LEMMA CeilingEnds ==
  ASSUME CeilingInv, NEW r \in Requests, Finish(r), UNCHANGED <<sysDocs, role, topLevel>>
  PROVE  CeilingInv'
<1>1. PICK x : x = Idle
  OBVIOUS
<1>2. Elsewhere(x)
  BY <1>1 DEF Idle, Elsewhere
<1> QED BY <1>1, <1>2, GoesElsewhere DEF Finish

LEMMA GrantedHolds ==
  ASSUME CeilingInv, NEW r \in Requests, NEW by, NEW grants, Granted(r, by, grants),
         UNCHANGED <<sysDocs, role, topLevel>>
  PROVE  CeilingInv'
<1>1. CASE Finish(r)
  BY <1>1, CeilingEnds
<1>2. ASSUME NEW o \in CreateOps, Goto(r, [pc |-> "ceiling", o |-> o, level |-> o.level])
      PROVE  CeilingInv'
  <2>1. PICK x : x = [pc |-> "ceiling", o |-> o, level |-> o.level]
    OBVIOUS
  <2>2. /\ x.pc = "ceiling" /\ x.o = o /\ x.level = o.level
        /\ x \in [pc : {x.pc}, o : {x.o}, level : {x.level}]
    BY <2>1
  <2>3. o \in RoleOps
    BY DEF RoleOps
  <2>4. o \notin UpdateOps /\ o \notin DeleteOps
    BY <2>3, OpsDiffer
  <2>5. RoleWork(x, topLevel)
    BY <2>2, <2>3, <2>4 DEF RoleWork
  <2>6. req' = [req EXCEPT ![r] = x]
    BY <1>2, <2>1 DEF Goto
  <2> QED BY <2>5, <2>6, CeilingHolds
<1>3. ASSUME NEW o \in UpdateOps \cup DeleteOps, Goto(r, [pc |-> "find", o |-> o])
      PROVE  CeilingInv'
  <2>1. PICK x : x = [pc |-> "find", o |-> o]
    OBVIOUS
  <2>2. x.pc = "find" /\ x.o = o
    BY <2>1
  <2>3. RoleWork(x, topLevel)
    BY <2>2 DEF RoleWork
  <2>4. req' = [req EXCEPT ![r] = x]
    BY <1>3, <2>1 DEF Goto
  <2> QED BY <2>3, <2>4, CeilingHolds
<1> QED BY <1>1, <1>2, <1>3 DEF Granted

LEMMA LoadingHolds ==
  ASSUME CeilingInv, NEW r \in Requests,
         (\E u \in Users : Authorize(r, u)) \/ LoadUser(r) \/ LoadRoles(r) \/ Fill(r)
  PROVE  CeilingInv'
<1>1. UNCHANGED <<sysDocs, role, topLevel>>
  BY DEF Authorize, LoadUser, LoadRoles, Fill
<1>2. ASSUME NEW x, x.pc \in {"load", "roles", "fill"}, Goto(r, x)
      PROVE  CeilingInv'
  BY <1>1, <1>2, GoesElsewhere DEF Goto, Elsewhere
<1>3. ASSUME NEW by, NEW grants, Granted(r, by, grants)
      PROVE  CeilingInv'
  BY <1>1, <1>3, GrantedHolds
<1>4. ASSUME NEW by, Goto(r, [pc |-> "load", by |-> by])
      PROVE  CeilingInv'
  <2>1. PICK x : x = [pc |-> "load", by |-> by]
    OBVIOUS
  <2>2. x.pc = "load" /\ Goto(r, x)
    BY <1>4, <2>1
  <2> QED BY <1>2, <2>2
<1>5. ASSUME NEW by, NEW rl, Goto(r, [pc |-> "roles", by |-> by, role |-> rl])
      PROVE  CeilingInv'
  <2>1. PICK x : x = [pc |-> "roles", by |-> by, role |-> rl]
    OBVIOUS
  <2>2. x.pc = "roles" /\ Goto(r, x)
    BY <1>5, <2>1
  <2> QED BY <1>2, <2>2
<1>6. ASSUME NEW by, NEW g, Goto(r, [pc |-> "fill", by |-> by, grants |-> g])
      PROVE  CeilingInv'
  <2>1. PICK x : x = [pc |-> "fill", by |-> by, grants |-> g]
    OBVIOUS
  <2>2. x.pc = "fill" /\ Goto(r, x)
    BY <1>6, <2>1
  <2> QED BY <1>2, <2>2
<1>7. ASSUME NEW u \in Users, Authorize(r, u) PROVE CeilingInv'
  BY <1>3, <1>4, <1>7 DEF Authorize
<1>8. ASSUME LoadUser(r) PROVE CeilingInv'
  BY <1>5, <1>6, <1>8 DEF LoadUser
<1>9. ASSUME LoadRoles(r) PROVE CeilingInv'
  BY <1>6, <1>9 DEF LoadRoles
<1>10. ASSUME Fill(r) PROVE CeilingInv'
  BY <1>3, <1>10 DEF Fill
<1> QED BY <1>7, <1>8, <1>9, <1>10

LEMMA FindRoleHolds ==
  ASSUME CeilingInv, NEW r \in Requests, FindRole(r)
  PROVE  CeilingInv'
<1> DEFINE o == req[r].o
           pc == IF o.op = "updateRole" /\ o.permissions # None THEN "ceiling" ELSE "writeRole"
<1>1. req[r].pc = "find" /\ UNCHANGED <<sysDocs, role, topLevel>>
  BY DEF FindRole
<1>2. o \in UpdateOps \cup DeleteOps
  BY <1>1 DEF CeilingInv, RoleWork
<1>3. CASE ~(Exists(o.id) /\ ValidBody(o))
  BY <1>1, <1>3, CeilingEnds DEF FindRole
<1>4. CASE Exists(o.id) /\ ValidBody(o)
  <2>1. PICK x : x = [pc |-> pc, o |-> o, level |-> role[o.id].hierarchy_level]
    OBVIOUS
  <2>2. req' = [req EXCEPT ![r] = x]
    BY <1>4, <2>1 DEF FindRole, Goto
  <2> HIDE DEF pc
  <2>3. /\ x.pc = pc /\ x.o = o /\ x.level = role[o.id].hierarchy_level
        /\ x \in [pc : {x.pc}, o : {x.o}, level : {x.level}]
    BY <2>1
  <2> HIDE DEF o
  <2>4. o \in RoleOps /\ o.id \in RoleIds /\ o \notin CreateOps
    <3>1. o \in RoleOps
      BY <1>2 DEF RoleOps
    <3> QED BY <1>2, <3>1, OpsDiffer
  <2>5. /\ o \in UpdateOps => o.op = "updateRole"
        /\ pc = "ceiling" => o.op = "updateRole"
        /\ pc \in {"ceiling", "writeRole"}
        /\ pc = "writeRole" => ~SetsPermissions(o)
    BY <2>4, OpsDiffer DEF pc, SetsPermissions
  <2>6. o.op = "updateRole" => o \notin DeleteOps
    BY <2>4, OpsDiffer
  <2>7. role[o.id].hierarchy_level \in Int /\ topLevel[o.id] <= role[o.id].hierarchy_level
    BY <1>4, <2>4 DEF CeilingInv, RoleFits, RoleShape, Exists
  <2>8. RoleWork(x, topLevel)
    BY <2>3, <2>4, <2>5, <2>6, <2>7 DEF RoleWork
  <2> QED BY <1>1, <2>2, <2>8, CeilingHolds
<1> QED BY <1>3, <1>4

LEMMA CheckCeilingHolds ==
  ASSUME CeilingInv, NEW r \in Requests, CheckCeiling(r)
  PROVE  CeilingInv'
<1> DEFINE y == req[r]
           perms == ValidatedPermissions(y.o.permissions)
<1>1. y.pc = "ceiling" /\ UNCHANGED <<sysDocs, role, topLevel>> /\ RoleWork(y, topLevel)
  BY DEF CheckCeiling, CeilingInv
<1>2. CASE ~WithinCeiling(sysDocs, CheckedLevel(r), perms)
  BY <1>1, <1>2, CeilingEnds DEF CheckCeiling
<1>3. CASE WithinCeiling(sysDocs, CheckedLevel(r), perms)
  <2>1. PICK x : x = [y EXCEPT !.pc = "writeRole"]
    OBVIOUS
  <2>2. req' = [req EXCEPT ![r] = x]
    BY <1>3, <2>1 DEF CheckCeiling, Goto
  <2>3. EverWithin(CheckedLevel(r), perms)
    BY <1>3, CheckedIsWithin DEF CeilingInv
  <2>4. CheckedLevel(r) = Held(y)
    BY DEF CheckedLevel, Held
  <2> HIDE DEF y
  <2>5. y \in [pc : {y.pc}, o : {y.o}, level : {y.level}]
    BY <1>1 DEF RoleWork
  <2>6. x.pc = "writeRole" /\ x.o = y.o /\ x.level = y.level
    BY <2>1, <2>5
  <2>7. Held(x) = Held(y)
    BY <2>6 DEF Held
  <2>8. RoleWork(x, topLevel)
    BY <1>1, <2>3, <2>4, <2>6, <2>7 DEF RoleWork
  <2> QED BY <1>1, <2>2, <2>8, CeilingHolds
<1> QED BY <1>2, <1>3

(* A role is written: its top level goes down or stays, and so does what   *)
(* requests in flight have read of it.                                     *)
LEMMA RoleIsWritten ==
  ASSUME CeilingInv, NEW r \in Requests, NEW x, req' = [req EXCEPT ![r] = x], Elsewhere(x),
         UNCHANGED sysDocs, NEW i \in RoleIds, NEW d, NEW top \in Int, top <= topLevel[i],
         role' = [role EXCEPT ![i] = d], topLevel' = [topLevel EXCEPT ![i] = top],
         RoleFits(d, top)
  PROVE  CeilingInv'
<1>1. /\ role' = [j \in RoleIds |-> role'[j]] /\ topLevel' = [j \in RoleIds |-> topLevel'[j]]
      /\ role'[i] = d /\ \A j \in RoleIds \ {i} : role'[j] = role[j]
      /\ topLevel'[i] = top /\ \A j \in RoleIds \ {i} : topLevel'[j] = topLevel[j]
  BY DEF CeilingInv
<1>2. \A j \in RoleIds : topLevel'[j] \in Int /\ topLevel'[j] <= topLevel[j]
  BY <1>1 DEF CeilingInv
<1>3. \A j \in RoleIds : RoleFits(role'[j], topLevel'[j])
  BY <1>1 DEF CeilingInv
<1>4. /\ req' = [q \in Requests |-> req'[q]] /\ req'[r] = x
      /\ \A q \in Requests \ {r} : req'[q] = req[q]
  BY DEF CeilingInv
<1>5. ASSUME NEW q \in Requests PROVE RoleWork(req'[q], topLevel')
  <2>1. CASE q = r
    BY <1>4, <2>1, ElsewhereHolds
  <2>2. CASE q # r
    <3>1. PICK y : y = req[q]
      OBVIOUS
    <3>2. RoleWork(y, topLevel)
      BY <3>1 DEF CeilingInv
    <3>3. ASSUME y.pc \in {"ceiling", "writeRole"}, y.o \in UpdateOps
          PROVE  y.level \in Int /\ topLevel'[y.o.id] <= y.level
      <4>1. y.level \in Int /\ topLevel[y.o.id] <= y.level
        BY <3>2, <3>3 DEF RoleWork
      <4>2. y.o.id \in RoleIds
        BY <3>3, OpsDiffer DEF RoleOps
      <4>3. topLevel[y.o.id] \in Int
        BY <4>2 DEF CeilingInv
      <4> QED BY <1>2, <4>1, <4>2, <4>3
    <3>4. RoleWork(y, topLevel')
      BY <3>2, <3>3 DEF RoleWork
    <3> QED BY <1>4, <2>2, <3>1, <3>4
  <2> QED BY <2>1, <2>2
<1>6. DocsOfReleases'
  BY DEF CeilingInv, DocsOfReleases
<1> QED BY <1>1, <1>2, <1>3, <1>4, <1>5, <1>6 DEF CeilingInv

LEMMA LevelsAreNumbers == Levels \subseteq Int
BY AccessAssumption

LEMMA CreateRoleHolds ==
  ASSUME CeilingInv, NEW r \in Requests, CreateRole(r)
  PROVE  CeilingInv'
<1>1. PICK y : y = req[r]
  OBVIOUS
<1>2. y.pc = "writeRole" /\ y.o.op = "createRole" /\ RoleWork(y, topLevel)
  BY <1>1 DEF CreateRole, CeilingInv
<1>3. y.o \in CreateOps /\ y.o.id \in RoleIds
  BY <1>2, OpsDiffer DEF RoleWork
<1>4. y.o.level \in Int
  <2>1. y.o.level \in Levels
    BY <1>3 DEF CreateOps
  <2> QED BY <2>1, LevelsAreNumbers
<1>5. Held(y) = y.o.level /\ EverWithin(y.o.level, ValidatedPermissions(y.o.permissions))
  BY <1>2, <1>3 DEF RoleWork, Held, SetsPermissions
<1>6. CASE UNCHANGED <<role, topLevel>>
  BY <1>6, CeilingEnds DEF CreateRole
<1>7. CASE /\ role' = [role EXCEPT ![y.o.id] =
                   [name |-> y.o.name, permissions |-> ValidatedPermissions(y.o.permissions),
                    hierarchy_level |-> y.o.level, is_deleted |-> FALSE]]
           /\ topLevel' = Higher(y.o.id, y.o.level)
  <2>1. PICK d : d = [name |-> y.o.name, permissions |-> ValidatedPermissions(y.o.permissions),
                      hierarchy_level |-> y.o.level, is_deleted |-> FALSE]
    OBVIOUS
  <2>2. /\ d.permissions = ValidatedPermissions(y.o.permissions) /\ d.hierarchy_level = y.o.level
        /\ d \in [name : {d.name}, permissions : {d.permissions},
                  hierarchy_level : {d.hierarchy_level}, is_deleted : {d.is_deleted}]
    BY <2>1
  <2>3. PICK i \in RoleIds : i = y.o.id
    BY <1>3
  <2>4. topLevel[i] \in Int
    BY DEF CeilingInv
  <2>5. PICK top : top = IF y.o.level < topLevel[i] THEN y.o.level ELSE topLevel[i]
    OBVIOUS
  <2>6. top \in Int /\ top <= topLevel[i] /\ top <= y.o.level
    BY <1>4, <2>4, <2>5
  <2>7. role' = [role EXCEPT ![i] = d] /\ topLevel' = [topLevel EXCEPT ![i] = top]
    BY <1>7, <2>1, <2>3, <2>5 DEF Higher
  <2>8. EverWithin(top, d.permissions)
    BY <1>4, <1>5, <2>2, <2>6, WithinRises
  <2>9. RoleFits(d, top)
    BY <1>4, <2>2, <2>6, <2>8 DEF RoleFits, RoleShape
  <2>10. PICK x : x = Idle
    OBVIOUS
  <2>11. req' = [req EXCEPT ![r] = x] /\ Elsewhere(x) /\ UNCHANGED sysDocs
    BY <2>10 DEF CreateRole, Finish, Idle, Elsewhere
  <2> QED BY <2>6, <2>7, <2>9, <2>11, RoleIsWritten
<1> QED BY <1>1, <1>6, <1>7 DEF CreateRole

LEMMA UpdateRoleHolds ==
  ASSUME CeilingInv, NEW r \in Requests, UpdateRole(r)
  PROVE  CeilingInv'
<1>1. PICK y : y = req[r]
  OBVIOUS
<1>2. /\ y.pc = "writeRole" /\ y.o.op = "updateRole" /\ RoleWork(y, topLevel)
      /\ UNCHANGED sysDocs
  BY <1>1 DEF UpdateRole, CeilingInv
<1>3. y.o \in UpdateOps /\ y.o.id \in RoleIds
  BY <1>2, OpsDiffer DEF RoleWork
<1>4. PICK i \in RoleIds : i = y.o.id
  BY <1>3
<1>5. y.o.level # None => y.o.level \in Int
  <2>1. y.o.level \in Levels \cup {None}
    BY <1>3 DEF UpdateOps
  <2> QED BY <2>1, LevelsAreNumbers
<1>6. CASE ~Exists(i)
  BY <1>1, <1>4, <1>6, CeilingEnds DEF UpdateRole
<1>7. CASE Exists(i)
  <2>1. /\ role' = [role EXCEPT ![i] = UpdatedRole(@, y.o)]
        /\ topLevel' = IF y.o.level # None THEN Higher(i, y.o.level) ELSE topLevel
        /\ Goto(r, [pc |-> "affected", id |-> i])
    BY <1>1, <1>4, <1>7 DEF UpdateRole
  <2>2. PICK e : e = role[i]
    OBVIOUS
  <2>3. RoleShape(e) /\ topLevel[i] <= e.hierarchy_level /\ EverWithin(topLevel[i], e.permissions)
    BY <1>7, <2>2 DEF CeilingInv, RoleFits, Exists
  <2>4. PICK d : d = UpdatedRole(e, y.o)
    OBVIOUS
  <2>5. /\ d.permissions = IF y.o.permissions # None THEN ValidatedPermissions(y.o.permissions)
                           ELSE e.permissions
        /\ d.hierarchy_level = IF y.o.level # None THEN y.o.level ELSE e.hierarchy_level
        /\ d \in [name : {d.name}, permissions : {d.permissions},
                  hierarchy_level : {d.hierarchy_level}, is_deleted : {d.is_deleted}]
    BY <2>3, <2>4 DEF UpdatedRole, RoleShape
  <2>6. topLevel[i] \in Int
    BY DEF CeilingInv
  <2>7. PICK top : top = IF y.o.level # None /\ y.o.level < topLevel[i] THEN y.o.level
                         ELSE topLevel[i]
    OBVIOUS
  <2>8. /\ top \in Int /\ top <= topLevel[i]
        /\ y.o.level # None => top <= y.o.level
    BY <1>5, <2>6, <2>7
  <2>9. topLevel' = [topLevel EXCEPT ![i] = top]
    <3>1. CASE y.o.level # None
      BY <2>1, <2>7, <3>1 DEF Higher
    <3>2. CASE y.o.level = None
      BY <2>1, <2>7, <3>2 DEF CeilingInv
    <3> QED BY <3>1, <3>2
  <2>10. role' = [role EXCEPT ![i] = d]
    BY <2>1, <2>2, <2>4
  <2>11. d.hierarchy_level \in Int /\ top <= d.hierarchy_level
    BY <1>5, <2>3, <2>5, <2>6, <2>8 DEF RoleShape
  <2>12. EverWithin(top, d.permissions)
    <3>1. CASE y.o.permissions = None
      BY <2>3, <2>5, <2>6, <2>8, <3>1, WithinRises
    <3>2. CASE y.o.permissions # None
      <4>1. EverWithin(Held(y), d.permissions)
        BY <1>2, <1>3, <2>5, <3>2 DEF RoleWork, SetsPermissions
      <4>2. y.level \in Int /\ topLevel[i] <= y.level
        BY <1>2, <1>3, <1>4 DEF RoleWork
      <4>3. Held(y) \in Int /\ top <= Held(y)
        BY <1>5, <2>6, <2>8, <4>2 DEF Held
      <4> QED BY <2>8, <4>1, <4>3, WithinRises
    <3> QED BY <3>1, <3>2
  <2>13. RoleFits(d, top)
    BY <2>5, <2>11, <2>12 DEF RoleFits, RoleShape
  <2>14. PICK x : x = [pc |-> "affected", id |-> i]
    OBVIOUS
  <2>15. req' = [req EXCEPT ![r] = x] /\ Elsewhere(x)
    BY <2>1, <2>14 DEF Goto, Elsewhere
  <2> QED BY <1>2, <2>8, <2>9, <2>10, <2>13, <2>15, RoleIsWritten
<1> QED BY <1>6, <1>7

LEMMA DeleteRoleHolds ==
  ASSUME CeilingInv, NEW r \in Requests, DeleteRole(r)
  PROVE  CeilingInv'
<1>1. PICK y : y = req[r]
  OBVIOUS
<1>2. /\ y.pc = "writeRole" /\ y.o.op = "deleteRole" /\ RoleWork(y, topLevel)
      /\ UNCHANGED <<sysDocs, topLevel>>
  BY <1>1 DEF DeleteRole, CeilingInv
<1>3. PICK i \in RoleIds : i = y.o.id
  BY <1>2, OpsDiffer DEF RoleWork
<1>4. CASE ~Exists(i)
  BY <1>1, <1>3, <1>4, CeilingEnds DEF DeleteRole
<1>5. CASE Exists(i)
  <2>1. PICK e : e = role[i]
    OBVIOUS
  <2>2. RoleShape(e) /\ topLevel[i] <= e.hierarchy_level /\ EverWithin(topLevel[i], e.permissions)
    BY <1>5, <2>1 DEF CeilingInv, RoleFits, Exists
  <2>3. PICK d : d = [e EXCEPT !.is_deleted = TRUE]
    OBVIOUS
  <2>4. /\ d.permissions = e.permissions /\ d.hierarchy_level = e.hierarchy_level
        /\ d \in [name : {d.name}, permissions : {d.permissions},
                  hierarchy_level : {d.hierarchy_level}, is_deleted : {d.is_deleted}]
    BY <2>2, <2>3 DEF RoleShape
  <2>5. role' = [role EXCEPT ![i] = d]
    BY <1>1, <1>3, <1>5, <2>1, <2>3 DEF DeleteRole
  <2>6. topLevel' = [topLevel EXCEPT ![i] = topLevel[i]] /\ topLevel[i] \in Int
    BY <1>2 DEF CeilingInv
  <2>7. RoleFits(d, topLevel[i])
    BY <2>2, <2>4 DEF RoleFits, RoleShape
  <2>8. PICK x : x = [pc |-> "affected", id |-> i]
    OBVIOUS
  <2>9. req' = [req EXCEPT ![r] = x] /\ Elsewhere(x)
    BY <1>1, <1>3, <1>5, <2>8 DEF DeleteRole, Goto, Elsewhere
  <2>10. PICK top \in Int : top = topLevel[i]
    BY <2>6
  <2>11. top <= topLevel[i] /\ topLevel' = [topLevel EXCEPT ![i] = top] /\ RoleFits(d, top)
    BY <2>6, <2>7, <2>10
  <2> QED BY <1>2, <2>5, <2>9, <2>11, RoleIsWritten
<1> QED BY <1>4, <1>5

LEMMA ReadUserHolds ==
  ASSUME CeilingInv, NEW r \in Requests, NEW o, ReadUser(r, o)
  PROVE  CeilingInv'
<1> DEFINE set == [role |-> IF o.op = "sync" THEN None ELSE o.role, place |-> None]
           pc == IF o.op = "sync" THEN "config" ELSE "writeUser"
<1>1. PICK x : x = [pc |-> pc, o |-> o, seen |-> user[o.on], set |-> set]
  OBVIOUS
<1>2. req' = [req EXCEPT ![r] = x] /\ UNCHANGED <<sysDocs, role, topLevel>>
  BY <1>1 DEF ReadUser, Goto
<1>3. x.pc \in {"config", "writeUser"}
  BY <1>1
<1> QED BY <1>2, <1>3, GoesElsewhere DEF Elsewhere

LEMMA ReadMappingHolds ==
  ASSUME CeilingInv, AccessInv, NEW r \in Requests, ReadMapping(r)
  PROVE  CeilingInv'
<1>1. req[r].pc = "config" /\ UNCHANGED <<sysDocs, role, topLevel>>
  BY ZenonT(30) DEF ReadMapping
<1>2. Finish(r) \/ \E set : Goto(r, [req[r] EXCEPT !.pc = "writeUser", !.set = set])
  BY ZenonT(30) DEF ReadMapping
<1>3. ASSUME NEW set, Goto(r, [req[r] EXCEPT !.pc = "writeUser", !.set = set])
      PROVE  CeilingInv'
  <2>1. PICK x : x = [req[r] EXCEPT !.pc = "writeUser", !.set = set]
    OBVIOUS
  <2>2. ReqShape(req[r])
    BY DEF AccessInv, AccessTyped
  <2>3. x.pc = "writeUser"
    BY <1>1, <2>1, <2>2 DEF ReqShape
  <2>4. Elsewhere(x)
    BY <2>3 DEF Elsewhere
  <2> QED BY <1>1, <1>3, <2>1, <2>4, GoesElsewhere DEF Goto
<1>4. Finish(r) => CeilingInv'
  BY <1>1, CeilingEnds
<1> QED BY <1>2, <1>3, <1>4

LEMMA WriteUserHolds ==
  ASSUME CeilingInv, NEW r \in Requests, WriteUser(r)
  PROVE  CeilingInv'
<1>1. UNCHANGED <<sysDocs, role, topLevel>>
  BY DEF WriteUser
<1>2. Finish(r) \/ Goto(r, [pc |-> "clear", on |-> req[r].o.on])
  BY DEF WriteUser
<1>3. PICK x : x = [pc |-> "clear", on |-> req[r].o.on]
  OBVIOUS
<1>4. Elsewhere(x)
  BY <1>3 DEF Elsewhere
<1> QED BY <1>1, <1>2, <1>3, <1>4, CeilingEnds, GoesElsewhere DEF Goto

LEMMA InvalidateHolds ==
  ASSUME CeilingInv, NEW r \in Requests, Invalidate(r) \/ InvalidateForRole(r)
  PROVE  CeilingInv'
<1>1. CASE Invalidate(r)
  BY <1>1, CeilingEnds DEF Invalidate
<1>2. CASE InvalidateForRole(r)
  BY <1>2, CeilingEnds DEF InvalidateForRole
<1> QED BY <1>1, <1>2

LEMMA CeilingStays ==
  ASSUME CeilingInv, UNCHANGED <<role, req, topLevel>>, DocsOfReleases'
  PROVE  CeilingInv'
BY DEF CeilingInv

LEMMA SeedRoleHolds ==
  ASSUME CeilingInv, SeedRole
  PROVE  CeilingInv'
<1>1. UNCHANGED <<role, req, topLevel>>
  BY DEF SeedRole
<1>2. PICK n : sysDocs' = [sysDocs EXCEPT ![n] = SystemPermissions[n]]
  BY DEF SeedRole
<1>3. DOMAIN sysDocs' = DOMAIN sysDocs
  BY <1>2
<1>4. ASSUME NEW m \in SystemRoleNames
      PROVE  sysDocs'[m] \in {OldPermissions[m], SystemPermissions[m]}
  <2>1. sysDocs[m] \in {OldPermissions[m], SystemPermissions[m]}
    BY DEF CeilingInv, DocsOfReleases
  <2>2. sysDocs'[m] = sysDocs[m] \/ (m = n /\ sysDocs'[m] = SystemPermissions[n])
    BY <1>2
  <2> QED BY <2>1, <2>2
<1> QED BY <1>1, <1>4, CeilingStays DEF DocsOfReleases

LEMMA CeilingStart == AccessInit => CeilingInv
<1> SUFFICES ASSUME AccessInit PROVE CeilingInv
  OBVIOUS
<1>1. \A r \in Requests : Elsewhere(req[r])
  BY DEF AccessInit, Idle, Elsewhere
<1>2. \A r \in Requests : RoleWork(req[r], topLevel)
  BY <1>1, ElsewhereHolds
<1>3. DocsOfReleases
  BY DEF AccessInit, DocsOfReleases
<1>4. \A i \in RoleIds : RoleFits(role[i], topLevel[i])
  BY DEF AccessInit, RoleFits
<1> QED BY <1>2, <1>3, <1>4 DEF AccessInit, CeilingInv

LEMMA CeilingKeeps == CeilingInv /\ AccessInv /\ [AccessNext]_accessVars => CeilingInv'
<1> SUFFICES ASSUME CeilingInv, AccessInv, [AccessNext]_accessVars PROVE CeilingInv'
  OBVIOUS
<1>1. ASSUME NEW r \in Requests,
             \/ \E u \in Users : Authorize(r, u)
             \/ \E o \in UserOps \cup SyncOps : ReadUser(r, o)
      PROVE  CeilingInv'
  BY <1>1, LoadingHolds, ReadUserHolds
<1>2. ASSUME NEW r \in Requests, Step(r)
      PROVE  CeilingInv'
  <2>1. CASE LoadUser(r) \/ LoadRoles(r) \/ Fill(r)
    BY <2>1, LoadingHolds
  <2>2. CASE FindRole(r) \/ CheckCeiling(r)
    BY <2>2, FindRoleHolds, CheckCeilingHolds
  <2>3. CASE CreateRole(r) \/ UpdateRole(r) \/ DeleteRole(r)
    BY <2>3, CreateRoleHolds, UpdateRoleHolds, DeleteRoleHolds
  <2>4. CASE InvalidateForRole(r) \/ ReadMapping(r) \/ WriteUser(r) \/ Invalidate(r)
    BY <2>4, ReadMappingHolds, WriteUserHolds, InvalidateHolds
  <2> QED BY <1>2, <2>1, <2>2, <2>3, <2>4 DEF Step
<1>3. CASE SeedRole
  BY <1>3, SeedRoleHolds
<1>4. ASSUME UNCHANGED <<sysDocs, role, req, topLevel>>
      PROVE  CeilingInv'
  BY <1>4, CeilingStays DEF CeilingInv, DocsOfReleases
<1>5. ASSUME NEW u \in Users, RemoveUser(u) \/ Expire(u)
      PROVE  CeilingInv'
  BY <1>4, <1>5 DEF RemoveUser, Expire
<1>6. ASSUME NEW doc, UpsertMapping(doc)
      PROVE  CeilingInv'
  BY <1>4, <1>6 DEF UpsertMapping
<1>7. CASE UNCHANGED accessVars
  BY <1>4, <1>7 DEF accessVars
<1> QED BY <1>1, <1>2, <1>3, <1>5, <1>6, <1>7 DEF AccessNext

(* For every number of requests and of roles: however updates of a custom  *)
(* role overlap, and while a release seeds new system roles, the role has  *)
(* no permission above the ceiling of the most privileged level it has had *)
(* (RoleService.createRole and updateRole).                                *)
THEOREM RolesHaveACeiling == AccessSpec => []RolesStayUnderTheirCeiling
<1>1. CeilingInv => RolesStayUnderTheirCeiling
  BY DEF CeilingInv, RoleFits, EverWithin, EverGrants, RolesStayUnderTheirCeiling
<1> QED BY <1>1, CeilingStart, CeilingKeeps, AccessStart, AccessKeeps, PTL DEF AccessSpec

=============================================================================
