------------------------------ MODULE PeerCache ------------------------------
(***************************************************************************)
(* The peer cache file of client.go: savePeerCache, run by the goroutine   *)
(* that every connection of a topic peer starts, os.WriteFile's truncate   *)
(* and write, either of which may fail, and the load with eviction when    *)
(* the next process starts.                                                *)
(*                                                                         *)
(* The file is its parsed entries and its length; it does not parse when   *)
(* it is empty, when a write left the tail of a longer one behind, and     *)
(* when only a part of a text was written.                                 *)
(* Connections and pubsub's topic lists belong to the environment.         *)
(***************************************************************************)
EXTENDS Integers

CONSTANTS
    Peers,       \* remote peers
    Size,        \* bytes of a file that lists a set of entries
    Savers,      \* bound on the goroutines in savePeerCache at a time
    TTL,         \* effective PeerCacheTTL; negative: no eviction
    MaxClock     \* bound on time, in steps of one unit

Zero == 0
Entry(p, time) == [id |-> p, seen |-> time]
Entries == {Entry(p, time) : p \in Peers, time \in Zero..MaxClock}

ASSUME TTLIsInt == TTL \in Int /\ MaxClock \in Nat \ {0}
ASSUME SizesAreNat == Size \in [SUBSET Entries -> Nat]

VARIABLES
    clock,       \* wall clock; Zero stands for a missing LastSeen
    up,          \* the process runs
    connected,   \* peers with an open connection
    inTopic,     \* what topic.ListPeers returns, which may lag behind
    lastConn,    \* history: when a peer was last seen connected
    file,        \* the cache file
    pc,          \* where each saver stands
    todo,        \* peers of peerSet a saver has still to look at
    now,         \* the saver's time.Now()
    out,         \* the entries a saver will write
    dialled,     \* peers dialled from the cache by this process
    overlapped,  \* history: a file was opened during another write
    cut          \* history: a write failed, or the process ended in one

network == <<connected, inTopic, lastConn>>
savers  == <<pc, todo, now, out>>
\* Both speak of the writes since the last truncation that found no other write
\* under way.
history == <<overlapped, cut>>
vars == <<clock, up, network, file, savers, dialled, history>>

\* A file that does not exist is told apart from one that does not parse.
Missing == [kind |-> "missing", entries |-> {}, len |-> 0]
Broken(n) == [kind |-> "broken", entries |-> {}, len |-> n]
Json(E) == [kind |-> "json", entries |-> E, len |-> Size[E]]

\* No file yet, or one written by a version without LastSeen.
Init ==
    /\ clock = 1 /\ up = FALSE
    /\ connected = {} /\ inTopic = {}
    /\ lastConn = [p \in Peers |-> Zero]
    /\ file \in {Missing} \cup {Json({Entry(p, Zero)}) : p \in Peers}
    /\ pc = [s \in Savers |-> "idle"] /\ todo = [s \in Savers |-> {}]
    /\ now = [s \in Savers |-> Zero] /\ out = [s \in Savers |-> {}]
    /\ dialled = {} /\ overlapped = FALSE /\ cut = FALSE

Goto(s, from, to) == pc[s] = from /\ pc' = [pc EXCEPT ![s] = to]

-----------------------------------------------------------------------------
(* Start-up: loadAndConnectCachedPeers.                                    *)

\* Mutant: the comparison with the threshold is the wrong way round.
FreshReversed(e) == e.seen = Zero \/ e.seen <= clock - TTL
Fresh(e) == e.seen = Zero \/ e.seen > clock - TTL

evictStalePeers(E) == IF TTL < 0 THEN E ELSE {e \in E : Fresh(e)}

\* A file that cannot be opened or read, or does not parse, lists nobody.
loadPeerCache == {{}, evictStalePeers(file.entries)}

Start ==
    /\ ~up
    /\ up' = TRUE
    /\ \E E \in loadPeerCache : dialled' = {e.id : e \in E}
    /\ UNCHANGED <<clock, network, file, savers, history>>

\* The process ends, by a crash or at the end of main; savers do not hold it up.
Stop ==
    /\ up
    /\ up' = FALSE
    /\ connected' = {} /\ inTopic' = {}
    /\ lastConn' = [p \in Peers |-> IF p \in connected THEN clock ELSE lastConn[p]]
    /\ cut' = (cut \/ \E s \in Savers : pc[s] = "write")
    /\ pc' = [s \in Savers |-> "idle"] /\ todo' = [s \in Savers |-> {}]
    /\ now' = [s \in Savers |-> Zero] /\ out' = [s \in Savers |-> {}]
    /\ dialled' = {}
    /\ UNCHANGED <<clock, file, overlapped>>

-----------------------------------------------------------------------------
(* Connections.                                                            *)

\* ConnectedF starts a goroutine; s stands for it.
Connect(p, s) ==
    /\ up /\ p \notin connected
    /\ connected' = connected \cup {p}
    /\ Goto(s, "idle", "notified")
    /\ UNCHANGED <<clock, up, inTopic, lastConn, file, todo, now, out, dialled, history>>

Disconnect(p) ==
    /\ p \in connected
    /\ connected' = connected \ {p}
    /\ lastConn' = [lastConn EXCEPT ![p] = clock]
    /\ UNCHANGED <<clock, up, inTopic, file, savers, dialled, history>>

\* pubsub learns of a peer's subscription, or drops the peer.
EnterTopic(p) ==
    /\ p \in connected
    /\ inTopic' = inTopic \cup {p}
    /\ UNCHANGED <<clock, up, connected, lastConn, file, savers, dialled, history>>

LeaveTopic(p) ==
    /\ inTopic' = inTopic \ {p} /\ p \in inTopic
    /\ UNCHANGED <<clock, up, connected, lastConn, file, savers, dialled, history>>

Tick ==
    /\ clock < MaxClock
    /\ clock' = clock + 1
    /\ UNCHANGED <<up, network, file, savers, dialled, history>>

-----------------------------------------------------------------------------
(* savePeerCache.                                                          *)

\* After its delay the callback saves only if the peer it was called for is
\* in the topic; its identity matters to nothing else.
Collect(s) ==
    /\ \/ inTopic # {} /\ Goto(s, "notified", "stamp")
          /\ todo' = [todo EXCEPT ![s] = inTopic]
       \/ Goto(s, "notified", "idle") /\ UNCHANGED todo
    /\ UNCHANGED <<clock, up, network, file, now, out, dialled, history>>

\* The existing file is read into existingMap, which nothing uses; then now.
Stamp(s) ==
    /\ Goto(s, "stamp", "filter")
    /\ now' = [now EXCEPT ![s] = clock]
    /\ UNCHANGED <<clock, up, network, file, todo, out, dialled, history>>

\* Mutant: whoever pubsub lists is taken to be connected.
ListedIsConnected(p) == TRUE
HasConns(p) == p \in connected

\* Mutant: LastSeen holds the time at which the entry expires.
ExpiryOf(s) == now[s] + TTL
LastSeenOf(s) == now[s]

Filter(s, p) ==
    /\ p \in todo[s]
    /\ Goto(s, "filter", "filter")
    /\ todo' = [todo EXCEPT ![s] = @ \ {p}]
    /\ out' = IF HasConns(p) THEN [out EXCEPT ![s] = @ \cup {Entry(p, LastSeenOf(s))}] ELSE out
    /\ UNCHANGED <<clock, up, network, file, now, dialled, history>>

\* Mutant: an empty list is written like any other.
SavesAnything(s) == TRUE
WorthSaving(s) == out[s] # {}

\* Mutant: the file is opened without O_TRUNC.
OpenedAsIs == IF file.kind = "missing" THEN Broken(0) ELSE file
Truncated == Broken(0)

\* savePeerCache returns.
Leaves(s, from) ==
    /\ Goto(s, from, "idle")
    /\ now' = [now EXCEPT ![s] = Zero] /\ out' = [out EXCEPT ![s] = {}]

OthersWrite(s) == \E r \in Savers \ {s} : pc[r] = "write"

\* Nothing to save, or the file cannot be opened: it stays as it was.
OpenFile(s) ==
    /\ todo[s] = {}
    /\ \/ /\ WorthSaving(s)
          /\ Goto(s, "filter", "write")
          /\ file' = Truncated
          /\ overlapped' = OthersWrite(s)
          /\ cut' = (cut /\ OthersWrite(s))
          /\ UNCHANGED <<now, out>>
       \/ Leaves(s, "filter") /\ UNCHANGED <<file, history>>
    /\ UNCHANGED <<clock, up, network, todo, dialled>>

\* Each writer writes at offset zero of its own descriptor.
Written(E) == IF Size[E] >= file.len THEN Json(E) ELSE Broken(file.len)

\* The first n bytes of a text, over what the file holds.
PartWritten(n) == IF n = 0 THEN file ELSE Broken(IF n > file.len THEN n ELSE file.len)

\* The error of a write that fails, on a full disk say, is only logged.
WriteFile(s) ==
    /\ Leaves(s, "write")
    /\ \/ file' = Written(out[s]) /\ UNCHANGED cut
       \/ \E n \in 0..Size[out[s]] - 1 : file' = PartWritten(n) /\ cut' = TRUE
    /\ UNCHANGED <<clock, up, network, todo, dialled, overlapped>>

Save(s) ==
    \/ Collect(s) \/ Stamp(s) \/ OpenFile(s) \/ WriteFile(s)
    \/ \E p \in Peers : Filter(s, p)

Next ==
    \/ Start \/ Stop \/ Tick
    \/ \E p \in Peers :
          \/ Disconnect(p) \/ EnterTopic(p) \/ LeaveTopic(p)
          \/ \E s \in Savers : Connect(p, s)
    \/ \E s \in Savers : Save(s)

Spec == Init /\ [][Next]_vars

-----------------------------------------------------------------------------
\* Every variable has its type, and no entry is listed twice for one peer.
TypeOK ==
    /\ clock \in 1..MaxClock /\ up \in BOOLEAN
    /\ connected \subseteq Peers /\ inTopic \subseteq Peers /\ dialled \subseteq Peers
    /\ lastConn \in [Peers -> Zero..MaxClock]
    /\ file.kind \in {"missing", "broken", "json"}
    /\ file.entries \subseteq Entries /\ file.len \in Nat
    /\ \A e, f \in file.entries : e.id = f.id => e = f
    /\ pc \in [Savers -> {"idle", "notified", "stamp", "filter", "write"}]
    /\ todo \in [Savers -> SUBSET Peers]
    /\ now \in [Savers -> Zero..MaxClock]
    /\ out \in [Savers -> SUBSET Entries]
    /\ overlapped \in BOOLEAN /\ cut \in BOOLEAN

LastConnected(p) == IF p \in connected THEN clock ELSE lastConn[p]

\* LastSeen in the file never claims more than the truth: the peer was
\* connected at that time or later, whatever pubsub's list said.
LastSeenTruthful == \A e \in file.entries : e.seen <= LastConnected(e.id)

\* A save that finds nobody connected leaves the old cache alone: a file that
\* parses has a peer to dial.
NeverWiped == file.kind = "json" => file.entries # {}

\* The next save that opens the file while no other is writing, and that runs to
\* its end without an error or another save on top of it, leaves a file that
\* parses, whatever a crash, a full disk or overlapping saves had made of it; a
\* file that does not parse is the work of the writes since that truncation.
LoneSaveRepairs ==
    file.kind = "broken" /\ (\A s \in Savers : pc[s] # "write") => overlapped \/ cut

\* A restart dials from the cache only peers that were connected within the
\* TTL ("Peers not seen for longer than this duration will be evicted",
\* Config.PeerCacheTTL), or that have no LastSeen at all; a negative TTL
\* disables the eviction.
DialsRecentPeers ==
    [][ \A p \in dialled' \ dialled :
           \/ TTL < 0 \/ Entry(p, Zero) \in file.entries
           \/ LastConnected(p) > clock - TTL ]_vars

\* Config.PeerCacheFile: "the client will save connected peers to this file
\* and reload them on restart": saves that all return without an error, in a
\* process that lives on, leave a file that parses.
SavesCompose ==
    file.kind = "broken" /\ (\A s \in Savers : pc[s] # "write") => cut
=============================================================================
