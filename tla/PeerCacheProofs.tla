--------------------------- MODULE PeerCacheProofs ---------------------------
(***************************************************************************)
(* What the cache file says, for any number of peers and savers, any TTL   *)
(* and any length of the files written.                                    *)
(***************************************************************************)
EXTENDS PeerCache, TLAPS

-----------------------------------------------------------------------------
\* The past is over.
Past == \A p \in Peers : lastConn[p] <= clock

\* A saver's entries bear its own time, at which or after which their peers
\* were connected; it writes only if it has some.
Stamped ==
    \A s \in Savers :
        /\ now[s] <= clock
        /\ pc[s] \in {"idle", "notified", "stamp"} => out[s] = {}
        /\ pc[s] = "write" => out[s] # {}
        /\ \A e \in out[s] : e.seen = now[s] /\ now[s] <= LastConnected(e.id)

Writing(s) == pc[s] = "write"

\* Until another save opens the file there is one writer, and it found the file
\* empty.
Alone ==
    ~overlapped =>
        /\ \A r, s \in Savers : Writing(r) /\ Writing(s) => r = s
        /\ (\E s \in Savers : Writing(s)) => file.len = 0

Inductive ==
    /\ TypeOK /\ Past /\ Stamped /\ Alone
    /\ LastSeenTruthful /\ NeverWiped /\ LoneSaveRepairs

\* Steps that leave the file and the savers' entries alone.
NoWrite ==
    /\ UNCHANGED <<file, now, out, overlapped, cut>>
    /\ \A s \in Savers :
          /\ pc'[s] = "write" <=> pc[s] = "write"
          /\ pc'[s] \in {"idle", "notified", "stamp"} => pc[s] \in {"idle", "notified", "stamp"}

-----------------------------------------------------------------------------
(* The values.                                                             *)

LEMMA EntryFields ==
    /\ \A p, t : Entry(p, t).id = p /\ Entry(p, t).seen = t
    /\ \A p \in Peers, t \in Zero..MaxClock : Entry(p, t) \in Entries
    /\ \A e \in Entries : e.id \in Peers /\ e.seen \in Zero..MaxClock
    /\ \A e, f \in Entries : e.id = f.id /\ e.seen = f.seen => e = f
BY DEF Entry, Entries

LEMMA SizeTyped == ASSUME NEW E \in SUBSET Entries PROVE Size[E] \in Nat
BY SizesAreNat

LEMMA InitInductive == Init => Inductive
<1> SUFFICES ASSUME Init
             PROVE  Inductive
  OBVIOUS
<1>1. clock \in 1..MaxClock /\ 0 \in 0..MaxClock
  BY TTLIsInt DEF Init
<1>2. CASE file = Missing
  <2>1. TypeOK
    BY <1>1, <1>2 DEF Init, TypeOK, Missing, Zero
  <2>2. Alone /\ LastSeenTruthful /\ NeverWiped /\ LoneSaveRepairs
    BY <1>2 DEF Init, Alone, Writing, LastSeenTruthful, NeverWiped, LoneSaveRepairs, Missing
  <2>3. Past /\ Stamped
    BY DEF Init, Past, Stamped, Zero
  <2> QED
    BY <2>1, <2>2, <2>3 DEF Inductive
<1>3. ASSUME NEW p \in Peers, file = Json({Entry(p, Zero)})
      PROVE  Inductive
  <2> DEFINE e == Entry(p, Zero)
  <2>1. e \in Entries /\ e.id = p /\ e.seen = 0
    BY <1>1, EntryFields DEF Zero
  <2>2. file.kind = "json" /\ file.entries = {e} /\ file.len \in Nat
    BY <1>3, <2>1, SizeTyped DEF Json
  <2> HIDE DEF e
  <2>3. TypeOK
    BY <1>1, <2>1, <2>2 DEF Init, TypeOK, Zero
  <2>4. LastSeenTruthful
    BY <2>1, <2>2 DEF Init, LastSeenTruthful, LastConnected, Zero
  <2>5. Alone /\ NeverWiped /\ LoneSaveRepairs
    BY <2>2 DEF Init, Alone, Writing, NeverWiped, LoneSaveRepairs
  <2>6. Past /\ Stamped
    BY DEF Init, Past, Stamped, Zero
  <2> QED
    BY <2>3, <2>4, <2>5, <2>6 DEF Inductive
<1> QED
  BY <1>2, <1>3 DEF Init

\* Nobody's last connection moves back.
LEMMA Onwards ==
    ASSUME TypeOK, Past, [Next]_vars
    PROVE  /\ Past'
           /\ clock \in Int /\ clock' \in Int /\ clock <= clock'
           /\ \A p \in Peers : /\ LastConnected(p) \in Int /\ LastConnected(p)' \in Int
                               /\ LastConnected(p) <= LastConnected(p)'
<1>1. clock \in Int /\ \A p \in Peers : lastConn[p] \in Int /\ lastConn[p] <= clock
  BY DEF TypeOK, Past, Zero
<1>2. ASSUME UNCHANGED <<clock, connected, lastConn>>
      PROVE  /\ clock' = clock /\ Past'
             /\ \A p \in Peers : LastConnected(p)' = LastConnected(p)
  BY <1>2 DEF Past, LastConnected
<1>3. CASE UNCHANGED <<clock, connected, lastConn>>
  BY <1>1, <1>2, <1>3 DEF LastConnected
<1>4. CASE Stop
  <2>1. /\ clock' = clock /\ connected' = {}
        /\ \A p \in Peers : lastConn'[p] = LastConnected(p)
    BY <1>4 DEF Stop, LastConnected
  <2> QED
    BY <1>1, <2>1 DEF Past, LastConnected
<1>5. ASSUME NEW p \in Peers, Disconnect(p)
      PROVE  /\ clock' = clock /\ Past'
             /\ \A q \in Peers : lastConn'[q] \in Int /\ lastConn[q] <= lastConn'[q]
             /\ \A q \in Peers : LastConnected(q)' = LastConnected(q)
  BY <1>1, <1>5 DEF Disconnect, TypeOK, Past, LastConnected
<1>6. ASSUME NEW p \in Peers, NEW s \in Savers, Connect(p, s)
      PROVE  /\ clock' = clock /\ lastConn' = lastConn
             /\ connected' = connected \cup {p}
  BY <1>6 DEF Connect
<1>7. CASE Tick
  <2>1. clock' = clock + 1 /\ connected' = connected /\ lastConn' = lastConn
    BY <1>7 DEF Tick, network
  <2> QED
    BY <1>1, <2>1 DEF Past, LastConnected
<1>8. ASSUME NEW s \in Savers, Save(s)
      PROVE  UNCHANGED <<clock, connected, lastConn>>
  BY <1>8 DEF Save, Collect, Stamp, OpenFile, WriteFile, Leaves, Filter, network
<1>9. ASSUME NEW p \in Peers, EnterTopic(p) \/ LeaveTopic(p)
      PROVE  UNCHANGED <<clock, connected, lastConn>>
  BY <1>9 DEF EnterTopic, LeaveTopic
<1>10. Start \/ UNCHANGED vars => UNCHANGED <<clock, connected, lastConn>>
  BY DEF Start, vars, network
<1>11. ASSUME NEW p \in Peers, Disconnect(p)
       PROVE  /\ Past' /\ clock \in Int /\ clock' \in Int /\ clock <= clock'
              /\ \A q \in Peers : /\ LastConnected(q) \in Int /\ LastConnected(q)' \in Int
                                  /\ LastConnected(q) <= LastConnected(q)'
  BY <1>1, <1>5, <1>11 DEF LastConnected
<1>12. ASSUME NEW p \in Peers, NEW s \in Savers, Connect(p, s)
       PROVE  /\ Past' /\ clock \in Int /\ clock' \in Int /\ clock <= clock'
              /\ \A q \in Peers : /\ LastConnected(q) \in Int /\ LastConnected(q)' \in Int
                                  /\ LastConnected(q) <= LastConnected(q)'
  BY <1>1, <1>6, <1>12 DEF Past, LastConnected
<1> QED
  BY <1>3, <1>4, <1>7, <1>8, <1>9, <1>10, <1>11, <1>12 DEF Next

LEMMA NoWriteKeeps ==
    ASSUME Inductive, [Next]_vars, NoWrite
    PROVE  /\ Stamped' /\ Alone' /\ LastSeenTruthful'
           /\ NeverWiped' /\ LoneSaveRepairs'
<1>1. TypeOK /\ Past /\ Stamped
  BY DEF Inductive
<1>2. /\ clock \in Int /\ clock' \in Int /\ clock <= clock'
      /\ \A p \in Peers : /\ LastConnected(p) \in Int /\ LastConnected(p)' \in Int
                          /\ LastConnected(p) <= LastConnected(p)'
  BY <1>1, Onwards
<1>3. \A s \in Savers : now[s] \in Int /\ \A e \in out[s] : e.id \in Peers
  BY <1>1, EntryFields DEF TypeOK, Zero
<1>4. Stamped'
  <2> SUFFICES ASSUME NEW s \in Savers
               PROVE  /\ now'[s] <= clock'
                      /\ pc'[s] \in {"idle", "notified", "stamp"} => out'[s] = {}
                      /\ pc'[s] = "write" => out'[s] # {}
                      /\ \A e \in out'[s] : e.seen = now'[s] /\ now'[s] <= LastConnected(e.id)'
    BY DEF Stamped
  <2>1. now'[s] = now[s] /\ out'[s] = out[s]
    BY DEF NoWrite
  <2>2. now'[s] <= clock'
    BY <1>1, <1>2, <1>3, <2>1 DEF Stamped
  <2>3. /\ pc'[s] \in {"idle", "notified", "stamp"} => out'[s] = {}
        /\ pc'[s] = "write" => out'[s] # {}
    BY <1>1, <2>1 DEF Stamped, NoWrite
  <2>4. \A e \in out[s] : e.seen = now[s] /\ now[s] <= LastConnected(e.id)'
    BY <1>1, <1>2, <1>3 DEF Stamped
  <2> QED
    BY <2>1, <2>2, <2>3, <2>4
<1>5. LastSeenTruthful'
  <2>1. \A e \in file.entries : e.id \in Peers /\ e.seen \in Int
    BY <1>1, EntryFields DEF TypeOK, Zero
  <2>2. \A e \in file.entries : e.seen <= LastConnected(e.id)'
    BY <1>2, <2>1 DEF Inductive, LastSeenTruthful
  <2> QED
    BY <2>2 DEF NoWrite, LastSeenTruthful
<1>6. Alone' /\ NeverWiped' /\ LoneSaveRepairs'
  BY DEF NoWrite, Inductive, Alone, Writing, NeverWiped, LoneSaveRepairs
<1> QED
  BY <1>4, <1>5, <1>6

-----------------------------------------------------------------------------
(* Types.                                                                  *)

\* A saver's list names no peer twice.
LEMMA OutDistinct ==
    ASSUME TypeOK, Stamped, NEW s \in Savers
    PROVE  \A e, f \in out[s] : e.id = f.id => e = f
BY EntryFields DEF TypeOK, Stamped

FileTyped ==
    /\ file.kind \in {"missing", "broken", "json"}
    /\ file.entries \subseteq Entries /\ file.len \in Nat
    /\ \A e, f \in file.entries : e.id = f.id => e = f

\* What a write leaves is a file, whether it covers the text that was there,
\* leaves the tail of it, or fails.
LEMMA WrittenTyped ==
    ASSUME TypeOK, NEW E \in SUBSET Entries, \A e, f \in E : e.id = f.id => e = f,
           \/ file' = Written(E)
           \/ \E n \in 0..Size[E] - 1 : file' = PartWritten(n)
    PROVE  FileTyped'
<1>1. Size[E] \in Nat /\ file.len \in Nat /\ FileTyped
  BY SizeTyped DEF TypeOK, FileTyped
<1>2. \/ file' = Json(E) \/ file' = Broken(file.len) \/ file' = file
      \/ \E n \in Nat : file' = Broken(n)
  BY <1>1 DEF Written, PartWritten
<1> QED
  BY <1>1, <1>2 DEF Json, Broken, FileTyped

LEMMA TypedStep ==
    ASSUME TypeOK, Stamped, [Next]_vars
    PROVE  TypeOK'
<1>1. CASE Start
  <2>1. dialled' \subseteq Peers
    BY <1>1, EntryFields DEF Start, TypeOK, loadPeerCache, evictStalePeers
  <2> QED
    BY <1>1, <2>1 DEF Start, TypeOK, network, savers, history
<1>2. CASE Stop
  <2>1. lastConn' \in [Peers -> Zero..MaxClock]
    BY <1>2 DEF Stop, TypeOK, Zero
  <2>2. now' \in [Savers -> Zero..MaxClock] /\ cut' \in BOOLEAN
    BY <1>2, TTLIsInt DEF Stop, TypeOK, Zero
  <2> QED
    BY <1>2, <2>1, <2>2 DEF Stop, TypeOK
<1>3. CASE Tick
  <2>1. clock' \in 1..MaxClock
    BY <1>3, TTLIsInt DEF Tick, TypeOK
  <2> QED
    BY <1>3, <2>1 DEF Tick, TypeOK, network, savers, history
<1>4. ASSUME NEW p \in Peers, NEW s \in Savers, Connect(p, s)
      PROVE  TypeOK'
  BY <1>4 DEF Connect, TypeOK, Goto, history
<1>5. ASSUME NEW p \in Peers, Disconnect(p)
      PROVE  TypeOK'
  <2>1. lastConn' \in [Peers -> Zero..MaxClock]
    BY <1>5 DEF Disconnect, TypeOK, Zero
  <2> QED
    BY <1>5, <2>1 DEF Disconnect, TypeOK, savers, history
<1>6. ASSUME NEW p \in Peers, EnterTopic(p) \/ LeaveTopic(p)
      PROVE  TypeOK'
  BY <1>6 DEF EnterTopic, LeaveTopic, TypeOK, savers, history
<1>7. ASSUME NEW s \in Savers, Collect(s)
      PROVE  TypeOK'
  BY <1>7 DEF Collect, TypeOK, Goto, network, history
<1>8. ASSUME NEW s \in Savers, Stamp(s)
      PROVE  TypeOK'
  <2>1. now' \in [Savers -> Zero..MaxClock]
    BY <1>8 DEF Stamp, TypeOK, Zero
  <2> QED
    BY <1>8, <2>1 DEF Stamp, TypeOK, Goto, network, history
<1>9. ASSUME NEW s \in Savers, NEW p \in Peers, Filter(s, p)
      PROVE  TypeOK'
  <2>1. Entry(p, now[s]) \in Entries
    BY EntryFields DEF TypeOK
  <2>2. out' \in [Savers -> SUBSET Entries]
    BY <1>9, <2>1 DEF Filter, TypeOK, LastSeenOf
  <2>3. todo' \in [Savers -> SUBSET Peers]
    BY <1>9 DEF Filter, TypeOK
  <2> QED
    BY <1>9, <2>2, <2>3 DEF Filter, TypeOK, Goto, network, history
<1>10. ASSUME NEW s \in Savers, OpenFile(s)
       PROVE  TypeOK'
  <2>1. now' \in [Savers -> Zero..MaxClock] /\ out' \in [Savers -> SUBSET Entries]
    BY <1>10, TTLIsInt DEF OpenFile, Leaves, TypeOK, Zero
  <2>2. /\ file'.kind \in {"missing", "broken", "json"}
        /\ file'.entries \subseteq Entries /\ file'.len \in Nat
        /\ \A e, f \in file'.entries : e.id = f.id => e = f
    BY <1>10 DEF OpenFile, Leaves, TypeOK, Truncated, Broken
  <2>3. overlapped' \in BOOLEAN /\ cut' \in BOOLEAN
    BY <1>10 DEF OpenFile, OthersWrite, TypeOK, history
  <2>4. pc' \in [Savers -> {"idle", "notified", "stamp", "filter", "write"}]
    BY <1>10 DEF OpenFile, Leaves, Goto, TypeOK
  <2> QED
    BY <1>10, <2>1, <2>2, <2>3, <2>4 DEF OpenFile, TypeOK, network
<1>11. ASSUME NEW s \in Savers, WriteFile(s)
       PROVE  TypeOK'
  <2>1. now' \in [Savers -> Zero..MaxClock] /\ out' \in [Savers -> SUBSET Entries]
    BY <1>11, TTLIsInt DEF WriteFile, Leaves, TypeOK, Zero
  <2>2. out[s] \in SUBSET Entries /\ \A e, f \in out[s] : e.id = f.id => e = f
    BY OutDistinct DEF TypeOK
  <2>3. \/ file' = Written(out[s])
        \/ \E n \in 0..Size[out[s]] - 1 : file' = PartWritten(n)
    BY <1>11 DEF WriteFile
  <2>4. FileTyped'
    BY <2>2, <2>3, WrittenTyped
  <2>5. cut' \in BOOLEAN
    BY <1>11 DEF WriteFile, TypeOK
  <2> QED
    BY <1>11, <2>1, <2>4, <2>5 DEF WriteFile, Leaves, FileTyped, TypeOK, Goto, network
<1>12. CASE UNCHANGED vars
  BY <1>12 DEF TypeOK, vars, network, savers, history
<1> QED
  BY <1>1, <1>2, <1>3, <1>4, <1>5, <1>6, <1>7, <1>8, <1>9, <1>10, <1>11, <1>12 DEF Next, Save

-----------------------------------------------------------------------------
(* The steps that touch a saver's entries or the file.                     *)

Rest ==
    /\ Stamped /\ Alone /\ LastSeenTruthful /\ NeverWiped /\ LoneSaveRepairs

LEMMA StopStep ==
    ASSUME Inductive, Stop
    PROVE  Rest'
<1>1. /\ \A s \in Savers : pc'[s] = "idle" /\ now'[s] = 0 /\ out'[s] = {}
      /\ file' = file /\ clock' = clock /\ overlapped' = overlapped
      /\ cut' = (cut \/ \E s \in Savers : pc[s] = "write")
  BY DEF Stop, Zero
<1>2. clock \in 1..MaxClock
  BY DEF Inductive, TypeOK
<1>3. Stamped'
  BY <1>1, <1>2 DEF Stamped
<1>4. Alone'
  BY <1>1 DEF Alone, Writing
<1>5. \A p \in Peers : LastConnected(p)' = LastConnected(p)
  BY DEF Stop, LastConnected
<1>6. LastSeenTruthful'
  <2>1. \A e \in file.entries : e.id \in Peers
    BY EntryFields DEF Inductive, TypeOK
  <2> QED
    BY <1>1, <1>5, <2>1 DEF Inductive, LastSeenTruthful
<1>7. NeverWiped' /\ LoneSaveRepairs'
  BY <1>1 DEF Inductive, NeverWiped, LoneSaveRepairs
<1> QED
  BY <1>3, <1>4, <1>6, <1>7 DEF Rest

\* The entries that a saver holds in a step of another one stay as they are.
LEMMA OthersStamped ==
    ASSUME Inductive, NEW s \in Savers, UNCHANGED <<clock, connected, lastConn>>,
           \A r \in Savers \ {s} : pc'[r] = pc[r] /\ now'[r] = now[r] /\ out'[r] = out[r],
           now'[s] <= clock,
           pc'[s] \in {"idle", "notified", "stamp"} => out'[s] = {},
           pc'[s] = "write" => out'[s] # {},
           \A e \in out'[s] : e.seen = now'[s] /\ now'[s] <= LastConnected(e.id)
    PROVE  Stamped'
<1>1. \A x : LastConnected(x)' = LastConnected(x)
  BY DEF LastConnected
<1>2. clock' = clock
  OBVIOUS
<1>3. Stamped
  BY DEF Inductive
<1> QED
  BY <1>1, <1>2, <1>3 DEF Stamped

LEMMA StampStep ==
    ASSUME Inductive, NEW s \in Savers, Stamp(s)
    PROVE  Rest'
<1>1. /\ clock' = clock /\ connected' = connected /\ lastConn' = lastConn /\ file' = file
      /\ out' = out /\ overlapped' = overlapped /\ cut' = cut
      /\ pc[s] = "stamp" /\ pc'[s] = "filter" /\ now'[s] = clock
      /\ \A r \in Savers \ {s} : pc'[r] = pc[r] /\ now'[r] = now[r]
  BY DEF Stamp, Goto, network, history, Inductive, TypeOK
<1>2. out[s] = {} /\ clock \in Int
  BY <1>1 DEF Inductive, Stamped, TypeOK
<1>3. Stamped'
  BY <1>1, <1>2, OthersStamped
<1>4. Alone' /\ NeverWiped' /\ LoneSaveRepairs'
  BY <1>1 DEF Inductive, Alone, Writing, NeverWiped, LoneSaveRepairs
<1>5. LastSeenTruthful'
  BY <1>1 DEF Inductive, LastSeenTruthful, LastConnected
<1> QED
  BY <1>3, <1>4, <1>5 DEF Rest

\* The connection is read after the time: it is open at that time or later.
LEMMA FilterStep ==
    ASSUME Inductive, NEW s \in Savers, NEW p \in Peers, Filter(s, p)
    PROVE  Rest'
<1>1. /\ clock' = clock /\ connected' = connected /\ lastConn' = lastConn /\ file' = file
      /\ now' = now /\ overlapped' = overlapped /\ cut' = cut
      /\ pc' = pc /\ pc[s] = "filter"
  BY DEF Filter, Goto, network, history, Inductive, TypeOK
<1>2. \A r \in Savers \ {s} : out'[r] = out[r]
  BY DEF Filter, Inductive, TypeOK
<1>3. \A e \in out'[s] : e.seen = now[s] /\ now[s] <= LastConnected(e.id)
  <2>1. \A e \in out[s] : e.seen = now[s] /\ now[s] <= LastConnected(e.id)
    BY DEF Inductive, Stamped
  <2>2. CASE p \in connected
    <3>1. out'[s] = out[s] \cup {Entry(p, now[s])}
      BY <2>2 DEF Filter, HasConns, LastSeenOf, Inductive, TypeOK
    <3>2. now[s] <= LastConnected(p)
      BY <2>2 DEF Inductive, Stamped, LastConnected
    <3> QED
      BY <2>1, <3>1, <3>2, EntryFields
  <2>3. CASE p \notin connected
    BY <2>1, <2>3 DEF Filter, HasConns
  <2> QED
    BY <2>2, <2>3
<1>4. now[s] <= clock
  BY DEF Inductive, Stamped
<1>5. Stamped'
  BY <1>1, <1>2, <1>3, <1>4, OthersStamped
<1>6. Alone' /\ NeverWiped' /\ LoneSaveRepairs'
  BY <1>1 DEF Inductive, Alone, Writing, NeverWiped, LoneSaveRepairs
<1>7. LastSeenTruthful'
  BY <1>1 DEF Inductive, LastSeenTruthful, LastConnected
<1> QED
  BY <1>5, <1>6, <1>7 DEF Rest

\* The truncation empties the file, for the only writer unless writes overlap.
LEMMA OpenStep ==
    ASSUME Inductive, NEW s \in Savers, OpenFile(s)
    PROVE  Rest'
<1>1. /\ clock' = clock /\ connected' = connected /\ lastConn' = lastConn
      /\ now[s] <= clock /\ clock \in 1..MaxClock
      /\ \A e \in out[s] : e.seen = now[s] /\ now[s] <= LastConnected(e.id)
  BY DEF OpenFile, network, Inductive, Stamped, TypeOK
<1>2. CASE /\ WorthSaving(s) /\ Goto(s, "filter", "write") /\ file' = Truncated
           /\ overlapped' = OthersWrite(s) /\ UNCHANGED <<now, out>>
  <2>1. /\ pc'[s] = "write" /\ \A r \in Savers \ {s} : pc'[r] = pc[r]
        /\ file' = Broken(0) /\ now' = now /\ out' = out /\ out[s] # {}
        /\ overlapped' = \E r \in Savers \ {s} : pc[r] = "write"
    BY <1>2 DEF Goto, WorthSaving, Truncated, OthersWrite, Inductive, TypeOK
  <2>2. file'.kind = "broken" /\ file'.entries = {} /\ file'.len = 0
    BY <2>1 DEF Broken
  <2>3. Stamped'
    BY <1>1, <2>1, OthersStamped
  <2>4. Alone'
    BY <2>1, <2>2 DEF Alone, Writing
  <2>5. LastSeenTruthful' /\ NeverWiped' /\ LoneSaveRepairs'
    BY <2>1, <2>2 DEF LastSeenTruthful, NeverWiped, LoneSaveRepairs
  <2> QED
    BY <2>3, <2>4, <2>5 DEF Rest
<1>3. CASE Leaves(s, "filter") /\ UNCHANGED <<file, history>>
  <2>1. /\ pc[s] = "filter" /\ pc'[s] = "idle" /\ \A r \in Savers \ {s} : pc'[r] = pc[r]
        /\ file' = file /\ overlapped' = overlapped /\ cut' = cut
        /\ now'[s] = 0 /\ out'[s] = {}
        /\ \A r \in Savers \ {s} : now'[r] = now[r] /\ out'[r] = out[r]
    BY <1>3 DEF Leaves, Goto, history, Inductive, TypeOK, Zero
  <2>2. Stamped'
    BY <1>1, <2>1, OthersStamped
  <2>3. Alone' /\ NeverWiped' /\ LoneSaveRepairs'
    BY <1>1, <2>1 DEF Inductive, Alone, Writing, NeverWiped, LoneSaveRepairs
  <2>4. LastSeenTruthful'
    BY <1>1, <2>1 DEF Inductive, LastSeenTruthful, LastConnected
  <2> QED
    BY <2>2, <2>3, <2>4 DEF Rest
<1> QED
  BY <1>2, <1>3 DEF OpenFile

\* A single writer finds the file empty, and covers it unless its write fails.
LEMMA WriteStep ==
    ASSUME Inductive, NEW s \in Savers, WriteFile(s)
    PROVE  Rest'
<1>1. /\ clock' = clock /\ connected' = connected /\ lastConn' = lastConn
      /\ overlapped' = overlapped
      /\ pc[s] = "write" /\ pc'[s] = "idle" /\ now'[s] = 0 /\ out'[s] = {}
      /\ \A r \in Savers \ {s} : pc'[r] = pc[r] /\ now'[r] = now[r] /\ out'[r] = out[r]
      /\ clock \in 1..MaxClock
  BY DEF WriteFile, Leaves, Goto, network, Inductive, TypeOK, Zero
<1>2. Stamped'
  BY <1>1, OthersStamped
<1>3. /\ out[s] # {} /\ out[s] \in SUBSET Entries
      /\ \A e \in out[s] : e.seen <= LastConnected(e.id)
  BY <1>1 DEF Inductive, Stamped, TypeOK
<1>4. Size[out[s]] \in Nat
  BY <1>3, SizeTyped
<1>5. \/ file' = Json(out[s]) /\ cut' = cut
      \/ (\E n : file' = Broken(n)) /\ (cut' \/ file.len # 0)
      \/ file' = file /\ cut'
  <2>1. CASE file' = Written(out[s]) /\ cut' = cut
    BY <1>4, <2>1 DEF Written, Inductive, TypeOK
  <2>2. ASSUME NEW n \in 0..Size[out[s]] - 1, file' = PartWritten(n), cut'
        PROVE  file' = file \/ \E m : file' = Broken(m)
    BY <2>2 DEF PartWritten
  <2> QED
    BY <2>1, <2>2 DEF WriteFile
<1>6. LastSeenTruthful'
  <2>1. \A x : LastConnected(x)' = LastConnected(x)
    BY <1>1 DEF LastConnected
  <2>2. \/ file'.entries = out[s] \/ file'.entries = {} \/ file' = file
    BY <1>5 DEF Json, Broken
  <2> QED
    BY <1>3, <2>1, <2>2 DEF Inductive, LastSeenTruthful
<1>7. NeverWiped'
  BY <1>3, <1>5 DEF Inductive, NeverWiped, Json, Broken
<1>8. ~overlapped => file.len = 0
  BY <1>1 DEF Inductive, Alone, Writing
<1>9. LoneSaveRepairs'
  BY <1>1, <1>5, <1>8 DEF LoneSaveRepairs, Json
<1>10. Alone'
  BY <1>1 DEF Inductive, Alone, Writing
<1> QED
  BY <1>2, <1>6, <1>7, <1>9, <1>10 DEF Rest

LEMMA InductiveStep == Inductive /\ [Next]_vars => Inductive'
<1> SUFFICES ASSUME Inductive, [Next]_vars
             PROVE  Inductive'
  OBVIOUS
<1>1. TypeOK /\ Past /\ Stamped
  BY DEF Inductive
<1>2. TypeOK' /\ Past'
  BY <1>1, TypedStep, Onwards
<1>3. NoWrite => Rest'
  BY NoWriteKeeps DEF Rest
<1>4. ASSUME NEW s \in Savers, NEW p \in Peers, Connect(p, s)
      PROVE  NoWrite
  BY <1>1, <1>4 DEF NoWrite, Connect, Goto, TypeOK, history
<1>5. ASSUME NEW s \in Savers, Collect(s)
      PROVE  NoWrite
  BY <1>1, <1>5 DEF NoWrite, Collect, Goto, TypeOK, history
<1>6. ASSUME NEW p \in Peers, Disconnect(p) \/ EnterTopic(p) \/ LeaveTopic(p)
      PROVE  NoWrite
  BY <1>6 DEF NoWrite, Disconnect, EnterTopic, LeaveTopic, savers, history
<1>7. Start \/ Tick \/ UNCHANGED vars => NoWrite
  BY DEF NoWrite, Start, Tick, vars, savers, history
<1>8. Rest'
  BY <1>3, <1>4, <1>5, <1>6, <1>7, StopStep, StampStep, FilterStep, OpenStep, WriteStep
     DEF Next, Save
<1> QED
  BY <1>2, <1>8 DEF Inductive, Rest

LEMMA AlwaysInductive == Spec => []Inductive
BY InitInductive, InductiveStep, PTL DEF Spec

-----------------------------------------------------------------------------
\* The types of the cache, and no peer listed twice in the file: a saver walks
\* a set of peers and stamps all of them with one time.
THEOREM TypeCorrect == Spec => []TypeOK
<1>1. Inductive => TypeOK
  BY DEF Inductive
<1> QED
  BY <1>1, AlwaysInductive, PTL

\* A last_seen in the file is never later than the peer's last connection,
\* whatever pubsub's list of the topic's peers said (client.savePeerCache).
THEOREM SeenCorrect == Spec => []LastSeenTruthful
<1>1. Inductive => LastSeenTruthful
  BY DEF Inductive
<1> QED
  BY <1>1, AlwaysInductive, PTL

\* A file that parses has a peer to dial (savePeerCache's early return).
THEOREM KeptCorrect == Spec => []NeverWiped
<1>1. Inductive => NeverWiped
  BY DEF Inductive
<1> QED
  BY <1>1, AlwaysInductive, PTL

\* A save that opens the file while no other is writing, and ends without an
\* error or another save on top of it, leaves a file that parses, whatever it
\* found (os.WriteFile).
THEOREM RepairCorrect == Spec => []LoneSaveRepairs
<1>1. Inductive => LoneSaveRepairs
  BY DEF Inductive
<1> QED
  BY <1>1, AlwaysInductive, PTL

-----------------------------------------------------------------------------
(* The restart.                                                            *)

LEMMA StartDialsRecent ==
    ASSUME Inductive, Start, NEW p \in dialled'
    PROVE  \/ TTL < 0 \/ Entry(p, Zero) \in file.entries
           \/ LastConnected(p) > clock - TTL
<1>1. PICK e \in evictStalePeers(file.entries) : e.id = p
  BY DEF Start, loadPeerCache
<1>2. e \in file.entries /\ (TTL < 0 \/ Fresh(e))
  BY <1>1, TTLIsInt DEF evictStalePeers
<1>3. e \in Entries /\ p \in Peers /\ e.seen \in Int /\ clock \in Int /\ TTL \in Int
  BY <1>1, <1>2, EntryFields, TTLIsInt DEF Inductive, TypeOK, Zero
<1>4. e.seen <= LastConnected(p) /\ LastConnected(p) \in Int
  BY <1>1, <1>2, <1>3 DEF Inductive, LastSeenTruthful, LastConnected, TypeOK, Zero
<1>5. CASE e.seen = Zero
  <2>1. Zero \in Zero..MaxClock
    BY TTLIsInt DEF Zero
  <2>2. e = Entry(p, Zero)
    BY <1>1, <1>3, <1>5, <2>1, EntryFields
  <2> QED
    BY <1>2, <2>2
<1>6. CASE e.seen > clock - TTL
  BY <1>3, <1>4, <1>6
<1> QED
  BY <1>2, <1>5, <1>6 DEF Fresh

\* A restart dials from the cache only peers that were connected within the
\* TTL (evictStalePeers, loadAndConnectCachedPeers).
THEOREM DialsCorrect == Spec => DialsRecentPeers
<1>1. ASSUME Inductive, [Next]_vars
      PROVE  [ \A p \in dialled' \ dialled :
                   \/ TTL < 0 \/ Entry(p, Zero) \in file.entries
                   \/ LastConnected(p) > clock - TTL ]_vars
  <2>1. CASE Start
    BY <1>1, <2>1, StartDialsRecent
  <2>2. CASE Stop
    BY <2>2 DEF Stop
  <2>3. ASSUME NEW s \in Savers, Save(s) \/ \E p \in Peers : Connect(p, s)
        PROVE  dialled' = dialled
    BY <2>3 DEF Save, Collect, Stamp, OpenFile, WriteFile, Leaves, Filter, Connect
  <2>4. ASSUME NEW p \in Peers, Disconnect(p) \/ EnterTopic(p) \/ LeaveTopic(p)
        PROVE  dialled' = dialled
    BY <2>4 DEF Disconnect, EnterTopic, LeaveTopic
  <2>5. Tick => dialled' = dialled
    BY DEF Tick
  <2> QED
    BY <1>1, <2>1, <2>2, <2>3, <2>4, <2>5 DEF Next
<1> QED
  BY <1>1, AlwaysInductive, PTL DEF Spec, DialsRecentPeers
=============================================================================
