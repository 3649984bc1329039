------------------------ MODULE SessionSurvival_proofs ------------------------
(***************************************************************************)
(* Accepted input and executed work survive in SessionRuns: the invariant   *)
(* of SessionSurvival is inductive, for any number of runs, sessions,       *)
(* cancels, crashes, failing writes and slash commands.                     *)
(*                                                                          *)
(* A step of run r is looked at in three parts: what it does to r itself    *)
(* (Entry, Held), to the session of r (SessionKept), and, in DriverFrame,   *)
(* why it leaves the other runs and sessions what they had.  That messages  *)
(* to other sessions arrive (ArrivalInv) comes after it, on top of it.      *)
(***************************************************************************)
EXTENDS SessionRuns_proofs

KeepInv == EntryInv /\ SoleHolderInv /\ CommandInv /\ SessionInv /\ HeldInv

------------------------------------------------------------------------------
(* What is owed *)

LEMMA CallRun ==
  ASSUME NEW c \in CallIds
  PROVE  c[1] \in Runs
BY DEF CallIds

(* Nothing is owed by a step but for a run that got ready, a command that   *)
(* was recorded and what was executed by a run that is delivered now.       *)
LEMMA OwedStep ==
  ASSUME NEW s, NEW X,
         \A r \in ready' \ ready : SessionOf[r] = s => User(r) \in X,
         \A x \in recorded' \ recorded : x[1] = s => CommandInput(x[2]) \in X,
         \A c \in executed' : SessionOf[c[1]] = s /\ Delivered(c[1])' =>
           (c \in executed /\ Delivered(c[1])) \/ ToolResult(c) \in X,
         \A m \in arrived' \ arrived : m.to = s => m \in X
  PROVE  Owed(s)' \subseteq Owed(s) \cup X
<1>1. ASSUME NEW r \in ready', SessionOf[r] = s
      PROVE  User(r) \in Owed(s) \cup X
  BY <1>1 DEF Owed
<1>2. ASSUME NEW x \in recorded', x[1] = s
      PROVE  CommandInput(x[2]) \in Owed(s) \cup X
  BY <1>2 DEF Owed
<1>3. ASSUME NEW c \in executed', SessionOf[c[1]] = s, Delivered(c[1])'
      PROVE  ToolResult(c) \in Owed(s) \cup X
  BY <1>3 DEF Owed
<1>4. ASSUME NEW m \in arrived', m.to = s
      PROVE  m \in Owed(s) \cup X
  BY <1>4 DEF Owed
<1>5. QED
  BY <1>1, <1>2, <1>3, <1>4 DEF Owed

(* A message arrives in a session that no run holds, or taints it. *)
Arrivals ==
  \A m \in arrived' \ arrived :
    m.to \in tainted' \/ (m \in ToSet(store'[m.to]) /\ Holders(m.to) = {})

------------------------------------------------------------------------------
(* What a step leaves alone *)

(* A run that did not move keeps what it holds, if nothing more is owed to  *)
(* its session and no history of the session was replayed.                  *)
LEMMA RunFrame ==
  ASSUME NEW q \in Runs, Held(q),
         pc'[q] = pc[q], loop'[q] = loop[q], cached'[q] = cached[q],
         snapshot'[q] = snapshot[q], outcome'[q] = outcome[q], history'[q] = history[q],
         archive[SessionOf[q]] \subseteq archive'[SessionOf[q]],
         Own(q)' \subseteq Own(q),
         Live(q) /\ SessionOf[q] \notin tainted' =>
           /\ SessionOf[q] \notin tainted
           /\ Owed(SessionOf[q])' \subseteq Owed(SessionOf[q])
           /\ \A p \in Runs : SessionOf[p] = SessionOf[q] /\ history'[p] = <<>> => history[p] = <<>>
  PROVE  Held(q)'
<1> PICK s : s = SessionOf[q]
  OBVIOUS
<1>1. ReplayKeeps(q)'
  <2>1. ASSUME pc'[q] = "replay"
        PROVE  /\ loop'[q].log \o loop'[q].todo = Append(history'[q], User(q))
               /\ CalmBut(s, q)' => Owed(s)' \subseteq ToSet(history'[q]) \cup archive'[s]
    <3>1. Live(q)
      BY <2>1 DEF Live, LivePhases, InnerPhases
    <3>2. CalmBut(s, q)' => CalmBut(s, q) /\ Owed(s)' \subseteq Owed(s)
      BY <3>1 DEF CalmBut
    <3>3. /\ loop[q].log \o loop[q].todo = Append(history[q], User(q))
          /\ CalmBut(s, q) => Owed(s) \subseteq ToSet(history[q]) \cup archive[s]
      BY <2>1 DEF Held, ReplayKeeps
    <3>4. QED
      BY <3>2, <3>3
  <2>2. QED
    BY <2>1 DEF ReplayKeeps
<1>2. CacheKeeps(q)'
  <2>1. ASSUME Live(q)', Calm(s)'
        PROVE  /\ Owed(s)' \subseteq ToSet(safe_prefix(cached'[q])) \cup archive'[s]
               /\ Owed(s)' \subseteq ToSet(snapshot'[q]) \cup archive'[s]
               /\ pc'[q] \in TurnPhases => Owed(s)' \subseteq ToSet(safe_prefix(loop'[q].log)) \cup archive'[s]
    <3>1. Live(q)
      BY <2>1 DEF Live
    <3>2. Calm(s) /\ Owed(s)' \subseteq Owed(s)
      BY <2>1, <3>1 DEF Calm
    <3>3. /\ Owed(s) \subseteq ToSet(safe_prefix(cached[q])) \cup archive[s]
          /\ Owed(s) \subseteq ToSet(snapshot[q]) \cup archive[s]
          /\ pc[q] \in TurnPhases => Owed(s) \subseteq ToSet(safe_prefix(loop[q].log)) \cup archive[s]
      BY <3>1, <3>2 DEF Held, CacheKeeps
    <3>4. QED
      BY <3>2, <3>3
  <2>2. QED
    BY <2>1 DEF CacheKeeps
<1>3. ResultsKept(q)'
  BY DEF Held, ResultsKept
<1>4. QED
  BY <1>1, <1>2, <1>3 DEF Held

(* A session that was not touched keeps what it owes. *)
LEMMA SessionFrame ==
  ASSUME NEW s, SessionKept(s),
         archive[s] \subseteq archive'[s],
         s \notin tainted' =>
           /\ s \notin tainted
           /\ ToSet(store[s]) \subseteq ToSet(store'[s])
           /\ Owed(s)' \subseteq Owed(s) \cup ToSet(store'[s])
           /\ \A p \in Runs : SessionOf[p] = s /\ history'[p] = <<>> => history[p] = <<>>
  PROVE  SessionKept(s)'
<1>1. ASSUME Calm(s)'
      PROVE  Owed(s)' \subseteq Kept(s)'
  <2>1. Calm(s) /\ Owed(s)' \subseteq Owed(s) \cup ToSet(store'[s])
    BY <1>1 DEF Calm
  <2>2. Kept(s) \cup ToSet(store'[s]) \subseteq Kept(s)'
    BY <1>1 DEF Kept, Calm
  <2>3. QED
    BY <2>1, <2>2 DEF SessionKept
<1>2. QED
  BY <1>1 DEF SessionKept

LEMMA EntryFrame ==
  ASSUME NEW q \in Runs, Entry(q),
         pc'[q] = pc[q], loop'[q] = loop[q], outcome'[q] = outcome[q], history'[q] = history[q],
         q \in opened' <=> q \in opened, q \in ready' <=> q \in ready,
         tainted \subseteq tainted',
         \A c \in executed' \ executed : c[1] # q
  PROVE  Entry(q)'
BY DEF Entry

LEMMA HolderFrame ==
  ASSUME SoleHolderInv, tainted \subseteq tainted',
         \A q \in Runs : q \in opened' /\ Live(q)' => q \in opened /\ Live(q),
         opened' \subseteq Runs
  PROVE  SoleHolderInv'
<1>1. \A s : Holders(s)' \subseteq Holders(s)
  BY DEF Holders
<1>2. QED
  BY <1>1 DEF SoleHolderInv

LEMMA CommandFrame ==
  ASSUME CommandInv,
         \A s \in Sessions : archive[s] \subseteq archive'[s],
         \A s \in Sessions : command'[s].at = "compact" => command'[s] = command[s]
  PROVE  CommandInv'
BY DEF CommandInv

(* A step of run r, told apart from what it does to r: every other run has  *)
(* the same locals and hook entry, and if more is owed to the session of r, *)
(* or its history was replayed, r holds the session or it is tainted.       *)
LEMMA DriverFrame ==
  ASSUME LoopInv, KeepInv, SessionAssumption, NEW r \in Runs,
         \A q \in Runs \ {r} :
           /\ pc'[q] = pc[q] /\ loop'[q] = loop[q] /\ cached'[q] = cached[q]
           /\ snapshot'[q] = snapshot[q] /\ outcome'[q] = outcome[q] /\ history'[q] = history[q]
           /\ q \in opened' <=> q \in opened
           /\ q \in ready' <=> q \in ready,
         tainted \subseteq tainted',
         \A s \in Sessions : archive[s] \subseteq archive'[s],
         \A s \in Sessions \ {SessionOf[r]} : s \notin tainted' => ToSet(store[s]) \subseteq ToSet(store'[s]),
         \A c \in executed' \ executed : c[1] = r,
         executed' \subseteq CallIds, ready' \subseteq Runs, opened' \subseteq Runs,
         recorded' = recorded, command' = command, Arrivals,
         \/ /\ \A c \in executed' : c[1] = r /\ Delivered(r)' => c \in executed /\ Delivered(r)
            /\ r \in ready' => r \in ready
            /\ history'[r] = <<>> => history[r] = <<>>
         \/ Live(r) /\ r \in opened
         \/ SessionOf[r] \in tainted',
         r \in opened' /\ Live(r)' =>
           \/ r \in opened /\ Live(r)
           \/ Holders(SessionOf[r]) = {}
           \/ SessionOf[r] \in tainted',
         Entry(r)', r \in opened' => Held(r)', SessionKept(SessionOf[r])'
  PROVE  KeepInv'
<1> PICK home \in Sessions : home = SessionOf[r]
  BY DEF SessionAssumption
<1>1. ASSUME NEW q \in Runs, q # r
      PROVE  Delivered(q)' <=> Delivered(q)
  BY <1>1 DEF Delivered
(* What is owed to the other sessions was owed before, or is stored now. *)
<1>2. ASSUME NEW s \in Sessions, s # home, s \notin tainted'
      PROVE  /\ Owed(s)' \subseteq Owed(s) \cup ToSet(store'[s])
             /\ Holders(s) # {} => Owed(s)' \subseteq Owed(s)
             /\ \A p \in Runs : SessionOf[p] = s /\ history'[p] = <<>> => history[p] = <<>>
  <2>1. PICK new : new = {m \in arrived' \ arrived : m.to = s}
    OBVIOUS
  <2>2. /\ \A x \in ready' \ ready : SessionOf[x] = s => User(x) \in new
        /\ \A x \in recorded' \ recorded : x[1] = s => CommandInput(x[2]) \in new
        /\ \A m \in arrived' \ arrived : m.to = s => m \in new
    BY <1>2, <2>1
  <2>3. \A c \in executed' : SessionOf[c[1]] = s /\ Delivered(c[1])' =>
          (c \in executed /\ Delivered(c[1])) \/ ToolResult(c) \in new
    <3>1. ASSUME NEW c \in executed', SessionOf[c[1]] = s, Delivered(c[1])'
          PROVE  c \in executed /\ Delivered(c[1])
      <4>1. c[1] \in Runs
        BY CallRun
      <4>2. c[1] # r
        BY <1>2, <3>1
      <4>3. c \in executed
        BY <4>2
      <4>4. Delivered(c[1])
        BY <1>1, <3>1, <4>1, <4>2
      <4>5. QED
        BY <4>3, <4>4
    <3>2. QED
      BY <3>1
  <2>4. Owed(s)' \subseteq Owed(s) \cup new
    BY <2>2, <2>3, OwedStep
  <2>5. new \subseteq ToSet(store'[s]) /\ (Holders(s) # {} => new = {})
    <3>1. ASSUME NEW m \in new
          PROVE  m \in ToSet(store'[s]) /\ Holders(s) = {}
      <4>1. m \in arrived' \ arrived /\ m.to = s
        BY <2>1
      <4>2. m.to \in tainted' \/ (m \in ToSet(store'[m.to]) /\ Holders(m.to) = {})
        BY <4>1 DEF Arrivals
      <4>3. QED
        BY <1>2, <4>1, <4>2
    <3>2. QED
      BY <3>1
  <2>6. QED
    BY <1>2, <2>4, <2>5
(* So it is for the session of r if another run holds it. *)
<1>3. ASSUME NEW q \in Runs, q # r, q \in opened, Live(q), SessionOf[q] = home, home \notin tainted'
      PROVE  /\ Owed(home)' \subseteq Owed(home)
             /\ \A p \in Runs : SessionOf[p] = home /\ history'[p] = <<>> => history[p] = <<>>
  <2>1. ~(Live(r) /\ r \in opened)
    <3>1. home \in Sessions \ tainted /\ q \in Holders(home)
      BY <1>3 DEF Holders
    <3>2. Live(r) /\ r \in opened => r \in Holders(home)
      BY DEF Holders
    <3>3. QED
      BY <1>3, <3>1, <3>2 DEF KeepInv, SoleHolderInv
  <2>2. /\ \A c \in executed' : c[1] = r /\ Delivered(r)' => c \in executed /\ Delivered(r)
        /\ r \in ready' => r \in ready
        /\ history'[r] = <<>> => history[r] = <<>>
    BY <1>3, <2>1
  <2>3. \A x \in ready' \ ready : SessionOf[x] = home => User(x) \in {}
    BY <2>2
  <2>4. \A x \in recorded' \ recorded : x[1] = home => CommandInput(x[2]) \in {}
    OBVIOUS
  <2>5. \A c \in executed' : SessionOf[c[1]] = home /\ Delivered(c[1])' =>
          (c \in executed /\ Delivered(c[1])) \/ ToolResult(c) \in {}
    BY <1>1, <2>2, CallRun
  <2>6. \A m \in arrived' \ arrived : m.to = home => m \in {}
    <3>1. Holders(home) # {}
      BY <1>3 DEF Holders
    <3>2. QED
      BY <1>3, <3>1 DEF Arrivals
  <2>7. Owed(home)' \subseteq Owed(home) \cup {}
    BY <2>3, <2>4, <2>5, <2>6, OwedStep
  <2>8. QED
    BY <2>2, <2>7
<1>4. EntryInv'
  <2>1. ASSUME NEW q \in Runs, q # r
        PROVE  Entry(q)'
    <3>1. Entry(q) /\ \A c \in executed' \ executed : c[1] # q
      BY <2>1 DEF KeepInv, EntryInv
    <3>2. QED
      BY <2>1, <3>1, EntryFrame
  <2>2. QED
    BY <2>1 DEF EntryInv
<1>5. SoleHolderInv'
  <2>1. ASSUME NEW s \in Sessions, s \notin tainted', NEW p \in Holders(s)', NEW q \in Holders(s)'
        PROVE  p = q
    <3>1. /\ p \in Runs /\ p \in opened' /\ SessionOf[p] = s /\ Live(p)'
          /\ q \in Runs /\ q \in opened' /\ SessionOf[q] = s /\ Live(q)'
      BY <2>1 DEF Holders
    <3>2. \A x \in Runs \ {r} : x \in opened' /\ Live(x)' => x \in opened /\ Live(x)
      BY DEF Live
    <3>3. CASE p # r /\ q # r
      <4>1. p \in Holders(s) /\ q \in Holders(s) /\ s \in Sessions \ tainted
        BY <2>1, <3>1, <3>2, <3>3 DEF Holders
      <4>2. QED
        BY <4>1 DEF KeepInv, SoleHolderInv
    <3>4. ASSUME NEW x \in Runs, x # r, x \in opened', SessionOf[x] = s, Live(x)',
                 r \in opened', SessionOf[r] = s, Live(r)'
          PROVE  FALSE
      <4>1. x \in Holders(s)
        BY <3>2, <3>4 DEF Holders
      <4>2. r \in opened /\ Live(r)
        BY <2>1, <3>4, <4>1
      <4>3. r \in Holders(s)
        BY <3>4, <4>2 DEF Holders
      <4>4. s \in Sessions \ tainted
        BY <2>1
      <4>5. QED
        BY <3>4, <4>1, <4>3, <4>4 DEF KeepInv, SoleHolderInv
    <3>5. QED
      BY <3>1, <3>3, <3>4
  <2>2. QED
    BY <2>1 DEF SoleHolderInv
<1>6. CommandInv'
  BY CommandFrame DEF KeepInv
<1>7. SessionInv'
  <2>1. ASSUME NEW s \in Sessions, s # home
        PROVE  SessionKept(s)'
    <3>1. SessionKept(s)
      BY DEF KeepInv, SessionInv
    <3>2. QED
      BY <1>2, <2>1, <3>1, SessionFrame
  <2>2. QED
    BY <2>1 DEF SessionInv
<1>8. HeldInv'
  <2>1. ASSUME NEW q \in opened', q # r
        PROVE  Held(q)'
    <3>1. q \in Runs /\ q \in opened /\ Held(q) /\ SessionOf[q] \in Sessions
      BY <2>1 DEF KeepInv, HeldInv, SessionAssumption
    <3>2. Own(q)' \subseteq Own(q)
      BY <2>1 DEF Own
    <3>3. ASSUME Live(q), SessionOf[q] \notin tainted'
          PROVE  /\ SessionOf[q] \notin tainted
                 /\ Owed(SessionOf[q])' \subseteq Owed(SessionOf[q])
                 /\ \A p \in Runs : SessionOf[p] = SessionOf[q] /\ history'[p] = <<>> => history[p] = <<>>
      <4>1. Holders(SessionOf[q]) # {}
        BY <3>1, <3>3 DEF Holders
      <4>2. QED
        BY <1>2, <1>3, <2>1, <3>1, <3>3, <4>1
    <3>4. QED
      BY <2>1, <3>1, <3>2, <3>3, RunFrame
  <2>2. QED
    BY <2>1 DEF HeldInv
<1>9. QED
  BY <1>4, <1>5, <1>6, <1>7, <1>8 DEF KeepInv

(* A step of run r that touches no session but to add to it. *)
LEMMA InnerFrame ==
  ASSUME LoopInv, LoopInv', KeepInv, SessionAssumption, NEW r \in Runs,
         \A q \in Runs \ {r} : pc'[q] = pc[q] /\ loop'[q] = loop[q] /\ outcome'[q] = outcome[q],
         UNCHANGED <<opened, cached, snapshot, command, history, ready, recorded>>,
         tainted \subseteq tainted', Arrivals,
         \A s \in Sessions : archive[s] \subseteq archive'[s],
         \A s \in Sessions : s \notin tainted' => ToSet(store[s]) \subseteq ToSet(store'[s]),
         \A c \in executed' \ executed : c[1] = r,
         \/ \A c \in executed' : c[1] = r /\ Delivered(r)' => c \in executed /\ Delivered(r)
         \/ SessionOf[r] \in tainted',
         r \in opened /\ Live(r)' => Live(r),
         Entry(r)', r \in opened => Held(r)'
  PROVE  KeepInv'
<1> PICK home \in Sessions : home = SessionOf[r]
  BY DEF SessionAssumption
<1>1. executed' \subseteq CallIds /\ ready' \subseteq Runs /\ opened' \subseteq Runs
  BY DEF LoopInv, TypeOK
<1>2. SessionKept(home)'
  <2>1. SessionKept(home)
    BY DEF KeepInv, SessionInv
  <2>2. ASSUME home \notin tainted'
        PROVE  Owed(home)' \subseteq Owed(home) \cup ToSet(store'[home])
    <3>1. PICK stored : stored = ToSet(store'[home])
      OBVIOUS
    <3>2. \A q \in Runs \ {r} : Delivered(q)' <=> Delivered(q)
      BY DEF Delivered
    <3>3. \A c \in executed' : SessionOf[c[1]] = home /\ Delivered(c[1])' =>
            (c \in executed /\ Delivered(c[1])) \/ ToolResult(c) \in stored
      BY <1>1, <2>2, <3>2, CallRun
    <3>4. /\ \A x \in ready' \ ready : SessionOf[x] = home => User(x) \in stored
          /\ \A x \in recorded' \ recorded : x[1] = home => CommandInput(x[2]) \in stored
          /\ \A m \in arrived' \ arrived : m.to = home => m \in stored
      BY <2>2, <3>1 DEF Arrivals
    <3>5. QED
      BY <3>1, <3>3, <3>4, OwedStep
  <2>3. QED
    BY <2>1, <2>2, SessionFrame
<1>3. \/ /\ \A c \in executed' : c[1] = r /\ Delivered(r)' => c \in executed /\ Delivered(r)
         /\ r \in ready' => r \in ready
         /\ history'[r] = <<>> => history[r] = <<>>
      \/ Live(r) /\ r \in opened
      \/ SessionOf[r] \in tainted'
  OBVIOUS
<1>4. \A q \in Runs \ {r} :
        /\ pc'[q] = pc[q] /\ loop'[q] = loop[q] /\ cached'[q] = cached[q]
        /\ snapshot'[q] = snapshot[q] /\ outcome'[q] = outcome[q] /\ history'[q] = history[q]
        /\ q \in opened' <=> q \in opened
        /\ q \in ready' <=> q \in ready
  OBVIOUS
<1>5. \A s \in Sessions \ {SessionOf[r]} : s \notin tainted' => ToSet(store[s]) \subseteq ToSet(store'[s])
  OBVIOUS
<1>6. r \in opened' /\ Live(r)' =>
        \/ r \in opened /\ Live(r)
        \/ Holders(SessionOf[r]) = {}
        \/ SessionOf[r] \in tainted'
  OBVIOUS
<1>7. r \in opened' => Held(r)'
  OBVIOUS
<1>8. SessionKept(SessionOf[r])' /\ recorded' = recorded /\ command' = command
  BY <1>2
<1>9. QED
  BY <1>1, <1>3, <1>4, <1>5, <1>6, <1>7, <1>8, DriverFrame

(* A step inside the loop that keeps the log, and has what the run executes *)
(* on the way to it; or one that leaves the loop.                           *)
LEMMA InnerMove ==
  ASSUME LoopInv, LoopInv', KeepInv, SessionAssumption, NEW r \in Runs,
         \A q \in Runs \ {r} : pc'[q] = pc[q] /\ loop'[q] = loop[q] /\ outcome'[q] = outcome[q],
         UNCHANGED <<store, opened, cached, snapshot, command, history, ready,
                     recorded, arrived, tainted>>,
         \A s \in Sessions : archive[s] \subseteq archive'[s],
         \A c \in executed' \ executed : c[1] = r /\ ToolResult(c) \in ToSet(loop'[r].todo),
         pc[r] \in InnerPhases,
         \/ /\ pc[r] \in TurnPhases /\ pc'[r] \in TurnPhases
            /\ loop'[r].log = loop[r].log
            /\ ToSet(loop[r].todo) \subseteq ToSet(loop'[r].todo)
         \/ /\ pc[r] \in TurnPhases /\ pc'[r] = "stop" /\ loop[r].todo = <<>>
            /\ executed' = executed
         \/ pc'[r] = "stop" /\ outcome'[r] = "failed" /\ executed' = executed,
         pc'[r] = "summarize" /\ r \in opened =>
           ToSet(Compacted(loop'[r].log, KeepRecent)) \subseteq archive'[SessionOf[r]]
  PROVE  KeepInv'
<1> PICK s \in Sessions : s = SessionOf[r]
  BY DEF SessionAssumption
<1>1. /\ Live(r) /\ pc'[r] \notin {"idle", "start", "replay", "refused", "fan", "fanwrite", "send", "sent"}
      /\ pc'[r] = "stop" => pc'[r] \notin TurnPhases
  BY DEF Live, LivePhases, TurnPhases, InnerPhases
<1>2. Entry(r)
  BY DEF KeepInv, EntryInv
<1>3. Entry(r)'
  BY <1>1, <1>2 DEF Entry
<1>4. Owed(s)' \subseteq Owed(s)
  <2>1. \A x \in ready' \ ready : SessionOf[x] = s => User(x) \in {}
    OBVIOUS
  <2>2. \A x \in recorded' \ recorded : x[1] = s => CommandInput(x[2]) \in {}
    OBVIOUS
  <2>2a. \A m \in arrived' \ arrived : m.to = s => m \in {}
    OBVIOUS
  <2>3. \A q \in Runs : Delivered(q)' => Delivered(q) /\ q # r
    BY <1>1 DEF Delivered
  <2>4. executed' \subseteq CallIds
    BY DEF LoopInv, TypeOK
  <2>5. \A c \in executed' : SessionOf[c[1]] = s /\ Delivered(c[1])' =>
          (c \in executed /\ Delivered(c[1])) \/ ToolResult(c) \in {}
    BY <2>3, <2>4, CallRun
  <2>6. Owed(s)' \subseteq Owed(s) \cup {}
    BY <2>1, <2>2, <2>2a, <2>5, OwedStep
  <2>7. QED
    BY <2>6
<1>5. ASSUME r \in opened
      PROVE  Held(r)'
  <2>1. Held(r)
    BY <1>5 DEF KeepInv, HeldInv
  <2>2. ReplayKeeps(r)'
    BY <1>1 DEF ReplayKeeps
  <2>3. CacheKeeps(r)'
    <3>1. Calm(s)' => Calm(s)
      BY DEF Calm
    <3>2. Calm(s) => /\ Owed(s) \subseteq ToSet(safe_prefix(cached[r])) \cup archive[s]
                     /\ Owed(s) \subseteq ToSet(snapshot[r]) \cup archive[s]
                     /\ pc[r] \in TurnPhases => Owed(s) \subseteq ToSet(safe_prefix(loop[r].log)) \cup archive[s]
      BY <1>1, <2>1 DEF Held, CacheKeeps
    <3>3. pc'[r] \in TurnPhases => pc[r] \in TurnPhases /\ loop'[r].log = loop[r].log
      BY <1>1
    <3>4. archive[s] \subseteq archive'[s] /\ cached' = cached /\ snapshot' = snapshot
      OBVIOUS
    <3>5. Calm(s)' => /\ Owed(s)' \subseteq ToSet(safe_prefix(cached'[r])) \cup archive'[s]
                      /\ Owed(s)' \subseteq ToSet(snapshot'[r]) \cup archive'[s]
                      /\ pc'[r] \in TurnPhases => Owed(s)' \subseteq ToSet(safe_prefix(loop'[r].log)) \cup archive'[s]
      BY <1>4, <3>1, <3>2, <3>3, <3>4
    <3>6. QED
      BY <3>5 DEF CacheKeeps
  <2>4. ResultsKept(r)'
    <3>1. CASE /\ pc[r] \in TurnPhases /\ pc'[r] \in TurnPhases
               /\ loop'[r].log = loop[r].log
               /\ ToSet(loop[r].todo) \subseteq ToSet(loop'[r].todo)
      <4>1. Own(r)' \subseteq Own(r) \cup ToSet(loop'[r].todo)
        BY DEF Own
      <4>2. /\ Own(r) \subseteq ToSet(loop[r].log) \cup ToSet(loop[r].todo) \cup archive[s]
            /\ Own(r) \subseteq ToSet(cached[r]) \cup ToSet(loop[r].todo) \cup archive[s]
        BY <2>1, <3>1 DEF Held, ResultsKept
      <4>3. /\ Own(r)' \subseteq ToSet(loop'[r].log) \cup ToSet(loop'[r].todo) \cup archive'[s]
            /\ Own(r)' \subseteq ToSet(cached'[r]) \cup ToSet(loop'[r].todo) \cup archive'[s]
        BY <3>1, <4>1, <4>2
      <4>4. QED
        BY <1>5, <4>3 DEF ResultsKept
    <3>2. CASE /\ pc[r] \in TurnPhases /\ pc'[r] = "stop" /\ loop[r].todo = <<>>
               /\ executed' = executed
      <4>1. Own(r) \subseteq ToSet(cached[r]) \cup ToSet(loop[r].todo) \cup archive[s]
        BY <2>1, <3>2 DEF Held, ResultsKept
      <4>2. ToSet(loop[r].todo) = {}
        BY <3>2 DEF ToSet
      <4>3. Own(r)' \subseteq ToSet(cached'[r]) \cup archive'[s]
        BY <3>2, <4>1, <4>2 DEF Own
      <4>4. QED
        BY <1>1, <3>2, <4>3 DEF ResultsKept
    <3>3. CASE pc'[r] = "stop" /\ outcome'[r] = "failed"
      BY <1>1, <3>3 DEF ResultsKept
    <3>4. QED
      BY <3>1, <3>2, <3>3
  <2>5. QED
    BY <2>2, <2>3, <2>4 DEF Held
<1>6. \A c \in executed' \ executed : c[1] = r
  OBVIOUS
<1>7. \A c \in executed' : c[1] = r /\ Delivered(r)' => c \in executed /\ Delivered(r)
  BY <1>1 DEF Delivered
<1>8. \A x \in Sessions : x \notin tainted' => ToSet(store[x]) \subseteq ToSet(store'[x])
  OBVIOUS
<1>9. /\ tainted \subseteq tainted' /\ Arrivals
      /\ r \in opened /\ Live(r)' => Live(r)
      /\ UNCHANGED <<opened, cached, snapshot, command, history, ready, recorded>>
  BY <1>1 DEF Arrivals
<1>10. QED
  BY <1>3, <1>5, <1>6, <1>7, <1>8, <1>9, InnerFrame

------------------------------------------------------------------------------
(* The steps of the loop *)

(* No call is executed, nothing of the hook or the store moves. *)
LEMMA QuietMove ==
  ASSUME LoopInv, LoopInv', KeepInv, SessionAssumption, NEW r \in Runs,
         UNCHANGED <<store, archive, opened, cached, snapshot, command, history, ready, executed,
                     recorded, arrived, tainted>>,
         \A q \in Runs \ {r} : pc'[q] = pc[q] /\ loop'[q] = loop[q] /\ outcome'[q] = outcome[q],
         pc[r] \in TurnPhases, pc'[r] \in TurnPhases \ {"summarize"},
         loop'[r].log = loop[r].log, ToSet(loop[r].todo) \subseteq ToSet(loop'[r].todo)
  PROVE  KeepInv'
<1>1. pc[r] \in InnerPhases
  BY DEF TurnPhases
<1>2. /\ \A s \in Sessions : archive[s] \subseteq archive'[s]
      /\ \A c \in executed' \ executed : c[1] = r /\ ToolResult(c) \in ToSet(loop'[r].todo)
      /\ UNCHANGED <<store, opened, cached, snapshot, command, history, ready,
                     recorded, arrived, tainted>>
  OBVIOUS
<1>3. \/ /\ pc[r] \in TurnPhases /\ pc'[r] \in TurnPhases
         /\ loop'[r].log = loop[r].log
         /\ ToSet(loop[r].todo) \subseteq ToSet(loop'[r].todo)
      \/ /\ pc[r] \in TurnPhases /\ pc'[r] = "stop" /\ loop[r].todo = <<>>
         /\ executed' = executed
      \/ pc'[r] = "stop" /\ outcome'[r] = "failed" /\ executed' = executed
  OBVIOUS
<1>4. pc'[r] = "summarize" /\ r \in opened =>
        ToSet(Compacted(loop'[r].log, KeepRecent)) \subseteq archive'[SessionOf[r]]
  OBVIOUS
<1>5. QED
  BY <1>1, <1>2, <1>3, <1>4, InnerMove

(* drive_inner returns early. *)
LEMMA FinishMove ==
  ASSUME LoopInv, LoopInv', KeepInv, SessionAssumption, NEW r \in Runs,
         UNCHANGED <<store, archive, opened, cached, snapshot, command, history, ready, executed,
                     recorded, arrived, tainted>>,
         NEW how \in {"paused", "failed"}, Finish(r, how), pc[r] \in InnerPhases,
         how = "paused" => pc[r] \in {"turn", "tool"}
  PROVE  KeepInv'
<1>1. /\ \A q \in Runs \ {r} : pc'[q] = pc[q] /\ loop'[q] = loop[q] /\ outcome'[q] = outcome[q]
      /\ pc'[r] = "stop" /\ outcome'[r] = how
  BY DEF Finish, Goto, LoopInv, TypeOK
<1>2. how = "paused" => pc[r] \in TurnPhases /\ loop[r].todo = <<>>
  BY OwnCalls DEF TurnPhases, InnerPhases, AppendPhases
<1>3. \/ /\ pc[r] \in TurnPhases /\ pc'[r] = "stop" /\ loop[r].todo = <<>>
         /\ executed' = executed
      \/ pc'[r] = "stop" /\ outcome'[r] = "failed" /\ executed' = executed
  BY <1>1, <1>2
<1>4. /\ \A s \in Sessions : archive[s] \subseteq archive'[s]
      /\ \A c \in executed' \ executed : c[1] = r /\ ToolResult(c) \in ToSet(loop'[r].todo)
      /\ UNCHANGED <<store, opened, cached, snapshot, command, history, ready,
                     recorded, arrived, tainted>>
  OBVIOUS
<1>5. pc'[r] = "summarize" /\ r \in opened =>
        ToSet(Compacted(loop'[r].log, KeepRecent)) \subseteq archive'[SessionOf[r]]
  BY <1>1
<1>6. QED
  BY <1>1, <1>3, <1>4, <1>5, InnerMove

LEMMA PauseKeeps ==
  ASSUME LoopInv, LoopInv', KeepInv, SessionAssumption, NEW r \in Runs, Pause(r)
  PROVE  KeepInv'
<1>1. /\ pc[r] \in {"turn", "tool"} /\ pc[r] \in InnerPhases
      /\ Finish(r, "paused")
      /\ UNCHANGED <<store, archive, opened, cached, snapshot, command, history, ready, executed,
                     recorded, arrived, tainted>>
  BY DEF Pause, At, InnerPhases, stores, hooks, observed
<1>2. QED
  BY <1>1, FinishMove

LEMMA LeaveKeeps ==
  ASSUME LoopInv, LoopInv', KeepInv, SessionAssumption, NEW r \in Runs, ObserveCancel(r) \/ Fail(r)
  PROVE  KeepInv'
<1>1. /\ pc[r] \in InnerPhases
      /\ Finish(r, "failed")
      /\ UNCHANGED <<store, archive, opened, cached, snapshot, command, history, ready, executed,
                     recorded, arrived, tainted>>
  BY DEF ObserveCancel, Fail, stores, hooks, observed
<1>2. QED
  BY <1>1, FinishMove

LEMMA BeginTurnKeeps ==
  ASSUME LoopInv, LoopInv', KeepInv, SessionAssumption, NEW r \in Runs, BeginTurn(r)
  PROVE  KeepInv'
<1>1. /\ pc[r] = "turn" /\ pc[r] \in InnerPhases /\ pc[r] \in TurnPhases
      /\ UNCHANGED <<store, opened, cached, snapshot, command, history, ready, executed,
                     recorded, arrived, tainted, loop, outcome>>
  BY DEF BeginTurn, At, InnerPhases, TurnPhases, observed
<1>2. PICK p \in {"summarize", "request"} : pc' = [pc EXCEPT ![r] = p]
  BY DEF BeginTurn, Goto
<1>3. pc'[r] = p /\ p \in TurnPhases /\ \A q \in Runs \ {r} : pc'[q] = pc[q]
  BY <1>2 DEF LoopInv, TypeOK, TurnPhases, InnerPhases
<1>4. PICK s \in Sessions : s = SessionOf[r]
  BY DEF SessionAssumption
<1>4a. PICK cut : cut = ToSet(Compacted(loop[r].log, KeepRecent))
  OBVIOUS
<1>5. \/ archive' = archive
      \/ archive' = [archive EXCEPT ![s] = archive[s] \cup cut]
  BY <1>4, <1>4a DEF BeginTurn
<1>6. \A x \in Sessions : archive[x] \subseteq archive'[x]
  <2>1. CASE archive' = archive
    BY <2>1
  <2>2. CASE archive' = [archive EXCEPT ![s] = archive[s] \cup cut]
    <3>1. ASSUME NEW x \in Sessions
          PROVE  archive'[x] = IF x = s THEN archive[s] \cup cut ELSE archive[x]
      BY <2>2 DEF LoopInv, TypeOK
    <3>2. QED
      BY <3>1
  <2>3. QED
    BY <1>5, <2>1, <2>2
<1>7. p = "summarize" /\ r \in opened => archive' = [archive EXCEPT ![s] = archive[s] \cup cut]
  BY <1>2, <1>3, <1>4, <1>4a DEF BeginTurn, Goto, LoopInv, TypeOK
<1>8. p = "summarize" /\ r \in opened => cut \subseteq archive'[s]
  BY <1>7 DEF LoopInv, TypeOK
<1>9. /\ \A q \in Runs \ {r} : pc'[q] = pc[q] /\ loop'[q] = loop[q] /\ outcome'[q] = outcome[q]
      /\ \A c \in executed' \ executed : c[1] = r /\ ToolResult(c) \in ToSet(loop'[r].todo)
      /\ UNCHANGED <<store, opened, cached, snapshot, command, history, ready,
                     recorded, arrived, tainted>>
      /\ pc[r] \in TurnPhases /\ pc'[r] \in TurnPhases
      /\ loop'[r].log = loop[r].log
      /\ ToSet(loop[r].todo) \subseteq ToSet(loop'[r].todo)
      /\ pc'[r] = "summarize" /\ r \in opened =>
           ToSet(Compacted(loop'[r].log, KeepRecent)) \subseteq archive'[SessionOf[r]]
  BY <1>1, <1>3, <1>4, <1>4a, <1>8
<1>10. QED
  BY <1>1, <1>6, <1>9, InnerMove

LEMMA SendRequestKeeps ==
  ASSUME LoopInv, LoopInv', KeepInv, SessionAssumption, NEW r \in Runs, SendRequest(r)
  PROVE  KeepInv'
<1>1. /\ pc[r] = "request" /\ pc' = [pc EXCEPT ![r] = "llm"]
      /\ loop' = [loop EXCEPT ![r].attempt = 1, ![r].accum = <<>>]
      /\ UNCHANGED <<store, archive, opened, cached, snapshot, command, history, ready, executed,
                     recorded, arrived, tainted, outcome>>
  BY DEF SendRequest, At, Goto, stores, observed
<1>2. loop'[r].log = loop[r].log /\ loop'[r].todo = loop[r].todo
  BY <1>1, LoopFields DEF LoopInv, TypeOK, Loops
<1>3. /\ \A q \in Runs \ {r} : pc'[q] = pc[q] /\ loop'[q] = loop[q] /\ outcome'[q] = outcome[q]
      /\ pc[r] \in TurnPhases /\ pc'[r] \in TurnPhases \ {"summarize"}
  BY <1>1 DEF LoopInv, TypeOK, TurnPhases, InnerPhases
<1>4. QED
  BY <1>1, <1>2, <1>3, QuietMove

LEMMA StreamToolUseKeeps ==
  ASSUME LoopInv, LoopInv', KeepInv, SessionAssumption, NEW r \in Runs, StreamToolUse(r)
  PROVE  KeepInv'
<1>1. PICK accum : /\ pc[r] = "llm"
                   /\ loop' = [loop EXCEPT ![r].accum = accum]
                   /\ UNCHANGED <<store, archive, opened, cached, snapshot, command, history, ready,
                                  executed, recorded, arrived, tainted, outcome, pc>>
  BY DEF StreamToolUse, At, stores, hooks, observed
<1>2. loop'[r].log = loop[r].log /\ loop'[r].todo = loop[r].todo
  BY <1>1, LoopFields DEF LoopInv, TypeOK, Loops
<1>3. /\ \A q \in Runs \ {r} : pc'[q] = pc[q] /\ loop'[q] = loop[q] /\ outcome'[q] = outcome[q]
      /\ pc[r] \in TurnPhases /\ pc'[r] \in TurnPhases \ {"summarize"}
  BY <1>1 DEF LoopInv, TypeOK, TurnPhases, InnerPhases
<1>4. QED
  BY <1>1, <1>2, <1>3, QuietMove

LEMMA FallBackKeeps ==
  ASSUME LoopInv, LoopInv', KeepInv, SessionAssumption, NEW r \in Runs, FallBack(r)
  PROVE  KeepInv'
<1>1. PICK attempt : /\ pc[r] = "llm"
                     /\ loop' = [loop EXCEPT ![r].attempt = attempt, ![r].accum = <<>>]
                     /\ UNCHANGED <<store, archive, opened, cached, snapshot, command, history,
                                    ready, executed, recorded, arrived, tainted, outcome, pc>>
  BY DEF FallBack, At, stores, hooks, observed
<1>2. loop'[r].log = loop[r].log /\ loop'[r].todo = loop[r].todo
  BY <1>1, LoopFields DEF LoopInv, TypeOK, Loops
<1>3. /\ \A q \in Runs \ {r} : pc'[q] = pc[q] /\ loop'[q] = loop[q] /\ outcome'[q] = outcome[q]
      /\ pc[r] \in TurnPhases /\ pc'[r] \in TurnPhases \ {"summarize"}
  BY <1>1 DEF LoopInv, TypeOK, TurnPhases, InnerPhases
<1>4. QED
  BY <1>1, <1>2, <1>3, QuietMove

LEMMA EndResponseKeeps ==
  ASSUME LoopInv, LoopInv', KeepInv, SessionAssumption, NEW r \in Runs, EndResponse(r)
  PROVE  KeepInv'
<1>1. PICK todo, batch : /\ pc[r] = "llm" /\ pc' = [pc EXCEPT ![r] = "answer"]
                         /\ loop' = [loop EXCEPT ![r].todo = todo, ![r].batch = batch, ![r].accum = <<>>]
                         /\ UNCHANGED <<store, archive, opened, cached, snapshot, command, history,
                                        ready, executed, recorded, arrived, tainted, outcome>>
  BY DEF EndResponse, At, Goto, stores, hooks, observed
<1>2. loop'[r].log = loop[r].log
  BY <1>1, LoopFields DEF LoopInv, TypeOK, Loops
<1>3. ToSet(loop[r].todo) = {}
  BY <1>1, OwnCalls DEF AppendPhases, ToSet
<1>4. /\ \A q \in Runs \ {r} : pc'[q] = pc[q] /\ loop'[q] = loop[q] /\ outcome'[q] = outcome[q]
      /\ pc[r] \in TurnPhases /\ pc'[r] \in TurnPhases \ {"summarize"}
  BY <1>1 DEF LoopInv, TypeOK, TurnPhases, InnerPhases
<1>5. QED
  BY <1>1, <1>2, <1>3, <1>4, QuietMove

LEMMA DispatchToolKeeps ==
  ASSUME LoopInv, LoopInv', KeepInv, SessionAssumption, NEW r \in Runs, DispatchTool(r)
  PROVE  KeepInv'
<1>1. /\ pc[r] = "tool" /\ pc' = [pc EXCEPT ![r] = "execute"]
      /\ UNCHANGED <<store, archive, opened, cached, snapshot, command, history,
                     ready, executed, recorded, arrived, tainted, outcome, loop>>
  BY DEF DispatchTool, At, Goto, stores, hooks, observed
<1>2. /\ \A q \in Runs \ {r} : pc'[q] = pc[q] /\ loop'[q] = loop[q] /\ outcome'[q] = outcome[q]
      /\ pc[r] \in TurnPhases /\ pc'[r] \in TurnPhases \ {"summarize"}
  BY <1>1 DEF LoopInv, TypeOK, TurnPhases, InnerPhases
<1>3. loop'[r].log = loop[r].log /\ ToSet(loop[r].todo) \subseteq ToSet(loop'[r].todo)
  BY <1>1
<1>4. QED
  BY <1>1, <1>2, <1>3, QuietMove

LEMMA ResolveToolKeeps ==
  ASSUME LoopInv, LoopInv', KeepInv, SessionAssumption, NEW r \in Runs, ResolveTool(r)
  PROVE  KeepInv'
<1>1. PICK c, rest, batch :
        /\ c = Head(loop[r].batch)
        /\ pc[r] = "execute" /\ pc' = [pc EXCEPT ![r] = "resolve"]
        /\ rest \in {<<>>, <<Attachment(c)>>} \cup {<<ChannelOutbound(c, s)>> : s \in Sessions}
        /\ loop' = [loop EXCEPT ![r].todo = <<ToolResult(c)>> \o rest, ![r].batch = batch]
        /\ executed' = executed \cup {c}
        /\ UNCHANGED <<store, archive, opened, cached, snapshot, command, history,
                       ready, recorded, arrived, tainted, outcome>>
  BY DEF ResolveTool, At, Goto, stores, hooks
<1>2. c \in CallIds /\ c[1] = r
  <2>1. /\ loop[r].batch \in Responses /\ loop[r].batch # <<>>
        /\ \A i \in DOMAIN loop[r].batch : loop[r].batch[i][1] = r
    BY <1>1, LoopFields, OwnCalls DEF LoopInv
  <2>2. loop[r].batch \in Seq(CallIds)
    BY <2>1, ResponseTypes
  <2>3. c = loop[r].batch[1] /\ 1 \in DOMAIN loop[r].batch
    BY <1>1, <2>1, <2>2, EmptySeq, InSeq
  <2>4. QED
    BY <2>1, <2>2, <2>3, InSeq
<1>3. <<ToolResult(c)>> \in Seq(Messages) /\ rest \in Seq(Messages)
  <2>1. /\ Attachment(c) \in Messages /\ ToolResult(c) \in Messages
        /\ \A s \in Sessions : ChannelOutbound(c, s) \in Messages
    BY <1>2, MessageTypes
  <2>2. <<>> \in Seq(Messages) /\ <<Attachment(c)>> \in Seq(Messages)
    BY <2>1
  <2>3. \A s \in Sessions : <<ChannelOutbound(c, s)>> \in Seq(Messages)
    BY <2>1
  <2>4. rest \in Seq(Messages)
    BY <1>1, <2>2, <2>3
  <2>5. <<ToolResult(c)>> \in Seq(Messages)
    BY <2>1
  <2>6. QED
    BY <2>4, <2>5
<1>4. PICK first, todo : first = <<ToolResult(c)>> /\ todo = first \o rest
  OBVIOUS
<1>5. ToolResult(c) \in ToSet(todo)
  <2>1. first \in Seq(Messages) /\ rest \in Seq(Messages)
    BY <1>3, <1>4
  <2>2. ToSet(todo) = ToSet(first) \cup ToSet(rest)
    BY <1>4, <2>1, ToSetConcat, ZenonT(60)
  <2>3. ToolResult(c) \in ToSet(first)
    BY <1>4 DEF ToSet
  <2>4. QED
    BY <2>2, <2>3
<1>6. loop'[r].log = loop[r].log /\ loop'[r].todo = todo
  BY <1>1, <1>4, LoopFields DEF LoopInv, TypeOK, Loops
<1>7. ToSet(loop[r].todo) = {}
  <2>1. loop[r].todo = <<>>
    BY <1>1, OwnCalls DEF AppendPhases
  <2>2. QED
    BY <2>1 DEF ToSet
<1>8. /\ \A q \in Runs \ {r} : pc'[q] = pc[q] /\ loop'[q] = loop[q] /\ outcome'[q] = outcome[q]
      /\ pc[r] \in TurnPhases /\ pc'[r] \in TurnPhases \ {"summarize"} /\ pc[r] \in InnerPhases
  BY <1>1 DEF LoopInv, TypeOK, TurnPhases, InnerPhases
<1>9. /\ \A x \in executed' \ executed : x[1] = r /\ ToolResult(x) \in ToSet(loop'[r].todo)
      /\ ToSet(loop[r].todo) \subseteq ToSet(loop'[r].todo)
  BY <1>1, <1>2, <1>5, <1>6, <1>7
<1>10. /\ \A s \in Sessions : archive[s] \subseteq archive'[s]
       /\ UNCHANGED <<store, opened, cached, snapshot, command, history, ready,
                      recorded, arrived, tainted>>
       /\ pc'[r] = "summarize" /\ r \in opened =>
            ToSet(Compacted(loop'[r].log, KeepRecent)) \subseteq archive'[SessionOf[r]]
  BY <1>1, <1>8
<1>11. QED
  BY <1>6, <1>8, <1>9, <1>10, InnerMove

LEMMA SummarizeKeeps ==
  ASSUME LoopInv, LoopInv', KeepInv, SessionAssumption, NEW r \in Runs, Summarize(r)
  PROVE  KeepInv'
<1>1. /\ pc[r] = "summarize" /\ pc' = [pc EXCEPT ![r] = "request"]
      /\ UNCHANGED <<store, archive, opened, cached, snapshot, command, history,
                     ready, executed, recorded, arrived, tainted, outcome>>
  BY DEF Summarize, At, Goto, stores, observed
<1>2. PICK s, old, log :
        /\ s \in Sessions /\ s = SessionOf[r]
        /\ old = loop[r].log /\ log = CompactedLog(loop[r].log, KeepRecent)
  BY DEF SessionAssumption
<1>3. \/ loop' = loop
      \/ loop' = [loop EXCEPT ![r].log = log]
  BY <1>2 DEF Summarize
<1>4. /\ loop'[r].log = old \/ loop'[r].log = log
      /\ loop'[r].todo = loop[r].todo
      /\ \A q \in Runs \ {r} : loop'[q] = loop[q]
  <2>1. CASE loop' = loop
    BY <1>2, <2>1
  <2>2. CASE loop' = [loop EXCEPT ![r].log = log]
    <3>1. loop[r] \in Loops /\ loop \in [Runs -> Loops]
      BY LoopFields DEF LoopInv, TypeOK
    <3>2. loop'[r] = [loop[r] EXCEPT !.log = log] /\ \A q \in Runs \ {r} : loop'[q] = loop[q]
      BY <2>2, <3>1
    <3>3. loop'[r].log = log /\ loop'[r].todo = loop[r].todo
      BY <3>1, <3>2 DEF Loops
    <3>4. QED
      BY <3>2, <3>3
  <2>3. QED
    BY <1>3, <2>1, <2>2
<1>5. /\ \A q \in Runs \ {r} : pc'[q] = pc[q] /\ outcome'[q] = outcome[q]
      /\ pc'[r] = "request" /\ pc[r] \in TurnPhases /\ "request" \in TurnPhases
      /\ Live(r)
  BY <1>1 DEF LoopInv, TypeOK, TurnPhases, InnerPhases, Live, LivePhases
<1>6. Entry(r)'
  <2>1. Entry(r)
    BY DEF KeepInv, EntryInv
  <2>2. QED
    BY <1>1, <1>5, <2>1 DEF Entry
<1>7. ASSUME r \in opened
      PROVE  Held(r)'
  <2>1. Held(r)
    BY <1>7 DEF KeepInv, HeldInv
  <2>2. /\ Own(r) \subseteq ToSet(old) \cup ToSet(loop[r].todo) \cup archive[s]
        /\ Own(r) \subseteq ToSet(cached[r]) \cup ToSet(loop[r].todo) \cup archive[s]
        /\ ToSet(Compacted(old, KeepRecent)) \subseteq archive[s]
    BY <1>1, <1>2, <1>5, <2>1 DEF Held, ResultsKept
  <2>3. /\ ToSet(old) \subseteq ToSet(log) \cup ToSet(Compacted(old, KeepRecent))
        /\ ToSet(safe_prefix(old)) \subseteq ToSet(safe_prefix(log)) \cup ToSet(Compacted(old, KeepRecent))
    <3>1. /\ old \in Seq(Messages) /\ KeepRecent \in Nat /\ Summary \in Messages
          /\ log = CompactedLog(old, KeepRecent)
      BY <1>2, LoopFields, MessageTypes DEF LoopInv, SessionAssumption
    <3>2. QED
      BY <3>1, CompactionKeepsSafePrefix
  <2>4. ReplayKeeps(r)'
    BY <1>5 DEF ReplayKeeps
  <2>5. ResultsKept(r)'
    <3>1. /\ Own(r)' = Own(r) /\ archive' = archive /\ cached' = cached
      BY <1>1 DEF Own
    <3>2. ToSet(old) \cup archive[s] \subseteq ToSet(loop'[r].log) \cup archive[s]
      BY <1>4, <2>2, <2>3
    <3>3. /\ Own(r)' \subseteq ToSet(loop'[r].log) \cup ToSet(loop'[r].todo) \cup archive'[s]
          /\ Own(r)' \subseteq ToSet(cached'[r]) \cup ToSet(loop'[r].todo) \cup archive'[s]
      BY <1>4, <2>2, <3>1, <3>2
    <3>4. QED
      BY <1>2, <1>5, <3>3 DEF ResultsKept
  <2>6. CacheKeeps(r)'
    <3>1. Owed(s)' \subseteq Owed(s)
      <4>1. \A q \in Runs : Delivered(q)' => Delivered(q) /\ q # r
        BY <1>1, <1>5 DEF Delivered
      <4>2. executed' \subseteq CallIds
        BY DEF LoopInv, TypeOK
      <4>3. /\ \A x \in ready' \ ready : SessionOf[x] = s => User(x) \in {}
            /\ \A x \in recorded' \ recorded : x[1] = s => CommandInput(x[2]) \in {}
            /\ \A m \in arrived' \ arrived : m.to = s => m \in {}
            /\ \A c \in executed' : SessionOf[c[1]] = s /\ Delivered(c[1])' =>
                 (c \in executed /\ Delivered(c[1])) \/ ToolResult(c) \in {}
        BY <1>1, <4>1, <4>2, CallRun
      <4>4. Owed(s)' \subseteq Owed(s) \cup {}
        BY <4>3, OwedStep
      <4>5. QED
        BY <4>4
    <3>2. ASSUME Calm(s)'
          PROVE  /\ Owed(s) \subseteq ToSet(safe_prefix(cached[r])) \cup archive[s]
                 /\ Owed(s) \subseteq ToSet(snapshot[r]) \cup archive[s]
                 /\ Owed(s) \subseteq ToSet(safe_prefix(old)) \cup archive[s]
      <4>1. Calm(s)
        BY <1>1, <3>2 DEF Calm
      <4>2. QED
        BY <1>2, <1>5, <2>1, <4>1 DEF Held, CacheKeeps
    <3>3. ToSet(safe_prefix(old)) \cup archive[s] \subseteq ToSet(safe_prefix(loop'[r].log)) \cup archive[s]
      BY <1>4, <2>2, <2>3
    <3>4. archive' = archive /\ cached' = cached /\ snapshot' = snapshot
      BY <1>1
    <3>5. Calm(s)' => /\ Owed(s)' \subseteq ToSet(safe_prefix(cached'[r])) \cup archive'[s]
                      /\ Owed(s)' \subseteq ToSet(snapshot'[r]) \cup archive'[s]
                      /\ Owed(s)' \subseteq ToSet(safe_prefix(loop'[r].log)) \cup archive'[s]
      BY <3>1, <3>2, <3>3, <3>4
    <3>6. QED
      BY <1>2, <3>5 DEF CacheKeeps
  <2>7. QED
    BY <2>4, <2>5, <2>6 DEF Held
<1>8. /\ \A q \in Runs \ {r} : pc'[q] = pc[q] /\ loop'[q] = loop[q] /\ outcome'[q] = outcome[q]
      /\ UNCHANGED <<opened, cached, snapshot, command, history, ready, recorded>>
      /\ tainted \subseteq tainted' /\ Arrivals
      /\ \A x \in Sessions : archive[x] \subseteq archive'[x]
      /\ \A x \in Sessions : x \notin tainted' => ToSet(store[x]) \subseteq ToSet(store'[x])
      /\ \A c \in executed' \ executed : c[1] = r
      /\ \A c \in executed' : c[1] = r /\ Delivered(r)' => c \in executed /\ Delivered(r)
      /\ r \in opened /\ Live(r)' => Live(r)
  BY <1>1, <1>4, <1>5 DEF Delivered, Arrivals
<1>9. QED
  BY <1>6, <1>7, <1>8, InnerFrame

------------------------------------------------------------------------------
(* Before and after the loop *)

LEMMA SpawnDriverKeeps ==
  ASSUME LoopInv, LoopInv', KeepInv, SessionAssumption, NEW r \in Runs, SpawnDriver(r)
  PROVE  KeepInv'
<1>1. PICK p \in {"start", "refused"} :
        /\ pc[r] = "idle" /\ pc' = [pc EXCEPT ![r] = p]
        /\ UNCHANGED <<store, archive, loop, opened, cached, snapshot, command, history,
                       ready, executed, recorded, arrived, tainted, outcome>>
  BY DEF SpawnDriver, Goto, stores, hooks, observed
<1>2. pc'[r] = p /\ \A q \in Runs \ {r} : pc'[q] = pc[q]
  BY <1>1 DEF LoopInv, TypeOK
<1>3. Entry(r)
  BY DEF KeepInv, EntryInv
<1>4. Entry(r)' /\ r \notin opened
  BY <1>1, <1>2, <1>3 DEF Entry, TurnPhases, InnerPhases
<1>5. /\ \A q \in Runs \ {r} : pc'[q] = pc[q] /\ loop'[q] = loop[q] /\ outcome'[q] = outcome[q]
      /\ UNCHANGED <<opened, cached, snapshot, command, history, ready, recorded>>
      /\ tainted \subseteq tainted' /\ Arrivals
      /\ \A x \in Sessions : archive[x] \subseteq archive'[x]
      /\ \A x \in Sessions : x \notin tainted' => ToSet(store[x]) \subseteq ToSet(store'[x])
      /\ \A c \in executed' \ executed : c[1] = r
      /\ \A c \in executed' : c[1] = r /\ Delivered(r)' => c \in executed /\ Delivered(r)
      /\ r \in opened /\ Live(r)' => Live(r)
      /\ r \in opened => Held(r)'
  BY <1>1, <1>2, <1>4 DEF Delivered, Arrivals
<1>6. QED
  BY <1>4, <1>5, InnerFrame

(* A step of a run after on_stop, whose hook entry is gone. *)
LEMMA AfterStop ==
  ASSUME LoopInv, LoopInv', KeepInv, SessionAssumption, NEW r \in Runs,
         pc[r] \in {"fan", "fanwrite", "send"}, pc'[r] \in {"fan", "fanwrite", "sent"},
         \A q \in Runs \ {r} : pc'[q] = pc[q],
         UNCHANGED <<archive, loop, opened, cached, snapshot, command, history, ready, executed,
                     recorded, outcome>>,
         tainted \subseteq tainted', Arrivals,
         \A x \in Sessions : x \notin tainted' => ToSet(store[x]) \subseteq ToSet(store'[x])
  PROVE  KeepInv'
<1>1. Entry(r)
  BY DEF KeepInv, EntryInv
<1>2. r \notin opened
  BY <1>1 DEF Entry
<1>3. Entry(r)'
  BY <1>2 DEF Entry, TurnPhases, InnerPhases
<1>4. \/ \A c \in executed' : c[1] = r /\ Delivered(r)' => c \in executed /\ Delivered(r)
      \/ SessionOf[r] \in tainted'
  BY <1>1, <1>2 DEF Entry, Delivered
<1>5. /\ \A q \in Runs \ {r} : pc'[q] = pc[q] /\ loop'[q] = loop[q] /\ outcome'[q] = outcome[q]
      /\ UNCHANGED <<opened, cached, snapshot, command, history, ready, recorded>>
      /\ \A x \in Sessions : archive[x] \subseteq archive'[x]
      /\ \A c \in executed' \ executed : c[1] = r
      /\ r \in opened /\ Live(r)' => Live(r)
      /\ r \in opened => Held(r)'
  BY <1>2
<1>6. QED
  BY <1>3, <1>4, <1>5, InnerFrame

LEMMA ReadTargetKeeps ==
  ASSUME LoopInv, LoopInv', KeepInv, SessionAssumption, NEW r \in Runs, ReadTarget(r)
  PROVE  KeepInv'
<1>1. /\ pc[r] = "fan" /\ tainted \subseteq tainted'
      /\ pc' = pc \/ pc' = [pc EXCEPT ![r] = "fanwrite"]
      /\ UNCHANGED <<store, archive, loop, opened, cached, snapshot, command, history, ready,
                     executed, recorded, arrived, outcome>>
  BY DEF ReadTarget, Goto, stores, hooks
<1>2. pc'[r] \in {"fan", "fanwrite"} /\ \A q \in Runs \ {r} : pc'[q] = pc[q]
  BY <1>1 DEF LoopInv, TypeOK
<1>3. Arrivals
  BY <1>1 DEF Arrivals
<1>4. QED
  BY <1>1, <1>2, <1>3, AfterStop

LEMMA SendTerminalKeeps ==
  ASSUME LoopInv, LoopInv', KeepInv, SessionAssumption, NEW r \in Runs, SendTerminal(r)
  PROVE  KeepInv'
<1>1. /\ pc[r] \in {"fan", "send"} /\ pc' = [pc EXCEPT ![r] = "sent"]
      /\ UNCHANGED <<store, archive, loop, opened, cached, snapshot, command, history, ready,
                     executed, recorded, arrived, tainted, outcome>>
  BY DEF SendTerminal, Goto, stores, hooks, observed
<1>2. pc'[r] = "sent" /\ \A q \in Runs \ {r} : pc'[q] = pc[q]
  BY <1>1 DEF LoopInv, TypeOK
<1>3. Arrivals
  BY <1>1 DEF Arrivals
<1>4. QED
  BY <1>1, <1>2, <1>3, AfterStop

(* A session that is read and written back loses nothing, or is tainted. *)
LEMMA OverwriteKeeps ==
  ASSUME TypeOK, NEW t \in Sessions, NEW read, NEW msgs, Overwrite(t, read, msgs),
         ToSet(read) \subseteq ToSet(msgs)
  PROVE  /\ tainted \subseteq tainted'
         /\ \A x \in Sessions : x \notin tainted' => ToSet(store[x]) \subseteq ToSet(store'[x])
<1>1. tainted \subseteq tainted'
  BY DEF Overwrite, Overwritten
<1>2. ASSUME NEW x \in Sessions, x \notin tainted'
      PROVE  ToSet(store[x]) \subseteq ToSet(store'[x])
  <2>1. CASE x = t
    <3>1. store[t] = read /\ store' = [store EXCEPT ![t] = msgs]
      BY <1>2, <2>1 DEF Overwrite, Overwritten
    <3>2. store'[t] = msgs
      BY <3>1 DEF TypeOK
    <3>3. QED
      BY <2>1, <3>1, <3>2
  <2>2. CASE x # t
    BY <2>2 DEF Overwrite, Overwritten, TypeOK
  <2>3. QED
    BY <2>1, <2>2
<1>3. QED
  BY <1>1, <1>2

LEMMA WriteTargetKeeps ==
  ASSUME LoopInv, LoopInv', KeepInv, SessionAssumption, NEW r \in Runs, WriteTarget(r)
  PROVE  KeepInv'
<1>1. /\ pc[r] = "fanwrite" /\ pc' = [pc EXCEPT ![r] = "fan"]
      /\ UNCHANGED <<archive, loop, opened, cached, snapshot, command, history, ready,
                     executed, recorded, outcome>>
  BY DEF WriteTarget, Goto, hooks
<1>2. pc'[r] = "fan" /\ \A q \in Runs \ {r} : pc'[q] = pc[q]
  BY <1>1 DEF LoopInv, TypeOK
<1>3. PICK out, pair, msgs : /\ out = Head(fan[r])
                             /\ pair = <<out, NotifyRecord(out)>>
                             /\ msgs = copy[r] \o pair
  OBVIOUS
<1>4. /\ fan[r] \in Seq(Messages) /\ fan[r] # <<>> /\ out.kind = "outbound"
      /\ copy[r] \in Seq(Messages)
  BY <1>1, <1>3, ValueTypes DEF LoopInv, ControlInv, Control
<1>5. out \in Messages /\ out.to \in Sessions /\ NotifyRecord(out) \in Messages
  <2>1. out \in Messages
    BY <1>3, <1>4, HeadTailProperties
  <2>2. QED
    BY <1>4, <2>1, MessageKinds
<1>6. pair \in Seq(Messages)
  BY <1>3, <1>5
<1>7. ToSet(copy[r]) \subseteq ToSet(msgs) /\ out \in ToSet(msgs)
  <2>1. PICK old : old = copy[r]
    OBVIOUS
  <2>2. old \in Seq(Messages) /\ pair \in Seq(Messages) /\ msgs = old \o pair
    BY <1>3, <1>4, <1>6, <2>1
  <2>3. ToSet(old \o pair) = ToSet(old) \cup ToSet(pair)
    BY <2>2, ToSetConcat
  <2>4. out \in ToSet(pair)
    <3>1. Len(pair) = 2 /\ pair[1] = out
      BY <1>3
    <3>2. ToSet(pair) = {pair[i] : i \in 1..Len(pair)}
      BY <1>6, InSeq
    <3>3. QED
      BY <3>1, <3>2
  <2>5. QED
    BY <2>1, <2>2, <2>3, <2>4
<1>8. Overwrite(out.to, copy[r], msgs)
  BY <1>3 DEF WriteTarget
<1>9. /\ tainted \subseteq tainted'
      /\ \A x \in Sessions : x \notin tainted' => ToSet(store[x]) \subseteq ToSet(store'[x])
  BY <1>5, <1>7, <1>8, OverwriteKeeps DEF LoopInv
<1>10. Arrivals
  <2>1. arrived' = IF store'[out.to] = msgs THEN arrived \cup {out} ELSE arrived
    BY <1>3 DEF WriteTarget
  <2>2. store'[out.to] = msgs => out \in ToSet(store'[out.to])
    BY <1>7
  <2>3. out.to \in tainted' \/ Holders(out.to) = {}
    BY <1>8 DEF Overwrite, Overwritten
  <2>4. QED
    BY <2>1, <2>2, <2>3 DEF Arrivals
<1>11. QED
  BY <1>1, <1>2, <1>9, <1>10, AfterStop

LEMMA OpenSessionKeeps ==
  ASSUME LoopInv, LoopInv', KeepInv, SessionAssumption, NEW r \in Runs, OpenSession(r)
  PROVE  KeepInv'
<1>1. /\ pc[r] = "start" /\ pc' = [pc EXCEPT ![r] = "replay"]
      /\ UNCHANGED <<store, archive, outcome, command, ready, executed, recorded, arrived>>
  BY DEF OpenSession, At, Goto, stores
<1>2. PICK s, old, todo :
        /\ s \in Sessions /\ s = SessionOf[r] /\ old = store[s]
        /\ loop' = [loop EXCEPT ![r].todo = todo]
        /\ \/ /\ todo = Append(old, User(r))
              /\ opened' = opened \cup {r}
              /\ cached' = [cached EXCEPT ![r] = old]
              /\ snapshot' = [snapshot EXCEPT ![r] = old]
              /\ history' = [history EXCEPT ![r] = old]
              /\ tainted' = IF Holders(s) = {} THEN tainted ELSE tainted \cup {s}
           \/ /\ tainted' = tainted \cup {s}
              /\ UNCHANGED <<opened, cached, snapshot, history>>
  BY DEF OpenSession, SessionAssumption
<1>3. old \in Seq(Messages) /\ User(r) \in Messages
  BY <1>2, MessageTypes DEF LoopInv, TypeOK
<1>4. Entry(r)
  BY DEF KeepInv, EntryInv
<1>5. /\ r \notin opened /\ r \notin ready /\ history[r] = <<>> /\ loop[r].log = <<>>
      /\ \A c \in executed : c[1] # r
  BY <1>1, <1>4 DEF Entry
<1>6. /\ \A q \in Runs \ {r} :
           /\ pc'[q] = pc[q] /\ loop'[q] = loop[q] /\ cached'[q] = cached[q]
           /\ snapshot'[q] = snapshot[q] /\ outcome'[q] = outcome[q] /\ history'[q] = history[q]
           /\ q \in opened' <=> q \in opened
           /\ q \in ready' <=> q \in ready
      /\ pc'[r] = "replay"
      /\ tainted \subseteq tainted'
  <2>1. /\ pc'[r] = "replay" /\ tainted \subseteq tainted'
        /\ \A q \in Runs \ {r} : pc'[q] = pc[q] /\ loop'[q] = loop[q]
        /\ outcome' = outcome /\ ready' = ready
    BY <1>1, <1>2 DEF LoopInv, TypeOK
  <2>2. ASSUME NEW q \in Runs \ {r}
        PROVE  cached'[q] = cached[q] /\ snapshot'[q] = snapshot[q] /\ history'[q] = history[q]
    <3>1. /\ cached' = [cached EXCEPT ![r] = old] \/ cached' = cached
          /\ snapshot' = [snapshot EXCEPT ![r] = old] \/ snapshot' = snapshot
          /\ history' = [history EXCEPT ![r] = old] \/ history' = history
      BY <1>2
    <3>2. DOMAIN cached = Runs /\ DOMAIN snapshot = Runs /\ DOMAIN history = Runs
      BY DEF LoopInv, TypeOK
    <3>3. QED
      BY <3>1, <3>2
  <2>3. \A q \in Runs \ {r} : q \in opened' <=> q \in opened
    BY <1>2
  <2>4. QED
    BY <2>1, <2>2, <2>3
<1>7. loop'[r].log = <<>> /\ loop'[r].todo = todo
  BY <1>2, <1>5, LoopFields DEF LoopInv, TypeOK, Loops
<1>8. Entry(r)'
  BY <1>1, <1>2, <1>5, <1>6 DEF Entry, TurnPhases
<1>9. Owed(s)' \subseteq Owed(s)
  <2>1. \A q \in Runs : Delivered(q)' => Delivered(q) /\ q # r
    BY <1>6 DEF Delivered
  <2>2. executed' \subseteq CallIds
    BY DEF LoopInv, TypeOK
  <2>3. /\ \A x \in ready' \ ready : SessionOf[x] = s => User(x) \in {}
        /\ \A x \in recorded' \ recorded : x[1] = s => CommandInput(x[2]) \in {}
        /\ \A m \in arrived' \ arrived : m.to = s => m \in {}
        /\ \A c \in executed' : SessionOf[c[1]] = s /\ Delivered(c[1])' =>
             (c \in executed /\ Delivered(c[1])) \/ ToolResult(c) \in {}
    BY <1>1, <2>1, <2>2, CallRun
  <2>4. Owed(s)' \subseteq Owed(s) \cup {}
    BY <2>3, OwedStep
  <2>5. QED
    BY <2>4
<1>10. \A p \in Runs : SessionOf[p] = s /\ history'[p] = <<>> => history[p] = <<>>
  BY <1>5, <1>6
<1>11. SessionKept(s)
  BY <1>2 DEF KeepInv, SessionInv
<1>12. SessionKept(s)'
  BY <1>1, <1>6, <1>9, <1>10, <1>11, SessionFrame
<1>13. ASSUME r \in opened'
       PROVE  Held(r)'
  <2>1. /\ todo = Append(old, User(r))
        /\ cached'[r] = old /\ snapshot'[r] = old /\ history'[r] = old
    <3>1. /\ todo = Append(old, User(r))
          /\ cached' = [cached EXCEPT ![r] = old]
          /\ snapshot' = [snapshot EXCEPT ![r] = old]
          /\ history' = [history EXCEPT ![r] = old]
      BY <1>2, <1>5, <1>13
    <3>2. QED
      BY <3>1 DEF LoopInv, TypeOK
  <2>2. s \notin tainted' /\ (\A p \in Runs \ {r} : SessionOf[p] = s => history'[p] = <<>>)
          => Owed(s)' \subseteq ToSet(old) \cup archive'[s]
    <3>1. ASSUME s \notin tainted', \A p \in Runs \ {r} : SessionOf[p] = s => history'[p] = <<>>
          PROVE  Calm(s)
      BY <1>5, <1>6, <3>1 DEF Calm
    <3>2. Calm(s) => Owed(s) \subseteq ToSet(old) \cup archive[s]
      BY <1>2, <1>11 DEF SessionKept, Kept
    <3>3. QED
      BY <1>1, <1>9, <3>1, <3>2
  <2>3. ReplayKeeps(r)'
    <3>1. <<>> \o todo = Append(old, User(r))
      <4>1. todo \in Seq(Messages)
        BY <1>3, <2>1, AppendProperties
      <4>2. QED
        BY <2>1, <4>1, ConcatEmptySeq
    <3>2. loop'[r].log \o loop'[r].todo = Append(history'[r], User(r))
      BY <1>7, <2>1, <3>1
    <3>3. CalmBut(s, r)' => Owed(s)' \subseteq ToSet(history'[r]) \cup archive'[s]
      BY <2>1, <2>2 DEF CalmBut
    <3>4. QED
      BY <1>2, <3>2, <3>3 DEF ReplayKeeps
  <2>4. CacheKeeps(r)'
    <3>1. ASSUME Calm(s)'
          PROVE  Owed(s)' \subseteq archive'[s]
      <4>1. history'[r] = <<>> /\ s \notin tainted' /\ \A p \in Runs \ {r} : SessionOf[p] = s => history'[p] = <<>>
        BY <1>2, <3>1 DEF Calm
      <4>2. ToSet(old) = {}
        BY <2>1, <4>1 DEF ToSet
      <4>3. QED
        BY <2>2, <4>1, <4>2
    <3>2. pc'[r] \notin TurnPhases
      BY <1>6 DEF TurnPhases
    <3>3. QED
      BY <1>2, <3>1, <3>2 DEF CacheKeeps
  <2>5. ResultsKept(r)'
    BY <1>6 DEF ResultsKept, TurnPhases
  <2>6. QED
    BY <2>3, <2>4, <2>5 DEF Held
<1>14. /\ \A x \in Sessions : archive[x] \subseteq archive'[x]
       /\ \A x \in Sessions \ {SessionOf[r]} : x \notin tainted' => ToSet(store[x]) \subseteq ToSet(store'[x])
       /\ \A c \in executed' \ executed : c[1] = r
       /\ recorded' = recorded /\ command' = command /\ Arrivals
       /\ executed' \subseteq CallIds /\ ready' \subseteq Runs /\ opened' \subseteq Runs
  BY <1>1 DEF LoopInv, TypeOK, Arrivals
<1>15. /\ \A c \in executed' : c[1] = r /\ Delivered(r)' => c \in executed /\ Delivered(r)
       /\ r \in ready' => r \in ready
       /\ history'[r] = <<>> => history[r] = <<>>
  BY <1>1, <1>5
<1>16. r \in opened' /\ Live(r)' =>
         \/ r \in opened /\ Live(r)
         \/ Holders(SessionOf[r]) = {}
         \/ SessionOf[r] \in tainted'
  BY <1>2, <1>5
<1>17. SessionKept(SessionOf[r])'
  BY <1>2, <1>12
<1>18. QED
  BY <1>6, <1>8, <1>13, <1>14, <1>15, <1>16, <1>17, DriverFrame

------------------------------------------------------------------------------
(* Appending to the log *)

(* One append in the words of the invariant: the log of r grows by the head *)
(* of what is to be appended, the hook caches it, and writes it if it ends  *)
(* in input.                                                                *)
AppendStep(r, s, log, todo) ==
  /\ pc[r] \in AppendPhases
  /\ log \in Seq(Messages) /\ todo \in Seq(Messages)
  /\ UNCHANGED <<archive, opened, command, executed, recorded, arrived>>
  /\ r \in opened => cached'[r] = log
  /\ r \in opened /\ is_error_safe_log(log) =>
       snapshot'[r] = log /\ (store'[s] = log \/ s \in tainted')
  /\ ~(r \in opened /\ is_error_safe_log(log)) =>
       UNCHANGED <<snapshot, store, tainted>>
  /\ tainted \subseteq tainted'
  /\ \A x \in Sessions \ {s} : store'[x] = store[x]
  /\ \A q \in Runs \ {r} :
       /\ pc'[q] = pc[q] /\ loop'[q] = loop[q] /\ cached'[q] = cached[q]
       /\ snapshot'[q] = snapshot[q] /\ outcome'[q] = outcome[q] /\ history'[q] = history[q]
  /\ todo # <<>> => /\ pc'[r] = pc[r] /\ loop'[r].log = log /\ loop'[r].todo = todo
                    /\ UNCHANGED <<ready, history>>
  /\ todo = <<>> =>
       /\ pc'[r] \in {"turn", "tool", "stop"}
       /\ pc[r] = "replay" => pc'[r] = "turn"
       /\ pc'[r] # "stop" => loop'[r].log = log /\ loop'[r].todo = <<>>
       /\ pc'[r] = "stop" => loop'[r].log = <<>> /\ loop'[r].todo = <<>>
       /\ ready' = ready \cup {r} /\ history'[r] = <<>>

LEMMA AppendShape ==
  ASSUME LoopInv, LoopInv', SessionAssumption, NEW r \in Runs, AppendMessage(r)
  PROVE  AppendStep(r, SessionOf[r], Append(loop[r].log, Head(loop[r].todo)), Tail(loop[r].todo))
<1>1. /\ pc[r] \in AppendPhases
      /\ UNCHANGED <<archive, opened, command, executed, recorded, arrived>>
  BY DEF AppendMessage, At, AppendPhases
<1> PICK s \in Sessions : s = SessionOf[r]
  BY DEF SessionAssumption
<1>2. PICK head, log, todo, next :
        /\ head = Head(loop[r].todo) /\ log = Append(loop[r].log, head)
        /\ todo = Tail(loop[r].todo) /\ next = AfterAppends(r)
  OBVIOUS
<1>3. /\ head \in Messages /\ log \in Seq(Messages) /\ todo \in Seq(Messages)
      /\ Len(loop[r].todo) = 1 <=> todo = <<>>
      /\ next \in {"turn", "tool", "stop"}
      /\ pc[r] = "replay" => next = "turn"
  BY <1>1, <1>2, AppendedIs
<1>5. /\ cached' = IF r \in opened THEN [cached EXCEPT ![r] = log] ELSE cached
      /\ IF r \in opened /\ is_error_safe_log(log)
         THEN snapshot' = [snapshot EXCEPT ![r] = log] /\ Save(s, log)
         ELSE UNCHANGED <<snapshot, store, budget, tainted>>
      /\ ready' = IF todo = <<>> THEN ready \cup {r} ELSE ready
      /\ history' = IF todo = <<>> THEN [history EXCEPT ![r] = <<>>] ELSE history
  BY <1>2, <1>3 DEF AppendMessage
<1>6. /\ r \in opened => cached'[r] = log
      /\ \A q \in Runs \ {r} : cached'[q] = cached[q]
  BY <1>5 DEF LoopInv, TypeOK
<1>7. /\ r \in opened /\ is_error_safe_log(log) => snapshot'[r] = log
      /\ \A q \in Runs \ {r} : snapshot'[q] = snapshot[q]
  BY <1>5 DEF LoopInv, TypeOK
<1>8. /\ r \in opened /\ is_error_safe_log(log) => store'[s] = log \/ s \in tainted'
      /\ ~(r \in opened /\ is_error_safe_log(log)) => UNCHANGED <<snapshot, store, tainted>>
      /\ tainted \subseteq tainted'
      /\ \A x \in Sessions \ {s} : store'[x] = store[x]
  <2>1. CASE r \in opened /\ is_error_safe_log(log)
    <3>1. \/ store' = [store EXCEPT ![s] = log] /\ tainted' = tainted
          \/ tainted' = tainted \cup {s} /\ store' = store
      BY <1>5, <2>1 DEF Save
    <3>2. QED
      BY <2>1, <3>1 DEF LoopInv, TypeOK
  <2>2. CASE ~(r \in opened /\ is_error_safe_log(log))
    BY <1>5, <2>2
  <2>3. QED
    BY <2>1, <2>2
<1>9. /\ \A q \in Runs \ {r} : history'[q] = history[q]
      /\ todo # <<>> => UNCHANGED <<ready, history>>
      /\ todo = <<>> => ready' = ready \cup {r} /\ history'[r] = <<>>
  BY <1>5 DEF LoopInv, TypeOK
<1>10. /\ \A q \in Runs \ {r} : pc'[q] = pc[q] /\ loop'[q] = loop[q] /\ outcome'[q] = outcome[q]
       /\ todo # <<>> => pc'[r] = pc[r] /\ loop'[r].log = log /\ loop'[r].todo = todo
       /\ todo = <<>> =>
            /\ pc'[r] = next
            /\ pc'[r] # "stop" => loop'[r].log = log /\ loop'[r].todo = <<>>
            /\ pc'[r] = "stop" => loop'[r].log = <<>> /\ loop'[r].todo = <<>>
  <2>1. PICK l : l = [loop[r] EXCEPT !.log = log, !.todo = todo]
    OBVIOUS
  <2>2. [loop[r] EXCEPT !.log = Append(loop[r].log, Head(loop[r].todo)), !.todo = Tail(@)] = l
    BY <1>2, <2>1
  <2>3. \/ /\ todo # <<>>
           /\ loop' = [loop EXCEPT ![r] = l]
           /\ UNCHANGED <<pc, outcome>>
        \/ /\ todo = <<>> /\ next = "stop"
           /\ Finish(r, "completed")
        \/ /\ todo = <<>> /\ next # "stop"
           /\ Goto(r, next)
           /\ loop' = [loop EXCEPT ![r] =
                         [l EXCEPT !.turn = IF pc[r] = "resolve" /\ next = "turn"
                                            THEN @ + 1 ELSE @]]
           /\ UNCHANGED outcome
    BY <1>2, <1>3, <2>2 DEF AppendMessage
  <2>4. l.log = log /\ l.todo = todo /\ l \in Loops
    BY <1>3, <2>1, LoopFields DEF Loops, LoopInv
  <2>5. CASE todo # <<>> /\ loop' = [loop EXCEPT ![r] = l] /\ UNCHANGED <<pc, outcome>>
    BY <2>4, <2>5 DEF LoopInv, TypeOK
  <2>6. CASE todo = <<>> /\ next = "stop" /\ Finish(r, "completed")
    BY <2>6 DEF Finish, Goto, NoLoop, LoopInv, TypeOK
  <2>7. ASSUME todo = <<>>, next # "stop", Goto(r, next), UNCHANGED outcome,
               NEW n, loop' = [loop EXCEPT ![r] = [l EXCEPT !.turn = n]]
        PROVE  /\ \A q \in Runs \ {r} : pc'[q] = pc[q] /\ loop'[q] = loop[q] /\ outcome'[q] = outcome[q]
               /\ pc'[r] = next
               /\ loop'[r].log = log /\ loop'[r].todo = <<>>
    <3>1. pc'[r] = next /\ \A q \in Runs \ {r} : pc'[q] = pc[q]
      BY <2>7 DEF Goto, LoopInv, TypeOK
    <3>2. loop'[r] = [l EXCEPT !.turn = n] /\ \A q \in Runs \ {r} : loop'[q] = loop[q]
      BY <2>7 DEF LoopInv, TypeOK
    <3>3. [l EXCEPT !.turn = n].log = log /\ [l EXCEPT !.turn = n].todo = todo
      BY <2>4 DEF Loops
    <3>4. QED
      BY <2>7, <3>1, <3>2, <3>3
  <2>8. QED
    BY <2>3, <2>5, <2>6, <2>7
<1>11. \A q \in Runs \ {r} :
         /\ pc'[q] = pc[q] /\ loop'[q] = loop[q] /\ cached'[q] = cached[q]
         /\ snapshot'[q] = snapshot[q] /\ outcome'[q] = outcome[q] /\ history'[q] = history[q]
  BY <1>6, <1>7, <1>9, <1>10
<1>12. /\ todo # <<>> => /\ pc'[r] = pc[r] /\ loop'[r].log = log /\ loop'[r].todo = todo
                         /\ UNCHANGED <<ready, history>>
       /\ todo = <<>> =>
            /\ pc'[r] \in {"turn", "tool", "stop"}
            /\ pc[r] = "replay" => pc'[r] = "turn"
            /\ pc'[r] # "stop" => loop'[r].log = log /\ loop'[r].todo = <<>>
            /\ pc'[r] = "stop" => loop'[r].log = <<>> /\ loop'[r].todo = <<>>
            /\ ready' = ready \cup {r} /\ history'[r] = <<>>
  BY <1>3, <1>9, <1>10
<1>13. /\ r \in opened => cached'[r] = log
       /\ r \in opened /\ is_error_safe_log(log) =>
            snapshot'[r] = log /\ (store'[s] = log \/ s \in tainted')
       /\ ~(r \in opened /\ is_error_safe_log(log)) =>
            UNCHANGED <<snapshot, store, tainted>>
       /\ tainted \subseteq tainted'
       /\ \A x \in Sessions \ {s} : store'[x] = store[x]
  BY <1>6, <1>7, <1>8
<1>14. AppendStep(r, s, log, todo)
  BY <1>1, <1>3, <1>11, <1>12, <1>13 DEF AppendStep
<1>15. QED
  BY <1>2, <1>14

(* A session whose store is left alone, or replaced by a log that holds     *)
(* what is owed.                                                            *)
LEMMA SavedOrLeft ==
  ASSUME NEW s \in Sessions, SessionKept(s), NEW log,
         archive' = archive, tainted \subseteq tainted',
         store'[s] = log \/ store'[s] = store[s] \/ s \in tainted',
         store'[s] = store[s] /\ s \notin tainted' =>
           /\ Owed(s)' \subseteq Owed(s)
           /\ \A p \in Runs : SessionOf[p] = s /\ history'[p] = <<>> => history[p] = <<>>,
         Calm(s)' /\ store'[s] = log => Owed(s)' \subseteq ToSet(log) \cup archive[s]
  PROVE  SessionKept(s)'
<1>1. CASE s \in tainted'
  BY <1>1 DEF SessionKept, Calm
<1>2. CASE store'[s] = log
  BY <1>2 DEF SessionKept, Kept
<1>3. CASE store'[s] = store[s] /\ s \notin tainted'
  BY <1>3, SessionFrame
<1>4. QED
  BY <1>1, <1>2, <1>3

(* Appending the messages of a turn: what is owed does not change, and the  *)
(* log, the cache and the snapshot only grow.                               *)
LEMMA AppendTurn ==
  ASSUME LoopInv, LoopInv', KeepInv, SessionAssumption, NEW r \in Runs, AppendMessage(r),
         pc[r] \in TurnPhases, NEW s \in Sessions, s = SessionOf[r]
  PROVE  /\ ready' = ready /\ history' = history /\ Entry(r)' /\ SessionKept(s)'
         /\ r \in opened => Held(r)'
<1>1. PICK head, todo, log, old, rest :
        /\ head = Head(rest) /\ todo = Tail(rest) /\ log = Append(old, head)
        /\ old = loop[r].log /\ rest = loop[r].todo
  OBVIOUS
<1>2. AppendStep(r, s, log, todo)
  BY <1>1, AppendShape
<1>3. Entry(r)
  BY DEF KeepInv, EntryInv
<1>4. r \in ready /\ history[r] = <<>>
  BY <1>3 DEF Entry
<1>5. ready' = ready /\ history' = history
  <2>1. ready' = ready
    BY <1>2, <1>4 DEF AppendStep
  <2>2. \A p \in Runs : history'[p] = history[p]
    BY <1>2, <1>4 DEF AppendStep
  <2>3. QED
    BY <2>1, <2>2 DEF LoopInv, TypeOK
<1>6. pc[r] \in {"answer", "resolve"} /\ pc'[r] \in {"answer", "resolve", "turn", "tool", "stop"}
  BY <1>2 DEF AppendStep, AppendPhases, TurnPhases
<1>7. Entry(r)'
  BY <1>2, <1>3, <1>4, <1>5, <1>6 DEF AppendStep, Entry, TurnPhases
<1>8. Owed(s)' \subseteq Owed(s)
  <2>1. \A q \in Runs : Delivered(q)' => Delivered(q) /\ q # r
    BY <1>2, <1>6 DEF AppendStep, Delivered
  <2>2. executed' \subseteq CallIds
    BY DEF LoopInv, TypeOK
  <2>3. /\ \A x \in ready' \ ready : SessionOf[x] = s => User(x) \in {}
        /\ \A x \in recorded' \ recorded : x[1] = s => CommandInput(x[2]) \in {}
        /\ \A m \in arrived' \ arrived : m.to = s => m \in {}
        /\ \A c \in executed' : SessionOf[c[1]] = s /\ Delivered(c[1])' =>
             (c \in executed /\ Delivered(c[1])) \/ ToolResult(c) \in {}
    BY <1>2, <1>5, <2>1, <2>2, CallRun DEF AppendStep
  <2>4. Owed(s)' \subseteq Owed(s) \cup {}
    BY <2>3, OwedStep
  <2>5. QED
    BY <2>4
<1>9. Calm(s)' => Calm(s)
  BY <1>2, <1>5 DEF AppendStep, Calm
<1>10. /\ old \in Seq(Messages) /\ rest \in Seq(Messages) /\ rest # <<>>
  BY <1>1, <1>2, AppendedIs, LoopFields DEF LoopInv, AppendStep
<1>11. /\ ToSet(log) = ToSet(old) \cup {head}
       /\ ToSet(safe_prefix(old)) \subseteq ToSet(safe_prefix(log))
       /\ ToSet(safe_prefix(log)) \subseteq ToSet(log)
  <2>1. ToSet(log) = ToSet(old) \cup {head}
    BY <1>1, <1>2, <1>10, ToSetAppend
  <2>2. ToSet(safe_prefix(old)) \subseteq ToSet(safe_prefix(log))
    BY <1>1, <1>2, <1>10, SafePrefixGrows
  <2>3. ToSet(safe_prefix(log)) \subseteq ToSet(log)
    BY <1>2, SafePrefixIs DEF AppendStep
  <2>4. QED
    BY <2>1, <2>2, <2>3
<1>12. ToSet(rest) \subseteq {head} \cup ToSet(todo)
  <2>1. ToSet(rest) = {rest[i] : i \in 1..Len(rest)} /\ Len(rest) \in Nat
    BY <1>10, InSeq
  <2>2. ToSet(todo) = {todo[i] : i \in 1..Len(todo)}
    BY <1>2, InSeq DEF AppendStep
  <2>3. head = rest[1] /\ Len(todo) = Len(rest) - 1 /\ \A i \in 1..Len(todo) : todo[i] = rest[i + 1]
    BY <1>1, <1>10, HeadTailProperties
  <2>4. ASSUME NEW i \in 1..Len(rest)
        PROVE  rest[i] \in {head} \cup ToSet(todo)
    <3>1. CASE i = 1
      BY <2>3, <3>1
    <3>2. CASE i # 1
      <4>1. i - 1 \in 1..Len(todo) /\ (i - 1) + 1 = i
        BY <2>1, <2>3, <3>2
      <4>2. todo[i - 1] = rest[i]
        BY <2>3, <4>1
      <4>3. QED
        BY <2>2, <4>1, <4>2
    <3>3. QED
      BY <3>1, <3>2
  <2>5. QED
    BY <2>1, <2>4
<1>13. ASSUME r \in opened
       PROVE  Held(r)'
  <2>1. Held(r) /\ Live(r)
    BY <1>6, <1>13 DEF KeepInv, HeldInv, Live, LivePhases, InnerPhases
  <2>2. ReplayKeeps(r)'
    BY <1>6 DEF ReplayKeeps
  <2>3. CacheKeeps(r)'
    <3>1. ASSUME Calm(s)'
          PROVE  /\ Owed(s) \subseteq ToSet(safe_prefix(log)) \cup archive[s]
                 /\ Owed(s) \subseteq ToSet(snapshot[r]) \cup archive[s]
      <4>1. /\ Owed(s) \subseteq ToSet(safe_prefix(old)) \cup archive[s]
            /\ Owed(s) \subseteq ToSet(snapshot[r]) \cup archive[s]
        BY <1>1, <1>9, <2>1, <3>1 DEF Held, CacheKeeps
      <4>2. QED
        BY <1>11, <4>1
    <3>2. snapshot'[r] = log \/ snapshot'[r] = snapshot[r]
      BY <1>2 DEF AppendStep
    <3>3. pc'[r] \in TurnPhases => loop'[r].log = log
      BY <1>2 DEF AppendStep, TurnPhases, InnerPhases
    <3>4. Calm(s)' => /\ Owed(s)' \subseteq ToSet(safe_prefix(cached'[r])) \cup archive'[s]
                      /\ Owed(s)' \subseteq ToSet(snapshot'[r]) \cup archive'[s]
                      /\ pc'[r] \in TurnPhases => Owed(s)' \subseteq ToSet(safe_prefix(loop'[r].log)) \cup archive'[s]
      BY <1>2, <1>8, <1>11, <1>13, <3>1, <3>2, <3>3 DEF AppendStep
    <3>5. QED
      BY <3>4 DEF CacheKeeps
  <2>4. ResultsKept(r)'
    <3>1. Own(r) \subseteq ToSet(log) \cup ToSet(todo) \cup archive[s]
      <4>1. Own(r) \subseteq ToSet(old) \cup ToSet(rest) \cup archive[s]
        BY <1>1, <2>1 DEF Held, ResultsKept
      <4>2. QED
        BY <1>11, <1>12, <4>1
    <3>2. Own(r)' = Own(r) /\ archive' = archive /\ cached'[r] = log
      BY <1>2, <1>13 DEF AppendStep, Own
    <3>3. CASE todo # <<>>
      BY <1>2, <1>6, <3>1, <3>2, <3>3 DEF AppendStep, ResultsKept
    <3>4. CASE todo = <<>>
      <4>1. Own(r) \subseteq ToSet(log) \cup archive[s]
        BY <3>1, <3>4 DEF ToSet
      <4>2. pc'[r] # "summarize"
        BY <1>6
      <4>3. pc'[r] \in TurnPhases => loop'[r].log = log
        BY <1>2 DEF AppendStep, TurnPhases, InnerPhases
      <4>4. QED
        BY <3>2, <4>1, <4>2, <4>3 DEF ResultsKept
    <3>5. QED
      BY <3>3, <3>4
  <2>5. QED
    BY <2>2, <2>3, <2>4 DEF Held
<1>14. SessionKept(s)'
  <2>1. SessionKept(s)
    BY DEF KeepInv, SessionInv
  <2>2. store'[s] = log \/ store'[s] = store[s] \/ s \in tainted'
    BY <1>2 DEF AppendStep
  <2>3. CASE r \in opened
    <3>1. Calm(s)' => Owed(s)' \subseteq ToSet(safe_prefix(cached'[r])) \cup archive'[s]
            \/ ~Live(r)'
      BY <1>13, <2>3 DEF Held, CacheKeeps
    <3>2. Live(r)'
      BY <1>6 DEF Live, LivePhases, InnerPhases, FinalPhases
    <3>3. Calm(s)' => Owed(s)' \subseteq ToSet(log) \cup archive[s]
      BY <1>2, <1>11, <2>3, <3>1, <3>2 DEF AppendStep
    <3>4. QED
      BY <1>2, <1>5, <1>8, <2>1, <2>2, <3>3, SavedOrLeft DEF AppendStep
  <2>4. CASE r \notin opened
    <3>1. store' = store
      BY <1>2, <2>4 DEF AppendStep
    <3>2. QED
      BY <1>2, <1>5, <1>8, <2>1, <3>1, SessionFrame DEF AppendStep
  <2>5. QED
    BY <2>3, <2>4
<1>15. QED
  BY <1>5, <1>7, <1>13, <1>14

LEMMA SeqDecomposes ==
  ASSUME NEW S, NEW q \in Seq(S), q # <<>>
  PROVE  q = <<Head(q)>> \o Tail(q)
<1>1. PICK h, t : h = Head(q) /\ t = Tail(q)
  OBVIOUS
<1>2. /\ h = q[1] /\ h \in S /\ t \in Seq(S)
      /\ Len(t) = Len(q) - 1 /\ Len(q) \in Nat
      /\ \A i \in 1..Len(t) : t[i] = q[i + 1]
  BY <1>1, HeadTailProperties, LenProperties
<1>3. PICK u : u = <<h>>
  OBVIOUS
<1>4. u \in Seq(S) /\ Len(u) = 1 /\ u[1] = h
  BY <1>2, <1>3
<1>5. /\ u \o t \in Seq(S) /\ Len(u \o t) = Len(u) + Len(t)
      /\ \A i \in 1 .. Len(u) + Len(t) :
           (u \o t)[i] = IF i <= Len(u) THEN u[i] ELSE t[i - Len(u)]
  <2>1. u \in Seq(S) /\ t \in Seq(S)
    BY <1>2, <1>4
  <2>2. QED
    BY <2>1, ConcatProperties
<1>6. Len(u \o t) = Len(q)
  BY <1>2, <1>4, <1>5
<1>7. ASSUME NEW i \in 1..Len(q)
      PROVE  (u \o t)[i] = q[i]
  <2>1. CASE i = 1
    BY <1>2, <1>4, <1>5, <2>1
  <2>2. CASE i # 1
    <3>1. PICK j \in 1..Len(t) : i = j + 1
      <4>1. i - 1 \in 1..Len(t) /\ i = (i - 1) + 1
        BY <1>2, <2>2
      <4>2. QED
        BY <4>1
    <3>2. (u \o t)[i] = t[j]
      BY <1>2, <1>4, <1>5, <3>1
    <3>3. QED
      BY <1>2, <3>1, <3>2
  <2>3. QED
    BY <2>1, <2>2
<1>8. u \o t = q
  BY <1>5, <1>6, <1>7, SeqEqual
<1>9. QED
  BY <1>1, <1>3, <1>8

(* The replay goes on: no history of the session is replayed yet. *)
LEMMA AppendReplay ==
  ASSUME LoopInv, LoopInv', KeepInv, SessionAssumption, NEW r \in Runs, AppendMessage(r),
         pc[r] = "replay", Tail(loop[r].todo) # <<>>, NEW s \in Sessions, s = SessionOf[r]
  PROVE  /\ ready' = ready /\ history' = history /\ Entry(r)' /\ SessionKept(s)'
         /\ r \in opened => Held(r)'
<1>1. PICK head, todo, log, old, rest :
        /\ head = Head(rest) /\ todo = Tail(rest) /\ log = Append(old, head)
        /\ old = loop[r].log /\ rest = loop[r].todo
  OBVIOUS
<1>2. AppendStep(r, s, log, todo)
  BY <1>1, AppendShape
<1>3. Entry(r)
  BY DEF KeepInv, EntryInv
<1>4. /\ pc'[r] = "replay" /\ loop'[r].log = log /\ loop'[r].todo = todo
      /\ ready' = ready /\ history' = history
      /\ tainted \subseteq tainted' /\ archive' = archive
      /\ UNCHANGED <<opened, executed, recorded, arrived>>
      /\ \A q \in Runs \ {r} : pc'[q] = pc[q] /\ outcome'[q] = outcome[q]
      /\ log \in Seq(Messages) /\ todo \in Seq(Messages)
      /\ pc[r] \in AppendPhases
  BY <1>1, <1>2 DEF AppendStep
<1>5. Entry(r)'
  BY <1>3, <1>4 DEF Entry, TurnPhases
<1>6. Owed(s)' \subseteq Owed(s)
  <2>1. \A q \in Runs : Delivered(q)' => Delivered(q) /\ q # r
    BY <1>4 DEF Delivered
  <2>2. executed' \subseteq CallIds
    BY DEF LoopInv, TypeOK
  <2>3. /\ \A x \in ready' \ ready : SessionOf[x] = s => User(x) \in {}
        /\ \A x \in recorded' \ recorded : x[1] = s => CommandInput(x[2]) \in {}
        /\ \A m \in arrived' \ arrived : m.to = s => m \in {}
        /\ \A c \in executed' : SessionOf[c[1]] = s /\ Delivered(c[1])' =>
             (c \in executed /\ Delivered(c[1])) \/ ToolResult(c) \in {}
    BY <1>4, <2>1, <2>2, CallRun
  <2>4. Owed(s)' \subseteq Owed(s) \cup {}
    BY <2>3, OwedStep
  <2>5. QED
    BY <2>4
<1>7. old \in Seq(Messages) /\ rest \in Seq(Messages) /\ rest # <<>> /\ head \in Messages
  BY <1>1, <1>4, AppendedIs, LoopFields DEF LoopInv
<1>8. ASSUME r \in opened
      PROVE  Held(r)' /\ SessionKept(s)'
  <2>1. Held(r)
    BY <1>8 DEF KeepInv, HeldInv
  <2>2. PICK past : past = history[r]
    OBVIOUS
  <2>3. /\ old \o rest = Append(past, User(r))
        /\ CalmBut(s, r) => Owed(s) \subseteq ToSet(past) \cup archive[s]
    BY <1>1, <2>1, <2>2 DEF Held, ReplayKeeps
  <2>4. past \in Seq(Messages) /\ User(r) \in Messages
    BY <2>2, MessageTypes, ValueTypes DEF LoopInv
  <2>5. log \o todo = old \o rest
    <3>1. rest = <<head>> \o todo
      BY <1>1, <1>7, SeqDecomposes
    <3>2. <<head>> \in Seq(Messages) /\ log = old \o <<head>>
      <4>1. <<head>> \in Seq(Messages)
        BY <1>7
      <4>2. Append(old, head) = old \o <<head>>
        BY <1>7, AppendIsConcat
      <4>3. QED
        BY <1>1, <4>1, <4>2
    <3>3. (old \o <<head>>) \o todo = old \o (<<head>> \o todo)
      BY <1>4, <1>7, <3>2, ConcatAssociative, SMTT(30)
    <3>4. QED
      BY <3>1, <3>2, <3>3
  <2>6. past # <<>>
    <3>1. Len(rest) \in Nat /\ Len(rest) >= 2 /\ Len(old) \in Nat
      <4>1. Len(todo) \in Nat /\ Len(todo) # 0 /\ Len(rest) \in Nat /\ Len(old) \in Nat
        BY <1>1, <1>4, <1>7, EmptySeq, LenProperties
      <4>2. Len(todo) = Len(rest) - 1
        BY <1>1, <1>7, HeadTailProperties
      <4>3. QED
        BY <4>1, <4>2
    <3>2. Len(Append(past, User(r))) = Len(past) + 1 /\ Len(old \o rest) = Len(old) + Len(rest)
      BY <1>7, <2>4, AppendProperties, ConcatProperties
    <3>3. Len(past) # 0
      BY <2>3, <2>4, <3>1, <3>2, LenProperties
    <3>4. QED
      BY <3>3
  <2>7. history'[r] = past /\ ~Calm(s)'
    BY <1>4, <2>2, <2>6 DEF Calm
  <2>8. ReplayKeeps(r)'
    <3>1. CalmBut(s, r)' => CalmBut(s, r)
      BY <1>4 DEF CalmBut
    <3>2. CalmBut(s, r)' => Owed(s)' \subseteq ToSet(history'[r]) \cup archive'[s]
      BY <1>4, <1>6, <2>3, <2>7, <3>1
    <3>3. loop'[r].log \o loop'[r].todo = Append(history'[r], User(r))
      BY <1>4, <2>3, <2>5, <2>7
    <3>4. QED
      BY <3>2, <3>3 DEF ReplayKeeps
  <2>9. CacheKeeps(r)' /\ SessionKept(s)'
    BY <2>7 DEF CacheKeeps, SessionKept
  <2>10. ResultsKept(r)'
    BY <1>4 DEF ResultsKept, TurnPhases
  <2>11. QED
    BY <2>8, <2>9, <2>10 DEF Held
<1>9. ASSUME r \notin opened
      PROVE  SessionKept(s)'
  <2>1. store' = store
    BY <1>2, <1>9 DEF AppendStep
  <2>2. SessionKept(s)
    BY DEF KeepInv, SessionInv
  <2>3. QED
    BY <1>4, <1>6, <2>1, <2>2, SessionFrame
<1>10. QED
  BY <1>4, <1>5, <1>8, <1>9

(* The replay is over: what is owed is what was before, and the prompt of r. *)
LEMMA AppendPrompt ==
  ASSUME LoopInv, LoopInv', KeepInv, SessionAssumption, NEW r \in Runs, AppendMessage(r),
         pc[r] = "replay", Tail(loop[r].todo) = <<>>, NEW s \in Sessions, s = SessionOf[r]
  PROVE  /\ r \notin opened => s \in tainted'
         /\ Entry(r)' /\ SessionKept(s)'
         /\ r \in opened => Held(r)'
<1>1. PICK head, todo, log, old, rest :
        /\ head = Head(rest) /\ todo = Tail(rest) /\ log = Append(old, head)
        /\ old = loop[r].log /\ rest = loop[r].todo
  OBVIOUS
<1>2. AppendStep(r, s, log, todo)
  BY <1>1, AppendShape
<1>3. Entry(r)
  BY DEF KeepInv, EntryInv
<1>4. /\ pc'[r] = "turn" /\ loop'[r].log = log /\ loop'[r].todo = <<>>
      /\ ready' = ready \cup {r} /\ history'[r] = <<>>
      /\ tainted \subseteq tainted' /\ archive' = archive
      /\ UNCHANGED <<opened, executed, recorded, arrived>>
      /\ \A q \in Runs \ {r} : /\ pc'[q] = pc[q] /\ outcome'[q] = outcome[q]
                               /\ history'[q] = history[q]
      /\ log \in Seq(Messages) /\ todo = <<>>
      /\ pc[r] \in AppendPhases
  BY <1>1, <1>2 DEF AppendStep
<1>5. r \notin opened => s \in tainted'
  <2>1. r \notin opened => s \in tainted
    BY <1>3 DEF Entry
  <2>2. QED
    BY <1>4, <2>1
<1>6. Entry(r)'
  <2>1. pc'[r] \notin {"idle", "start", "replay", "refused", "fan", "fanwrite", "send", "sent", "stop"}
    BY <1>4
  <2>2. QED
    BY <1>4, <1>5, <2>1 DEF Entry
<1>7. Owed(s)' \subseteq Owed(s) \cup {User(r)}
  <2>1. \A q \in Runs : Delivered(q)' => Delivered(q) /\ q # r
    BY <1>4 DEF Delivered
  <2>2. executed' \subseteq CallIds
    BY DEF LoopInv, TypeOK
  <2>3. /\ \A x \in ready' \ ready : SessionOf[x] = s => User(x) \in {User(r)}
        /\ \A x \in recorded' \ recorded : x[1] = s => CommandInput(x[2]) \in {User(r)}
        /\ \A m \in arrived' \ arrived : m.to = s => m \in {User(r)}
        /\ \A c \in executed' : SessionOf[c[1]] = s /\ Delivered(c[1])' =>
             (c \in executed /\ Delivered(c[1])) \/ ToolResult(c) \in {User(r)}
    BY <1>4, <2>1, <2>2, CallRun
  <2>4. QED
    BY <2>3, OwedStep
<1>8. ASSUME r \in opened
      PROVE  Held(r)' /\ SessionKept(s)'
  <2>1. Held(r)
    BY <1>8 DEF KeepInv, HeldInv
  <2>2. PICK past : past = history[r]
    OBVIOUS
  <2>3. past \in Seq(Messages) /\ User(r) \in Messages
    BY <2>2, MessageTypes, ValueTypes DEF LoopInv
  <2>4. log = Append(past, User(r))
    <3>1. old \in Seq(Messages) /\ rest \in Seq(Messages) /\ rest # <<>>
      BY <1>1, <1>4, AppendedIs, LoopFields DEF LoopInv
    <3>2. rest = <<head>>
      <4>1. Len(rest) = 1
        BY <1>1, <1>4, AppendedIs
      <4>2. QED
        BY <1>1, <3>1, <4>1, HeadTailProperties
    <3>3. head \in Messages
      BY <1>1, <3>1, HeadTailProperties
    <3>4. old \o <<head>> = Append(old, head)
      BY <3>1, <3>3, AppendIsConcat
    <3>5. old \o rest = Append(past, User(r))
      BY <1>1, <2>1, <2>2 DEF Held, ReplayKeeps
    <3>6. QED
      BY <1>1, <3>2, <3>4, <3>5
  <2>5. ToSet(log) = ToSet(past) \cup {User(r)}
    BY <2>3, <2>4, ToSetAppend
  <2>6. is_error_safe_log(log)
    <3>1. log # <<>> /\ Last(log) = User(r)
      BY <2>3, <2>4, AppendProperties, LenProperties DEF Last
    <3>2. IsInput(User(r))
      BY DEF IsInput, IsUser, User
    <3>3. QED
      BY <3>1, <3>2 DEF is_error_safe_log
  <2>7. ToSet(safe_prefix(log)) = ToSet(log)
    BY <1>4, <2>6, SafeLogIsPrefix
  <2>8. /\ cached'[r] = log /\ snapshot'[r] = log
        /\ store'[s] = log \/ s \in tainted'
    BY <1>2, <1>8, <2>6 DEF AppendStep
  <2>9. Calm(s)' => Owed(s)' \subseteq ToSet(log) \cup archive[s]
    <3>1. Calm(s)' => CalmBut(s, r)
      BY <1>4 DEF Calm, CalmBut
    <3>2. CalmBut(s, r) => Owed(s) \subseteq ToSet(past) \cup archive[s]
      BY <2>1, <2>2 DEF Held, ReplayKeeps
    <3>3. QED
      BY <1>7, <2>5, <3>1, <3>2
  <2>10. SessionKept(s)'
    <3>1. CASE store'[s] = log
      BY <1>4, <2>9, <3>1 DEF SessionKept, Kept
    <3>2. CASE s \in tainted'
      BY <3>2 DEF SessionKept, Calm
    <3>3. QED
      BY <2>8, <3>1, <3>2
  <2>11. ReplayKeeps(r)'
    BY <1>4 DEF ReplayKeeps
  <2>12. CacheKeeps(r)'
    <3>1. Calm(s)' => /\ Owed(s)' \subseteq ToSet(safe_prefix(cached'[r])) \cup archive'[s]
                      /\ Owed(s)' \subseteq ToSet(snapshot'[r]) \cup archive'[s]
                      /\ Owed(s)' \subseteq ToSet(safe_prefix(loop'[r].log)) \cup archive'[s]
      BY <1>4, <2>7, <2>8, <2>9
    <3>2. QED
      BY <3>1 DEF CacheKeeps
  <2>13. ResultsKept(r)'
    <3>1. Own(r)' = {}
      BY <1>3, <1>4 DEF Entry, Own
    <3>2. QED
      BY <1>4, <3>1 DEF ResultsKept
  <2>14. QED
    BY <2>10, <2>11, <2>12, <2>13 DEF Held
<1>9. ASSUME r \notin opened
      PROVE  SessionKept(s)'
  BY <1>5, <1>9 DEF SessionKept, Calm
<1>10. QED
  BY <1>5, <1>6, <1>8, <1>9

LEMMA AppendMessageKeeps ==
  ASSUME LoopInv, LoopInv', KeepInv, SessionAssumption, NEW r \in Runs, AppendMessage(r)
  PROVE  KeepInv'
<1>1. PICK s \in Sessions : s = SessionOf[r]
  BY DEF SessionAssumption
<1>2. PICK log, todo : /\ log = Append(loop[r].log, Head(loop[r].todo))
                       /\ todo = Tail(loop[r].todo)
  OBVIOUS
<1>3. AppendStep(r, s, log, todo)
  BY <1>1, <1>2, AppendShape
<1>4. pc[r] \in TurnPhases \/ pc[r] = "replay"
  BY <1>3 DEF AppendStep, AppendPhases, TurnPhases, InnerPhases
<1>5. /\ Entry(r)' /\ SessionKept(s)'
      /\ r \in opened => Held(r)'
      /\ \/ ready' = ready /\ history' = history
         \/ r \in opened
         \/ s \in tainted'
  <2>1. CASE pc[r] \in TurnPhases
    BY <1>1, <2>1, AppendTurn
  <2>2. CASE pc[r] = "replay" /\ todo # <<>>
    BY <1>1, <1>2, <2>2, AppendReplay
  <2>3. CASE pc[r] = "replay" /\ todo = <<>>
    BY <1>1, <1>2, <2>3, AppendPrompt
  <2>4. QED
    BY <1>4, <2>1, <2>2, <2>3
<1>6. Live(r) /\ ~Delivered(r)'
  BY <1>3 DEF AppendStep, AppendPhases, Live, LivePhases, InnerPhases, Delivered
<1>7. \A q \in Runs \ {r} :
        /\ pc'[q] = pc[q] /\ loop'[q] = loop[q] /\ cached'[q] = cached[q]
        /\ snapshot'[q] = snapshot[q] /\ outcome'[q] = outcome[q] /\ history'[q] = history[q]
        /\ q \in opened' <=> q \in opened
        /\ q \in ready' <=> q \in ready
  <2>1. \A q \in Runs \ {r} : q \in ready' <=> q \in ready
    BY <1>3 DEF AppendStep
  <2>2. QED
    BY <1>3, <2>1 DEF AppendStep
<1>8. /\ tainted \subseteq tainted'
      /\ \A x \in Sessions : archive[x] \subseteq archive'[x]
      /\ \A x \in Sessions \ {SessionOf[r]} : x \notin tainted' => ToSet(store[x]) \subseteq ToSet(store'[x])
      /\ \A c \in executed' \ executed : c[1] = r
      /\ recorded' = recorded /\ command' = command /\ Arrivals
      /\ executed' \subseteq CallIds /\ ready' \subseteq Runs /\ opened' \subseteq Runs
  BY <1>1, <1>3 DEF AppendStep, LoopInv, TypeOK, Arrivals
<1>9. \/ /\ \A c \in executed' : c[1] = r /\ Delivered(r)' => c \in executed /\ Delivered(r)
         /\ r \in ready' => r \in ready
         /\ history'[r] = <<>> => history[r] = <<>>
      \/ Live(r) /\ r \in opened
      \/ SessionOf[r] \in tainted'
  BY <1>1, <1>5, <1>6
<1>10. r \in opened' /\ Live(r)' =>
         \/ r \in opened /\ Live(r)
         \/ Holders(SessionOf[r]) = {}
         \/ SessionOf[r] \in tainted'
  BY <1>3, <1>6 DEF AppendStep
<1>11. r \in opened' => Held(r)'
  BY <1>3, <1>5 DEF AppendStep
<1>12. Entry(r)' /\ SessionKept(SessionOf[r])'
  BY <1>1, <1>5
<1>13. QED
  BY <1>7, <1>8, <1>9, <1>10, <1>11, <1>12, DriverFrame

------------------------------------------------------------------------------
(* on_stop *)

(* What each outcome keeps of the log. *)
LEMMA KeptLogHolds ==
  ASSUME LoopInv, SessionAssumption, NEW r \in Runs
  PROVE  /\ outcome[r] \in {"completed", "paused"} => ToSet(cached[r]) \subseteq ToSet(KeptLog(r))
         /\ outcome[r] = "failed" => \/ KeptLog(r) = snapshot[r]
                                     \/ KeptLog(r) = safe_prefix(cached[r])
<1>1. PICK old : old = cached[r] /\ old \in Seq(Messages)
  BY ValueTypes DEF LoopInv
<1>2. CASE outcome[r] = "completed"
  BY <1>2 DEF KeptLog
<1>3. CASE outcome[r] = "paused"
  <2>1. /\ \A m \in Messages : m.kind = "assistant" => m.calls \in Seq(CallIds)
        /\ \A c \in CallIds : Interrupted(c) \in Messages
    BY MessageTypes, MessageKinds DEF Responses
  <2>2. ToSet(old) \subseteq ToSet(repaired_paused_log(old))
    BY <1>1, <2>1, RepairedLogIs
  <2>3. KeptLog(r) = repaired_paused_log(old)
    BY <1>1, <1>3 DEF KeptLog
  <2>4. QED
    BY <1>1, <1>3, <2>2, <2>3
<1>4. CASE outcome[r] = "failed"
  BY <1>4 DEF KeptLog, longest_safe_prefix
<1>5. QED
  BY <1>2, <1>3, <1>4

LEMMA OnStopKeeps ==
  ASSUME LoopInv, LoopInv', KeepInv, SessionAssumption, NEW r \in Runs, OnStop(r)
  PROVE  KeepInv'
<1> PICK s \in Sessions : s = SessionOf[r]
  BY DEF SessionAssumption
<1>1. PICK kept : kept = KeptLog(r)
  OBVIOUS
<1>2. /\ pc[r] = "stop" /\ opened' = opened \ {r}
      /\ cached' = [cached EXCEPT ![r] = <<>>] /\ snapshot' = [snapshot EXCEPT ![r] = <<>>]
      /\ UNCHANGED <<archive, loop, outcome, command, history, ready, executed, recorded, arrived>>
      /\ r \in opened => Save(s, kept) /\ pc' = [pc EXCEPT ![r] = "fan"]
      /\ r \notin opened => UNCHANGED <<store, tainted>> /\ pc' = [pc EXCEPT ![r] = "send"]
  BY <1>1 DEF OnStop, Goto
<1>3. /\ \A q \in Runs \ {r} : cached'[q] = cached[q] /\ snapshot'[q] = snapshot[q]
      /\ \A q \in Runs \ {r} : pc'[q] = pc[q]
      /\ r \in opened => pc'[r] = "fan"
      /\ r \notin opened => pc'[r] = "send"
  BY <1>2 DEF LoopInv, TypeOK
<1>4. /\ tainted \subseteq tainted'
      /\ \A x \in Sessions \ {s} : store'[x] = store[x]
      /\ r \in opened => store'[s] = kept \/ s \in tainted'
      /\ r \notin opened => store' = store
  <2>1. CASE r \in opened
    <3>1. \/ store' = [store EXCEPT ![s] = kept] /\ tainted' = tainted
          \/ tainted' = tainted \cup {s} /\ store' = store
      BY <1>2, <2>1 DEF Save
    <3>2. QED
      BY <2>1, <3>1 DEF LoopInv, TypeOK
  <2>2. CASE r \notin opened
    BY <1>2, <2>2
  <2>3. QED
    BY <2>1, <2>2
<1>5. Entry(r)
  BY DEF KeepInv, EntryInv
<1>6. Entry(r)'
  <2>1. pc'[r] \in {"fan", "send"} /\ r \notin opened' /\ pc'[r] \notin TurnPhases
    BY <1>2, <1>3 DEF TurnPhases, InnerPhases
  <2>2. pc'[r] = "send" => SessionOf[r] \in tainted' \/ outcome'[r] = "failed"
    BY <1>2, <1>3, <1>4, <1>5 DEF Entry
  <2>3. QED
    BY <2>1, <2>2 DEF Entry
<1>7. executed' \subseteq CallIds /\ ready' \subseteq Runs /\ opened' \subseteq Runs
  BY DEF LoopInv, TypeOK
<1>8. Calm(s)' => Calm(s)
  BY <1>2, <1>4 DEF Calm
<1>9. SessionKept(s)
  BY DEF KeepInv, SessionInv
<1>10. \A q \in Runs \ {r} : Delivered(q)' <=> Delivered(q)
  BY <1>2, <1>3 DEF Delivered
<1>11. SessionKept(s)'
  <2>1. CASE r \in opened
    <3>1. Held(r) /\ Live(r)
      BY <1>2, <2>1 DEF KeepInv, HeldInv, Live, LivePhases, FinalPhases
    <3>2. PICK mine : mine = IF outcome[r] = "failed" THEN {} ELSE Own(r)
      OBVIOUS
    <3>3. Owed(s)' \subseteq Owed(s) \cup mine
      <4>1. ASSUME NEW c \in executed', SessionOf[c[1]] = s, Delivered(c[1])'
            PROVE  (c \in executed /\ Delivered(c[1])) \/ ToolResult(c) \in mine
        <5>1. CASE c[1] = r
          BY <1>2, <3>2, <4>1, <5>1 DEF Delivered, Own
        <5>2. CASE c[1] # r
          BY <1>2, <1>7, <1>10, <4>1, <5>2, CallRun
        <5>3. QED
          BY <5>1, <5>2
      <4>2. /\ \A x \in ready' \ ready : SessionOf[x] = s => User(x) \in mine
            /\ \A x \in recorded' \ recorded : x[1] = s => CommandInput(x[2]) \in mine
            /\ \A m \in arrived' \ arrived : m.to = s => m \in mine
        BY <1>2
      <4>3. QED
        BY <4>1, <4>2, OwedStep
    <3>4. cached[r] \in Seq(Messages)
      BY ValueTypes DEF LoopInv
    <3>5. ToSet(safe_prefix(cached[r])) \subseteq ToSet(cached[r])
      BY <3>4, SafePrefixIs
    <3>6. Calm(s) => /\ Owed(s) \subseteq ToSet(safe_prefix(cached[r])) \cup archive[s]
                     /\ Owed(s) \subseteq ToSet(snapshot[r]) \cup archive[s]
      BY <3>1 DEF Held, CacheKeeps
    <3>7. mine \subseteq ToSet(cached[r]) \cup archive[s]
      <4>1. loop[r].todo = <<>>
        BY <1>2, OwnCalls DEF AppendPhases
      <4>2. ToSet(loop[r].todo) = {}
        BY <4>1 DEF ToSet
      <4>3. outcome[r] # "failed" => Own(r) \subseteq ToSet(cached[r]) \cup ToSet(loop[r].todo) \cup archive[s]
        BY <1>2, <3>1 DEF Held, ResultsKept
      <4>4. QED
        BY <3>2, <4>2, <4>3
    <3>8. outcome[r] \in {"completed", "paused", "failed"}
      BY <1>2 DEF LoopInv, ControlInv, Control
    <3>9. Calm(s) => Owed(s) \cup mine \subseteq ToSet(kept) \cup archive[s]
      <4>1. CASE outcome[r] \in {"completed", "paused"}
        <5>1. ToSet(cached[r]) \subseteq ToSet(kept)
          BY <1>1, <4>1, KeptLogHolds
        <5>2. QED
          BY <3>5, <3>6, <3>7, <5>1
      <4>2. CASE outcome[r] = "failed"
        <5>1. mine = {}
          BY <3>2, <4>2
        <5>2. kept = snapshot[r] \/ kept = safe_prefix(cached[r])
          BY <1>1, <4>2, KeptLogHolds
        <5>3. QED
          BY <3>6, <5>1, <5>2
      <4>3. QED
        BY <3>8, <4>1, <4>2
    <3>10. Calm(s)' => store'[s] = kept
      BY <1>4, <2>1 DEF Calm
    <3>11. QED
      BY <1>2, <1>8, <3>3, <3>9, <3>10 DEF SessionKept, Kept
  <2>2. CASE r \notin opened
    <3>1. ~Delivered(r)'
      BY <1>3, <2>2 DEF Delivered
    <3>2. /\ \A x \in ready' \ ready : SessionOf[x] = s => User(x) \in {}
          /\ \A x \in recorded' \ recorded : x[1] = s => CommandInput(x[2]) \in {}
          /\ \A m \in arrived' \ arrived : m.to = s => m \in {}
          /\ \A c \in executed' : SessionOf[c[1]] = s /\ Delivered(c[1])' =>
               (c \in executed /\ Delivered(c[1])) \/ ToolResult(c) \in {}
      BY <1>2, <1>7, <1>10, <3>1, CallRun
    <3>3. Owed(s)' \subseteq Owed(s) \cup {}
      BY <3>2, OwedStep
    <3>4. QED
      BY <1>2, <1>4, <1>9, <2>2, <3>3, SessionFrame
  <2>3. QED
    BY <2>1, <2>2
<1>12. \A q \in Runs \ {r} :
        /\ pc'[q] = pc[q] /\ loop'[q] = loop[q] /\ cached'[q] = cached[q]
        /\ snapshot'[q] = snapshot[q] /\ outcome'[q] = outcome[q] /\ history'[q] = history[q]
        /\ q \in opened' <=> q \in opened
        /\ q \in ready' <=> q \in ready
  BY <1>2, <1>3
<1>13. /\ \A x \in Sessions : archive[x] \subseteq archive'[x]
       /\ \A x \in Sessions \ {SessionOf[r]} : x \notin tainted' => ToSet(store[x]) \subseteq ToSet(store'[x])
       /\ \A c \in executed' \ executed : c[1] = r
       /\ recorded' = recorded /\ command' = command /\ Arrivals
  BY <1>2, <1>4 DEF Arrivals
<1>14. \/ /\ \A c \in executed' : c[1] = r /\ Delivered(r)' => c \in executed /\ Delivered(r)
          /\ r \in ready' => r \in ready
          /\ history'[r] = <<>> => history[r] = <<>>
       \/ Live(r) /\ r \in opened
       \/ SessionOf[r] \in tainted'
  <2>1. Live(r)
    BY <1>2 DEF Live, LivePhases, FinalPhases
  <2>2. r \notin opened => ~Delivered(r)'
    BY <1>3 DEF Delivered
  <2>3. QED
    BY <1>2, <2>1, <2>2
<1>15. r \notin opened'
  BY <1>2
<1>16. SessionKept(SessionOf[r])'
  BY <1>11
<1>17. QED
  BY <1>4, <1>6, <1>7, <1>12, <1>13, <1>14, <1>15, <1>16, DriverFrame

------------------------------------------------------------------------------
(* Kills, signals and commands *)

(* The runs in rs are killed, the others left alone; hook entries and       *)
(* commands may go with the process.                                        *)
LEMMA KillFrame ==
  ASSUME LoopInv, LoopInv', KeepInv, SessionAssumption, NEW rs \in SUBSET Runs,
         \A q \in rs : pc'[q] = "killed",
         \A q \in Runs \ rs : pc'[q] = pc[q] /\ loop'[q] = loop[q] /\ outcome'[q] = outcome[q],
         UNCHANGED <<store, archive, history, ready, executed, recorded, arrived, tainted>>,
         opened' \subseteq opened,
         \A q \in opened' : cached'[q] = cached[q] /\ snapshot'[q] = snapshot[q],
         \A q \in opened \ opened' : q \in rs \/ ~Live(q),
         \A s \in Sessions : command'[s].at = "compact" => command'[s] = command[s]
  PROVE  KeepInv'
<1>1. \A q \in Runs : Delivered(q)' => Delivered(q)
  <2>1. ASSUME NEW q \in Runs, Delivered(q)'
        PROVE  Delivered(q)
    <3>1. q \notin rs
      BY <2>1 DEF Delivered
    <3>2. QED
      BY <2>1, <3>1 DEF Delivered
  <2>2. QED
    BY <2>1
<1>2. executed' \subseteq CallIds
  BY DEF LoopInv, TypeOK
<1>3. ASSUME NEW s
      PROVE  Owed(s)' \subseteq Owed(s)
  <2>1. /\ \A x \in ready' \ ready : SessionOf[x] = s => User(x) \in {}
        /\ \A x \in recorded' \ recorded : x[1] = s => CommandInput(x[2]) \in {}
        /\ \A m \in arrived' \ arrived : m.to = s => m \in {}
        /\ \A c \in executed' : SessionOf[c[1]] = s /\ Delivered(c[1])' =>
             (c \in executed /\ Delivered(c[1])) \/ ToolResult(c) \in {}
    BY <1>1, <1>2, CallRun
  <2>2. Owed(s)' \subseteq Owed(s) \cup {}
    BY <2>1, OwedStep
  <2>3. QED
    BY <2>2
<1>4. EntryInv'
  <2>1. ASSUME NEW q \in Runs
        PROVE  Entry(q)'
    <3>1. CASE q \in rs
      <4>1. pc'[q] = "killed" /\ "killed" \notin TurnPhases
        BY <3>1 DEF TurnPhases, InnerPhases
      <4>2. QED
        BY <4>1 DEF Entry
    <3>2. CASE q \notin rs
      <4>1. Entry(q)
        BY DEF KeepInv, EntryInv
      <4>2. pc[q] \in TurnPhases \cup {"replay", "stop", "send"} => Live(q)
        BY DEF TurnPhases, Live, LivePhases, FinalPhases, InnerPhases
      <4>3. pc[q] \in TurnPhases \cup {"replay", "stop", "send"} /\ q \notin opened' => q \notin opened
        BY <3>2, <4>2
      <4>4. UNCHANGED <<executed, ready, tainted>> /\ history'[q] = history[q]
            /\ pc'[q] = pc[q] /\ loop'[q] = loop[q] /\ outcome'[q] = outcome[q]
            /\ (q \in opened' => q \in opened)
        BY <3>2
      <4>5. QED
        BY <4>1, <4>3, <4>4 DEF Entry
    <3>3. QED
      BY <3>1, <3>2
  <2>2. QED
    BY <2>1 DEF EntryInv
<1>5. SoleHolderInv'
  <2>1. \A q \in Runs : Live(q)' => Live(q)
    <3>1. ASSUME NEW q \in Runs, Live(q)'
          PROVE  Live(q)
      <4>1. q \notin rs
        BY <3>1 DEF Live, LivePhases, InnerPhases, FinalPhases
      <4>2. QED
        BY <3>1, <4>1 DEF Live
    <3>2. QED
      BY <3>1
  <2>2. opened' \subseteq Runs
    BY DEF LoopInv, TypeOK
  <2>3. QED
    BY <2>1, <2>2, HolderFrame DEF KeepInv
<1>6. CommandInv'
  BY CommandFrame DEF KeepInv
<1>7. SessionInv'
  <2>1. ASSUME NEW s \in Sessions
        PROVE  SessionKept(s)'
    <3>1. SessionKept(s)
      BY DEF KeepInv, SessionInv
    <3>2. QED
      BY <1>3, <3>1, SessionFrame
  <2>2. QED
    BY <2>1 DEF SessionInv
<1>8. HeldInv'
  <2>1. ASSUME NEW q \in opened'
        PROVE  Held(q)'
    <3>1. q \in Runs /\ q \in opened /\ Held(q)
      BY <2>1 DEF KeepInv, HeldInv, LoopInv, TypeOK
    <3>2. CASE q \in rs
      <4>1. pc'[q] = "killed" /\ "killed" \notin TurnPhases /\ ~Live(q)'
        BY <3>2 DEF TurnPhases, InnerPhases, Live, LivePhases, FinalPhases
      <4>2. QED
        BY <4>1 DEF Held, ReplayKeeps, CacheKeeps, ResultsKept
    <3>3. CASE q \notin rs
      <4>1. /\ pc'[q] = pc[q] /\ loop'[q] = loop[q] /\ cached'[q] = cached[q]
            /\ snapshot'[q] = snapshot[q] /\ outcome'[q] = outcome[q] /\ history'[q] = history[q]
            /\ archive[SessionOf[q]] \subseteq archive'[SessionOf[q]]
        BY <2>1, <3>1, <3>3
      <4>2. Own(q)' \subseteq Own(q)
        BY DEF Own
      <4>3. Live(q) /\ SessionOf[q] \notin tainted' =>
              /\ SessionOf[q] \notin tainted
              /\ Owed(SessionOf[q])' \subseteq Owed(SessionOf[q])
              /\ \A p \in Runs : SessionOf[p] = SessionOf[q] /\ history'[p] = <<>> => history[p] = <<>>
        BY <1>3
      <4>4. QED
        BY <3>1, <4>1, <4>2, <4>3, RunFrame
    <3>4. QED
      BY <3>2, <3>3
  <2>2. QED
    BY <2>1 DEF HeldInv
<1>9. QED
  BY <1>4, <1>5, <1>6, <1>7, <1>8 DEF KeepInv

(* A step that none of this depends on. *)
LEMMA IdleKeeps ==
  ASSUME LoopInv, LoopInv', KeepInv, SessionAssumption,
         UNCHANGED <<store, archive, pc, loop, opened, cached, snapshot, outcome, command, history,
                     ready, executed, recorded, arrived, tainted>>
  PROVE  KeepInv'
<1>1. {} \in SUBSET Runs
  OBVIOUS
<1>2. /\ \A q \in {} : pc'[q] = "killed"
      /\ \A q \in Runs \ {} : pc'[q] = pc[q] /\ loop'[q] = loop[q] /\ outcome'[q] = outcome[q]
      /\ UNCHANGED <<store, archive, history, ready, executed, recorded, arrived, tainted>>
      /\ opened' \subseteq opened
      /\ \A q \in opened' : cached'[q] = cached[q] /\ snapshot'[q] = snapshot[q]
      /\ \A q \in opened \ opened' : q \in {} \/ ~Live(q)
      /\ \A s \in Sessions : command'[s].at = "compact" => command'[s] = command[s]
  OBVIOUS
<1>3. QED
  BY <1>1, <1>2, KillFrame

LEMMA ConsumerKeeps ==
  ASSUME LoopInv, LoopInv', KeepInv, SessionAssumption, NEW r \in Runs, Consumer(r)
  PROVE  KeepInv'
<1>1. CASE CancelRun(r) \/ DropStream(r) \/ Inject(r) \/ ForwardShutdown(r)
  <2>1. UNCHANGED <<store, archive, pc, loop, opened, cached, snapshot, outcome, command, history,
                    ready, executed, recorded, arrived, tainted>>
    BY <1>1 DEF CancelRun, DropStream, Inject, ForwardShutdown, stores, hooks, observed
  <2>2. QED
    BY <2>1, IdleKeeps
<1>2. CASE AbortDropped(r)
  <2>1. PICK rs : rs = {r}
    OBVIOUS
  <2>2. /\ Kill(rs)
        /\ UNCHANGED <<store, archive, opened, cached, snapshot, command, history, ready, executed,
                       recorded, arrived, tainted>>
    BY <1>2, <2>1 DEF AbortDropped, stores, hooks, observed
  <2>3. rs \in SUBSET Runs
    BY <2>1
  <2>4. /\ \A q \in rs : pc'[q] = "killed"
        /\ \A q \in Runs \ rs : pc'[q] = pc[q] /\ loop'[q] = loop[q] /\ outcome'[q] = outcome[q]
    BY <2>2, <2>3 DEF Kill
  <2>5. QED
    BY <2>2, <2>3, <2>4, KillFrame
<1>3. QED
  BY <1>1, <1>2 DEF Consumer

LEMMA ShutdownKeeps ==
  ASSUME LoopInv, LoopInv', KeepInv, SessionAssumption, Shutdown \/ Reboot
  PROVE  KeepInv'
<1>1. CASE BeginPause \/ BeginShutdown
  <2>1. UNCHANGED <<store, archive, pc, loop, opened, cached, snapshot, outcome, command, history,
                    ready, executed, recorded, arrived, tainted>>
    BY <1>1 DEF BeginPause, BeginShutdown, stores, hooks, observed
  <2>2. QED
    BY <2>1, IdleKeeps
<1>2. CASE FinishShutdown \/ Reboot
  <2>1. PICK rs \in SUBSET Runs : rs = LiveRuns
    BY DEF LiveRuns
  <2>2. /\ Kill(rs)
        /\ UNCHANGED <<store, archive, history, ready, executed, recorded, arrived, tainted>>
        /\ \/ UNCHANGED <<opened, cached, snapshot, command>>
           \/ opened' = {} /\ command' = [s \in Sessions |-> NoCommand]
    BY <1>2, <2>1 DEF FinishShutdown, Reboot, stores, hooks, observed
  <2>3. /\ \A q \in rs : pc'[q] = "killed"
        /\ \A q \in Runs \ rs : pc'[q] = pc[q] /\ loop'[q] = loop[q] /\ outcome'[q] = outcome[q]
    BY <2>2 DEF Kill
  <2>4. \A q \in opened \ opened' : q \in rs \/ ~Live(q)
    BY <2>1 DEF LiveRuns, LoopInv, TypeOK
  <2>5. \A s \in Sessions : command'[s].at = "compact" => command'[s] = command[s]
    BY <2>2 DEF NoCommand
  <2>6. /\ opened' \subseteq opened
        /\ \A q \in opened' : cached'[q] = cached[q] /\ snapshot'[q] = snapshot[q]
    BY <2>2
  <2>7. QED
    BY <2>2, <2>3, <2>4, <2>5, <2>6, KillFrame
<1>3. QED
  BY <1>1, <1>2 DEF Shutdown

(* A step of the slash command of session s: what it writes is written      *)
(* while no run holds the session, or taints it.                            *)
LEMMA CommandMove ==
  ASSUME LoopInv, LoopInv', KeepInv, SessionAssumption, NEW s \in Sessions,
         UNCHANGED <<pc, loop, opened, cached, snapshot, outcome, history, ready, executed,
                     arrived>>,
         tainted \subseteq tainted',
         \A x \in Sessions : archive[x] \subseteq archive'[x],
         \A x \in Sessions \ {s} : store'[x] = store[x] /\ command'[x] = command[x],
         command'[s].at = "compact" =>
           ToSet(Compacted(command'[s].read, KeepRecent)) \subseteq archive'[s],
         \A x \in recorded' \ recorded : x[1] = s,
         s \notin tainted' => recorded' = recorded \/ Holders(s) = {},
         SessionKept(s)'
  PROVE  KeepInv'
<1>1. \A q \in Runs : Delivered(q)' <=> Delivered(q)
  BY DEF Delivered
<1>2. executed' \subseteq CallIds /\ opened' \subseteq Runs
  BY DEF LoopInv, TypeOK
<1>3. ASSUME NEW x, x # s \/ recorded' = recorded
      PROVE  Owed(x)' \subseteq Owed(x)
  <2>1. /\ \A y \in ready' \ ready : SessionOf[y] = x => User(y) \in {}
        /\ \A y \in recorded' \ recorded : y[1] = x => CommandInput(y[2]) \in {}
        /\ \A m \in arrived' \ arrived : m.to = x => m \in {}
        /\ \A c \in executed' : SessionOf[c[1]] = x /\ Delivered(c[1])' =>
             (c \in executed /\ Delivered(c[1])) \/ ToolResult(c) \in {}
    BY <1>1, <1>2, <1>3, CallRun
  <2>2. Owed(x)' \subseteq Owed(x) \cup {}
    BY <2>1, OwedStep
  <2>3. QED
    BY <2>2
<1>4. EntryInv'
  <2>1. ASSUME NEW q \in Runs
        PROVE  Entry(q)'
    <3>1. Entry(q)
      BY DEF KeepInv, EntryInv
    <3>2. QED
      BY <3>1, EntryFrame
  <2>2. QED
    BY <2>1 DEF EntryInv
<1>5. SoleHolderInv'
  BY <1>2, HolderFrame DEF KeepInv, Live
<1>6. CommandInv'
  <2>1. ASSUME NEW x \in Sessions, command'[x].at = "compact"
        PROVE  ToSet(Compacted(command'[x].read, KeepRecent)) \subseteq archive'[x]
    <3>1. CASE x = s
      BY <2>1, <3>1
    <3>2. CASE x # s
      <4>1. command'[x] = command[x]
        BY <3>2
      <4>2. ToSet(Compacted(command[x].read, KeepRecent)) \subseteq archive[x]
        BY <2>1, <4>1 DEF KeepInv, CommandInv
      <4>3. QED
        BY <4>1, <4>2
    <3>3. QED
      BY <3>1, <3>2
  <2>2. QED
    BY <2>1 DEF CommandInv
<1>7. SessionInv'
  <2>1. ASSUME NEW x \in Sessions, x # s
        PROVE  SessionKept(x)'
    <3>1. SessionKept(x)
      BY DEF KeepInv, SessionInv
    <3>2. QED
      BY <1>3, <2>1, <3>1, SessionFrame
  <2>2. QED
    BY <2>1 DEF SessionInv
<1>8. HeldInv'
  <2>1. ASSUME NEW q \in opened'
        PROVE  Held(q)'
    <3>1. q \in Runs /\ q \in opened /\ Held(q) /\ SessionOf[q] \in Sessions
      BY <2>1 DEF KeepInv, HeldInv, LoopInv, TypeOK, SessionAssumption
    <3>2. Own(q)' \subseteq Own(q)
      BY DEF Own
    <3>3. ASSUME Live(q), SessionOf[q] \notin tainted'
          PROVE  Owed(SessionOf[q])' \subseteq Owed(SessionOf[q])
      <4>1. CASE SessionOf[q] # s
        BY <1>3, <4>1
      <4>2. CASE SessionOf[q] = s
        <5>1. q \in Holders(s)
          BY <3>1, <3>3, <4>2 DEF Holders
        <5>2. recorded' = recorded
          BY <3>3, <4>2, <5>1
        <5>3. QED
          BY <1>3, <5>2
      <4>3. QED
        BY <4>1, <4>2
    <3>4. archive[SessionOf[q]] \subseteq archive'[SessionOf[q]]
      BY <3>1
    <3>5. Live(q) /\ SessionOf[q] \notin tainted' =>
            /\ SessionOf[q] \notin tainted
            /\ Owed(SessionOf[q])' \subseteq Owed(SessionOf[q])
            /\ \A p \in Runs : SessionOf[p] = SessionOf[q] /\ history'[p] = <<>> => history[p] = <<>>
      BY <3>3
    <3>6. QED
      BY <3>1, <3>2, <3>4, <3>5, RunFrame
  <2>2. QED
    BY <2>1 DEF HeldInv
<1>9. QED
  BY <1>4, <1>5, <1>6, <1>7, <1>8 DEF KeepInv

(* A step of a command that leaves the messages of its session alone. *)
LEMMA CommandQuiet ==
  ASSUME LoopInv, LoopInv', KeepInv, SessionAssumption, NEW s \in Sessions,
         UNCHANGED <<store, recorded>>,
         UNCHANGED <<pc, loop, opened, cached, snapshot, outcome, history, ready, executed,
                     arrived>>,
         tainted \subseteq tainted',
         \A x \in Sessions : archive[x] \subseteq archive'[x],
         \A x \in Sessions \ {s} : command'[x] = command[x],
         command'[s].at = "compact" =>
           ToSet(Compacted(command'[s].read, KeepRecent)) \subseteq archive'[s]
  PROVE  KeepInv'
<1>1. \A q \in Runs : Delivered(q)' <=> Delivered(q)
  BY DEF Delivered
<1>2. executed' \subseteq CallIds
  BY DEF LoopInv, TypeOK
<1>3. /\ \A y \in ready' \ ready : SessionOf[y] = s => User(y) \in {}
      /\ \A y \in recorded' \ recorded : y[1] = s => CommandInput(y[2]) \in {}
      /\ \A m \in arrived' \ arrived : m.to = s => m \in {}
      /\ \A c \in executed' : SessionOf[c[1]] = s /\ Delivered(c[1])' =>
           (c \in executed /\ Delivered(c[1])) \/ ToolResult(c) \in {}
  BY <1>1, <1>2, CallRun
<1>4. Owed(s)' \subseteq Owed(s) \cup {}
  BY <1>3, OwedStep
<1>5. SessionKept(s)
  BY DEF KeepInv, SessionInv
<1>6. SessionKept(s)'
  BY <1>4, <1>5, SessionFrame
<1>7. /\ \A x \in Sessions \ {s} : store'[x] = store[x] /\ command'[x] = command[x]
      /\ \A x \in recorded' \ recorded : x[1] = s
      /\ s \notin tainted' => recorded' = recorded \/ Holders(s) = {}
  OBVIOUS
<1>8. QED
  BY <1>6, <1>7, CommandMove

LEMMA DispatchCommandKeeps ==
  ASSUME LoopInv, LoopInv', KeepInv, SessionAssumption, NEW s \in Sessions, DispatchCommand(s)
  PROVE  KeepInv'
<1>1. /\ command' = [command EXCEPT ![s] = [at |-> "record", nth |-> budget.commands, read |-> <<>>]]
      /\ UNCHANGED <<store, archive, recorded, tainted>>
      /\ UNCHANGED <<pc, loop, opened, cached, snapshot, outcome, history, ready, executed,
                     arrived>>
  BY DEF DispatchCommand, stores, hooks, observed
<1>2. command'[s].at = "record" /\ \A x \in Sessions \ {s} : command'[x] = command[x]
  BY <1>1 DEF LoopInv, TypeOK
<1>3. QED
  BY <1>1, <1>2, CommandQuiet

LEMMA CompactReadKeeps ==
  ASSUME LoopInv, LoopInv', KeepInv, SessionAssumption, NEW s \in Sessions, CompactRead(s)
  PROVE  KeepInv'
<1>1. PICK old, cut : old = store[s] /\ cut = ToSet(Compacted(old, KeepRecent))
  OBVIOUS
<1>2. /\ command' = [command EXCEPT ![s] = [at |-> "compact", nth |-> budget.commands, read |-> old]]
      /\ archive' = [archive EXCEPT ![s] = archive[s] \cup cut]
      /\ UNCHANGED <<store, recorded, tainted>>
      /\ UNCHANGED <<pc, loop, opened, cached, snapshot, outcome, history, ready, executed,
                     arrived>>
  BY <1>1 DEF CompactRead, hooks, observed
<1>3. command'[s].read = old /\ \A x \in Sessions \ {s} : command'[x] = command[x]
  BY <1>2 DEF LoopInv, TypeOK
<1>4. archive'[s] = archive[s] \cup cut /\ \A x \in Sessions \ {s} : archive'[x] = archive[x]
  BY <1>2 DEF LoopInv, TypeOK
<1>5. ToSet(Compacted(command'[s].read, KeepRecent)) \subseteq archive'[s]
  BY <1>1, <1>3, <1>4
<1>6. \A x \in Sessions : archive[x] \subseteq archive'[x]
  BY <1>4
<1>7. QED
  BY <1>2, <1>3, <1>5, <1>6, CommandQuiet

LEMMA RecordReadKeeps ==
  ASSUME LoopInv, LoopInv', KeepInv, SessionAssumption, NEW s \in Sessions, RecordRead(s)
  PROVE  KeepInv'
<1>1. /\ \/ command' = [command EXCEPT ![s].at = "save", ![s].read = store[s]]
         \/ command' = [command EXCEPT ![s] = NoCommand]
      /\ UNCHANGED <<store, archive, recorded, tainted>>
      /\ UNCHANGED <<pc, loop, opened, cached, snapshot, outcome, history, ready, executed,
                     arrived>>
  BY DEF RecordRead, stores, hooks, observed
<1>2. \A x \in Sessions \ {s} : command'[x] = command[x]
  BY <1>1 DEF LoopInv, TypeOK
<1>3. command'[s].at # "compact"
  BY <1>1 DEF LoopInv, TypeOK, NoCommand
<1>4. QED
  BY <1>1, <1>2, <1>3, CommandQuiet

(* A command that writes back what it read: if nobody was in the way, what  *)
(* is owed is in the new messages or archived.                              *)
LEMMA CommandWrites ==
  ASSUME LoopInv, LoopInv', KeepInv, SessionAssumption, NEW s \in Sessions,
         NEW read, NEW msgs, Overwrite(s, read, msgs),
         UNCHANGED <<archive, pc, loop, opened, cached, snapshot, outcome, history, ready, executed,
                     arrived>>,
         \A x \in Sessions \ {s} : command'[x] = command[x], command'[s].at # "compact",
         NEW X, X \subseteq ToSet(msgs),
         \A x \in recorded' \ recorded : x[1] = s /\ CommandInput(x[2]) \in X,
         ToSet(read) \subseteq ToSet(msgs) \cup archive[s]
  PROVE  KeepInv'
<1>1. /\ tainted \subseteq tainted'
      /\ \A x \in Sessions \ {s} : store'[x] = store[x]
      /\ s \notin tainted' => store[s] = read /\ Holders(s) = {} /\ store'[s] = msgs
  <2>1. CASE Overwritten(s, read, msgs)
    BY <2>1 DEF Overwritten, LoopInv, TypeOK
  <2>2. CASE tainted' = tainted \cup {s} /\ UNCHANGED store
    BY <2>2
  <2>3. QED
    BY <2>1, <2>2 DEF Overwrite
<1>2. SessionKept(s)'
  <2>1. ASSUME Calm(s)'
        PROVE  Owed(s)' \subseteq Kept(s)'
    <3>1. s \notin tainted' /\ Calm(s)
      BY <1>1, <2>1 DEF Calm
    <3>2. \A q \in Runs : Delivered(q)' <=> Delivered(q)
      BY DEF Delivered
    <3>3. executed' \subseteq CallIds
      BY DEF LoopInv, TypeOK
    <3>4. /\ \A y \in ready' \ ready : SessionOf[y] = s => User(y) \in X
          /\ \A y \in recorded' \ recorded : y[1] = s => CommandInput(y[2]) \in X
          /\ \A m \in arrived' \ arrived : m.to = s => m \in X
          /\ \A c \in executed' : SessionOf[c[1]] = s /\ Delivered(c[1])' =>
               (c \in executed /\ Delivered(c[1])) \/ ToolResult(c) \in X
      BY <3>2, <3>3, CallRun
    <3>5. Owed(s)' \subseteq Owed(s) \cup X
      BY <3>4, OwedStep
    <3>6. Owed(s) \subseteq ToSet(read) \cup archive[s]
      BY <1>1, <3>1 DEF KeepInv, SessionInv, SessionKept, Kept
    <3>7. Kept(s)' = ToSet(msgs) \cup archive[s]
      BY <1>1, <3>1 DEF Kept
    <3>8. QED
      BY <3>5, <3>6, <3>7
  <2>2. QED
    BY <2>1 DEF SessionKept
<1>3. /\ \A x \in Sessions \ {s} : store'[x] = store[x] /\ command'[x] = command[x]
      /\ \A x \in recorded' \ recorded : x[1] = s
      /\ s \notin tainted' => recorded' = recorded \/ Holders(s) = {}
      /\ \A x \in Sessions : archive[x] \subseteq archive'[x]
  BY <1>1
<1>4. QED
  BY <1>1, <1>2, <1>3, CommandMove

LEMMA CompactWriteKeeps ==
  ASSUME LoopInv, LoopInv', KeepInv, SessionAssumption, NEW s \in Sessions, CompactWrite(s)
  PROVE  KeepInv'
<1>1. PICK read, msgs : read = command[s].read /\ msgs = CompactedLog(read, KeepRecent)
  OBVIOUS
<1>2. /\ command[s].at = "compact"
      /\ UNCHANGED <<archive, pc, loop, opened, cached, snapshot, outcome, history, ready, executed,
                     arrived>>
      /\ UNCHANGED recorded
      /\ Overwrite(s, read, msgs) \/ UNCHANGED <<store, budget, tainted>>
      /\ \/ command' = [command EXCEPT ![s] = NoCommand]
         \/ command' = [command EXCEPT ![s].at = "record", ![s].read = <<>>]
  BY <1>1 DEF CompactWrite, hooks, Overwrite
<1>3. /\ \A x \in Sessions \ {s} : command'[x] = command[x]
      /\ command'[s].at # "compact"
  BY <1>2 DEF LoopInv, TypeOK, NoCommand
<1>4. read \in Seq(Messages)
  BY <1>1 DEF LoopInv, TypeOK
<1>5. ToSet(read) \subseteq ToSet(msgs) \cup archive[s]
  <2>1. KeepRecent \in Nat /\ Summary \in Messages
    BY MessageTypes DEF SessionAssumption
  <2>2. ToSet(read) \subseteq ToSet(msgs) \cup ToSet(Compacted(read, KeepRecent))
    BY <1>1, <1>4, <2>1, CompactionKeepsSafePrefix
  <2>3. ToSet(Compacted(read, KeepRecent)) \subseteq archive[s]
    BY <1>1, <1>2 DEF KeepInv, CommandInv
  <2>4. QED
    BY <2>2, <2>3
<1>6. CASE Overwrite(s, read, msgs)
  <2>1. /\ {} \subseteq ToSet(msgs)
        /\ \A x \in recorded' \ recorded : x[1] = s /\ CommandInput(x[2]) \in {}
    BY <1>2
  <2>2. QED
    BY <1>2, <1>3, <1>5, <1>6, <2>1, CommandWrites
<1>7. CASE UNCHANGED <<store, budget, tainted>>
  BY <1>2, <1>3, <1>7, CommandQuiet
<1>8. QED
  BY <1>2, <1>6, <1>7

LEMMA RecordWriteKeeps ==
  ASSUME LoopInv, LoopInv', KeepInv, SessionAssumption, NEW s \in Sessions, RecordWrite(s)
  PROVE  KeepInv'
<1>1. PICK read, nth, pair, msgs :
        /\ read = command[s].read /\ nth = command[s].nth
        /\ pair = <<CommandInput(nth), Assistant(<<>>)>> /\ msgs = read \o pair
  OBVIOUS
<1>2. /\ UNCHANGED <<archive, pc, loop, opened, cached, snapshot, outcome, history, ready, executed,
                     arrived>>
      /\ Overwrite(s, read, msgs)
      /\ recorded' = IF store'[s] = msgs THEN recorded \cup {<<s, nth>>} ELSE recorded
      /\ command' = [command EXCEPT ![s] = NoCommand]
  BY <1>1 DEF RecordWrite, hooks
<1>3. /\ \A x \in Sessions \ {s} : command'[x] = command[x]
      /\ command'[s].at # "compact"
  BY <1>2 DEF LoopInv, TypeOK, NoCommand
<1>4. read \in Seq(Messages) /\ nth \in Nat
  BY <1>1 DEF LoopInv, TypeOK
<1>5. CommandInput(nth) \in Messages /\ Assistant(<<>>) \in Messages
  BY <1>4, MessageTypes, ResponseTypes
<1>6. pair \in Seq(Messages)
  BY <1>1, <1>5
<1>7. ToSet(msgs) = ToSet(read) \cup ToSet(pair)
  <2>1. ToSet(read \o pair) = ToSet(read) \cup ToSet(pair)
    BY <1>4, <1>6, ToSetConcat
  <2>2. QED
    BY <1>1, <2>1
<1>8. CommandInput(nth) \in ToSet(pair)
  <2>1. Len(pair) = 2 /\ pair[1] = CommandInput(nth)
    BY <1>1
  <2>2. ToSet(pair) = {pair[i] : i \in 1..Len(pair)}
    BY <1>6, InSeq
  <2>3. QED
    BY <2>1, <2>2
<1>9. PICK X : X = {CommandInput(nth)}
  OBVIOUS
<1>10. /\ X \subseteq ToSet(msgs)
       /\ \A x \in recorded' \ recorded : x[1] = s /\ CommandInput(x[2]) \in X
       /\ ToSet(read) \subseteq ToSet(msgs) \cup archive[s]
  BY <1>2, <1>7, <1>8, <1>9
<1>11. QED
  BY <1>2, <1>3, <1>10, CommandWrites

------------------------------------------------------------------------------
(* Messages of other conversations *)

ArrivalInv == BroughtInv /\ FanInv

(* The records of messages sent, among those of S. *)
Sendings(S) == {m \in S : m.kind = "outbound"}

(* Run q has nothing left to do about a message, or has it ahead of it.     *)
FanGoesOn(q) ==
  Fanning(q) /\ \A m \in ToFan(q) :
    SentBy(q, m) /\ m.to \notin tainted' => m \in arrived' \cup ToFan(q)'

(* A session shows a new record only if the message has arrived, or a run   *)
(* of the session has sent it and still runs; and a run that fans out goes  *)
(* on with what it had, or has just begun.                                  *)
LEMMA ArrivalStep ==
  ASSUME ArrivalInv, SessionAssumption, tainted \subseteq tainted', arrived \subseteq arrived',
         \A s \in Sessions \ tainted' : \A m \in Sendings(Shown(s)') :
           \/ m \in Shown(s) \cup arrived'
           \/ SessionOf[m.call[1]] = s /\ ~Fanning(m.call[1])',
         \A q \in Runs : Fanning(q)' /\ SessionOf[q] \notin tainted' => FanKeeps(q)' \/ FanGoesOn(q)
  PROVE  ArrivalInv'
<1>1. ASSUME NEW s \in Sessions \ tainted', NEW m \in Shown(s)', SentTo(s, m)
      PROVE  m \in arrived'
  <2>1. m \in Sendings(Shown(s)') /\ SessionOf[m.call[1]] # s
    BY <1>1 DEF Sendings, SentTo
  <2>2. m \in Shown(s) \cup arrived'
    BY <1>1, <2>1
  <2>3. m \in Shown(s) => m \in arrived
    BY <1>1 DEF ArrivalInv, BroughtInv
  <2>4. QED
    BY <2>2, <2>3
<1>2. BroughtInv'
  BY <1>1 DEF BroughtInv, SentTo
<1>3. ASSUME NEW q \in Runs
      PROVE  FanKeeps(q)'
  <2>1. ASSUME Fanning(q)', SessionOf[q] \notin tainted', FanGoesOn(q),
               NEW m \in Shown(SessionOf[q])', SentBy(q, m), m.to \notin tainted'
        PROVE  m \in arrived' \cup ToFan(q)'
    <3>1. m \in Sendings(Shown(SessionOf[q])') /\ m.call[1] = q
      BY <2>1 DEF Sendings, SentBy, IsForeign
    <3>2. SessionOf[q] \in Sessions \ tainted'
      BY <2>1 DEF SessionAssumption
    <3>3. m \in Shown(SessionOf[q]) \cup arrived'
      BY <2>1, <3>1, <3>2
    <3>4. ASSUME m \in Shown(SessionOf[q])
          PROVE  m \in arrived \cup ToFan(q)
      BY <2>1, <3>2, <3>4 DEF ArrivalInv, FanInv, FanKeeps, FanGoesOn
    <3>5. m \in ToFan(q) => m \in arrived' \cup ToFan(q)'
      BY <2>1 DEF FanGoesOn
    <3>6. QED
      BY <3>3, <3>4, <3>5
  <2>2. CASE ~(Fanning(q)' /\ SessionOf[q] \notin tainted')
    BY <2>2 DEF FanKeeps
  <2>3. CASE FanGoesOn(q) /\ Fanning(q)' /\ SessionOf[q] \notin tainted'
    BY <2>1, <2>3 DEF FanKeeps, SentBy, IsForeign
  <2>4. QED
    BY <2>2, <2>3
<1>4. QED
  BY <1>2, <1>3 DEF ArrivalInv, FanInv

(* A step of run r that leaves the other runs alone. *)
LEMMA DriverArrivals ==
  ASSUME LoopInv, LoopInv', ArrivalInv, SessionAssumption, NEW r \in Runs,
         \A q \in Runs \ {r} :
           /\ pc'[q] = pc[q] /\ loop'[q] = loop[q] /\ cached'[q] = cached[q]
           /\ snapshot'[q] = snapshot[q] /\ outcome'[q] = outcome[q] /\ fan'[q] = fan[q]
           /\ q \in opened' => q \in opened,
         tainted \subseteq tainted', arrived \subseteq arrived',
         \A s \in Sessions \ tainted' : Sendings(ToSet(store'[s])) \subseteq Shown(s) \cup arrived',
         SessionOf[r] \notin tainted' /\ r \in opened' /\ Live(r)' =>
           \A m \in Sendings(Carried(r)') :
             m \in Shown(SessionOf[r]) \cup arrived' \/ (m.call[1] = r /\ ~Fanning(r)'),
         Fanning(r)' /\ SessionOf[r] \notin tainted' => FanKeeps(r)' \/ FanGoesOn(r)
  PROVE  ArrivalInv'
<1>1. ASSUME NEW s \in Sessions \ tainted', NEW m \in Sendings(Shown(s)')
      PROVE  \/ m \in Shown(s) \cup arrived'
             \/ SessionOf[m.call[1]] = s /\ ~Fanning(m.call[1])'
  <2>1. m \in ToSet(store'[s]) \/ \E q \in Holders(s)' : m \in Carried(q)'
    BY <1>1 DEF Shown, Sendings
  <2>2. CASE m \in ToSet(store'[s])
    <3>1. m \in Sendings(ToSet(store'[s]))
      BY <1>1, <2>2 DEF Sendings
    <3>2. QED
      BY <1>1, <3>1
  <2>3. ASSUME NEW q \in Holders(s)', m \in Carried(q)'
        PROVE  \/ m \in Shown(s) \cup arrived'
               \/ SessionOf[m.call[1]] = s /\ ~Fanning(m.call[1])'
    <3>1. q \in Runs /\ q \in opened' /\ SessionOf[q] = s /\ Live(q)'
      BY <2>3 DEF Holders, LoopInv, TypeOK
    <3>2. CASE q = r
      <4>1. m \in Sendings(Carried(r)')
        BY <1>1, <2>3, <3>2 DEF Sendings
      <4>2. QED
        BY <3>1, <3>2, <4>1
    <3>3. CASE q # r
      <4>1. q \in opened /\ Live(q) /\ Carried(q)' = Carried(q)
        BY <3>1, <3>3 DEF Live, Carried
      <4>2. q \in Holders(s) /\ m \in Carried(q)
        BY <2>3, <3>1, <4>1 DEF Holders
      <4>3. QED
        BY <4>2 DEF Shown
    <3>4. QED
      BY <3>2, <3>3
  <2>4. QED
    BY <2>1, <2>2, <2>3
<1>2. ASSUME NEW q \in Runs, q # r, Fanning(q)'
      PROVE  FanGoesOn(q)
  BY <1>2 DEF FanGoesOn, Fanning, ToFan
<1>3. \A q \in Runs : Fanning(q)' /\ SessionOf[q] \notin tainted' => FanKeeps(q)' \/ FanGoesOn(q)
  BY <1>2
<1>4. QED
  BY <1>1, <1>3, ArrivalStep

(* A step of the loop of run r, or out of it. *)
LEMMA InnerArrivals ==
  ASSUME LoopInv, LoopInv', ArrivalInv, SessionAssumption, NEW r \in Runs,
         \A q \in Runs \ {r} : pc'[q] = pc[q] /\ loop'[q] = loop[q] /\ outcome'[q] = outcome[q],
         UNCHANGED <<store, opened, cached, snapshot, fan, arrived, tainted>>,
         pc'[r] \notin {"fan", "fanwrite", "sent"},
         r \in opened =>
           /\ Live(r)
           /\ \A m \in Sendings(ToSet(loop'[r].log) \cup ToSet(loop'[r].todo)) :
                m \in Carried(r) \/ m.call[1] = r
  PROVE  ArrivalInv'
<1>1. ~Fanning(r)'
  BY DEF Fanning
<1>2. ASSUME r \in opened', NEW m \in Sendings(Carried(r)')
      PROVE  m \in Shown(SessionOf[r]) \/ m.call[1] = r
  <2>1. r \in opened /\ r \in Holders(SessionOf[r])
    BY <1>2 DEF Holders
  <2>2. Carried(r) \subseteq Shown(SessionOf[r])
    BY <2>1 DEF Shown
  <2>3. m \in Carried(r) \/ m.call[1] = r
    <3>1. CASE m \in ToSet(cached[r]) \cup ToSet(snapshot[r])
      BY <3>1 DEF Carried
    <3>2. CASE m \in ToSet(loop'[r].log) \cup ToSet(loop'[r].todo)
      <4>1. m \in Sendings(ToSet(loop'[r].log) \cup ToSet(loop'[r].todo))
        BY <1>2, <3>2 DEF Sendings
      <4>2. QED
        BY <2>1, <4>1
    <3>3. m \in Carried(r)'
      BY <1>2 DEF Sendings
    <3>4. QED
      BY <3>1, <3>2, <3>3 DEF Carried
  <2>4. QED
    BY <2>2, <2>3
<1>3. \A s \in Sessions \ tainted' : Sendings(ToSet(store'[s])) \subseteq Shown(s) \cup arrived'
  BY DEF Sendings, Shown
<1>4. SessionOf[r] \notin tainted' /\ r \in opened' /\ Live(r)' =>
        \A m \in Sendings(Carried(r)') :
          m \in Shown(SessionOf[r]) \cup arrived' \/ (m.call[1] = r /\ ~Fanning(r)')
  BY <1>1, <1>2
<1>5. Fanning(r)' /\ SessionOf[r] \notin tainted' => FanKeeps(r)' \/ FanGoesOn(r)
  BY <1>1
<1>6. \A q \in Runs \ {r} :
        /\ pc'[q] = pc[q] /\ loop'[q] = loop[q] /\ cached'[q] = cached[q]
        /\ snapshot'[q] = snapshot[q] /\ outcome'[q] = outcome[q] /\ fan'[q] = fan[q]
        /\ q \in opened' => q \in opened
  OBVIOUS
<1>7. tainted \subseteq tainted' /\ arrived \subseteq arrived'
  OBVIOUS
<1>8. QED
  BY <1>3, <1>4, <1>5, <1>6, <1>7, DriverArrivals

(* No run moves on but to its end; what is stored was shown before. *)
LEMMA QuietArrivals ==
  ASSUME LoopInv', ArrivalInv, SessionAssumption, arrived' = arrived, tainted \subseteq tainted',
         \A q \in Runs : q \in opened' /\ Live(q)' =>
           q \in opened /\ Live(q) /\ Carried(q)' = Carried(q),
         \A q \in Runs : Fanning(q)' => Fanning(q) /\ ToFan(q)' = ToFan(q),
         \A s \in Sessions \ tainted' : Sendings(ToSet(store'[s])) \subseteq Shown(s)
  PROVE  ArrivalInv'
<1>1. ASSUME NEW s \in Sessions \ tainted', NEW m \in Sendings(Shown(s)')
      PROVE  m \in Shown(s)
  <2>1. m \in ToSet(store'[s]) \/ \E q \in Holders(s)' : m \in Carried(q)'
    BY <1>1 DEF Shown, Sendings
  <2>2. CASE m \in ToSet(store'[s])
    <3>1. m \in Sendings(ToSet(store'[s]))
      BY <1>1, <2>2 DEF Sendings
    <3>2. QED
      BY <1>1, <3>1
  <2>3. ASSUME NEW q \in Holders(s)', m \in Carried(q)'
        PROVE  m \in Shown(s)
    <3>1. q \in Runs /\ q \in opened' /\ SessionOf[q] = s /\ Live(q)'
      BY <2>3 DEF Holders, LoopInv, TypeOK
    <3>2. q \in Holders(s) /\ m \in Carried(q)
      BY <2>3, <3>1 DEF Holders
    <3>3. QED
      BY <3>2 DEF Shown
  <2>4. QED
    BY <2>1, <2>2, <2>3
<1>2. \A q \in Runs : Fanning(q)' => FanGoesOn(q)
  BY DEF FanGoesOn
<1>3. \A s \in Sessions \ tainted' : \A m \in Sendings(Shown(s)') :
        \/ m \in Shown(s) \cup arrived'
        \/ SessionOf[m.call[1]] = s /\ ~Fanning(m.call[1])'
  BY <1>1
<1>4. \A q \in Runs : Fanning(q)' /\ SessionOf[q] \notin tainted' => FanKeeps(q)' \/ FanGoesOn(q)
  BY <1>2
<1>5. arrived \subseteq arrived'
  OBVIOUS
<1>6. QED
  BY <1>3, <1>4, <1>5, ArrivalStep

LEMMA SpawnDriverArrivals ==
  ASSUME LoopInv, LoopInv', KeepInv, ArrivalInv, SessionAssumption, NEW r \in Runs, SpawnDriver(r)
  PROVE  ArrivalInv'
<1>1. PICK p \in {"start", "refused"} :
        /\ pc[r] = "idle" /\ pc' = [pc EXCEPT ![r] = p]
        /\ UNCHANGED <<store, loop, opened, cached, snapshot, fan, arrived, tainted, outcome>>
  BY DEF SpawnDriver, Goto, stores, hooks, fanout, observed
<1>2. pc'[r] = p /\ \A q \in Runs \ {r} : pc'[q] = pc[q]
  BY <1>1 DEF LoopInv, TypeOK
<1>3. r \notin opened
  BY <1>1 DEF KeepInv, EntryInv, Entry
<1>4. QED
  BY <1>1, <1>2, <1>3, InnerArrivals

(* The log stays as it is, or is gone with the loop. *)
LEMMA LogStaysArrivals ==
  ASSUME LoopInv, LoopInv', ArrivalInv, SessionAssumption, NEW r \in Runs,
         \A q \in Runs \ {r} : pc'[q] = pc[q] /\ loop'[q] = loop[q] /\ outcome'[q] = outcome[q],
         UNCHANGED <<store, opened, cached, snapshot, fan, arrived, tainted>>,
         pc[r] \in InnerPhases, pc'[r] \notin {"fan", "fanwrite", "sent"},
         \/ loop'[r].log = loop[r].log /\ loop'[r].todo = loop[r].todo
         \/ loop'[r].log = <<>> /\ loop'[r].todo = <<>>
  PROVE  ArrivalInv'
<1>1. Live(r)
  BY DEF Live, LivePhases
<1>2. ToSet(<<>>) = {}
  BY DEF ToSet
<1>3. \A m \in Sendings(ToSet(loop'[r].log) \cup ToSet(loop'[r].todo)) : m \in Carried(r)
  BY <1>2 DEF Sendings, Carried
<1>4. QED
  BY <1>1, <1>3, InnerArrivals

LEMMA FinishArrivals ==
  ASSUME LoopInv, LoopInv', ArrivalInv, SessionAssumption, NEW r \in Runs,
         NEW how, Finish(r, how), pc[r] \in InnerPhases,
         UNCHANGED <<store, opened, cached, snapshot, fan, arrived, tainted>>
  PROVE  ArrivalInv'
<1>1. /\ \A q \in Runs \ {r} : pc'[q] = pc[q] /\ loop'[q] = loop[q] /\ outcome'[q] = outcome[q]
      /\ pc'[r] = "stop" /\ loop'[r] = NoLoop
  BY DEF Finish, Goto, LoopInv, TypeOK
<1>2. loop'[r].log = <<>> /\ loop'[r].todo = <<>>
  BY <1>1 DEF NoLoop
<1>3. QED
  BY <1>1, <1>2, LogStaysArrivals

LEMMA LeaveArrivals ==
  ASSUME LoopInv, LoopInv', ArrivalInv, SessionAssumption, NEW r \in Runs,
         Pause(r) \/ ObserveCancel(r) \/ Fail(r)
  PROVE  ArrivalInv'
<1>1. PICK how : /\ pc[r] \in InnerPhases /\ Finish(r, how)
                 /\ UNCHANGED <<store, opened, cached, snapshot, fan, arrived, tainted>>
  BY DEF Pause, ObserveCancel, Fail, At, InnerPhases, stores, hooks, fanout, observed
<1>2. QED
  BY <1>1, FinishArrivals

LEMMA TurnArrivals ==
  ASSUME LoopInv, LoopInv', ArrivalInv, SessionAssumption, NEW r \in Runs,
         BeginTurn(r) \/ DispatchTool(r) \/ SendRequest(r) \/ StreamToolUse(r) \/ FallBack(r)
  PROVE  ArrivalInv'
<1>1. PICK p \in {"summarize", "request", "execute", "llm"} :
        /\ pc[r] \in InnerPhases
        /\ pc' = [pc EXCEPT ![r] = p]
        /\ UNCHANGED <<store, opened, cached, snapshot, fan, arrived, tainted, outcome>>
  <2>1. CASE BeginTurn(r)
    BY <2>1 DEF BeginTurn, At, Goto, InnerPhases, fanout, observed
  <2>2. CASE DispatchTool(r) \/ SendRequest(r)
    BY <2>2 DEF DispatchTool, SendRequest, At, Goto, InnerPhases, stores, hooks, fanout, observed
  <2>3. CASE StreamToolUse(r) \/ FallBack(r)
    <3>1. /\ pc[r] = "llm" /\ pc' = pc
          /\ UNCHANGED <<store, opened, cached, snapshot, fan, arrived, tainted, outcome>>
      BY <2>3 DEF StreamToolUse, FallBack, At, stores, hooks, fanout, observed
    <3>2. pc' = [pc EXCEPT ![r] = "llm"] /\ pc[r] \in InnerPhases
      BY <3>1 DEF LoopInv, TypeOK, InnerPhases
    <3>3. QED
      BY <3>1, <3>2
  <2>4. QED
    BY <2>1, <2>2, <2>3
<1>2. PICK l : /\ loop' = [loop EXCEPT ![r] = l]
               /\ l.log = loop[r].log /\ l.todo = loop[r].todo
  <2>1. loop[r] \in Loops /\ loop \in [Runs -> Loops]
    BY DEF LoopInv, TypeOK
  <2>2. CASE BeginTurn(r) \/ DispatchTool(r)
    <3>1. loop' = [loop EXCEPT ![r] = loop[r]]
      BY <2>1, <2>2 DEF BeginTurn, DispatchTool
    <3>2. QED
      BY <3>1
  <2>3. CASE SendRequest(r) \/ StreamToolUse(r) \/ FallBack(r)
    <3>1. \E attempt, accum :
            loop' = [loop EXCEPT ![r] = [loop[r] EXCEPT !.attempt = attempt, !.accum = accum]]
      <4>1. CASE SendRequest(r)
        BY <4>1 DEF SendRequest
      <4>2. CASE StreamToolUse(r)
        <5>1. PICK accum : loop' = [loop EXCEPT ![r] = [loop[r] EXCEPT !.accum = accum]]
          BY <4>2 DEF StreamToolUse
        <5>2. [loop[r] EXCEPT !.accum = accum] =
                [loop[r] EXCEPT !.attempt = loop[r].attempt, !.accum = accum]
          BY <2>1 DEF Loops
        <5>3. QED
          BY <5>1, <5>2
      <4>3. CASE FallBack(r)
        BY <4>3 DEF FallBack
      <4>4. QED
        BY <2>3, <4>1, <4>2, <4>3
    <3>2. PICK attempt, accum :
            loop' = [loop EXCEPT ![r] = [loop[r] EXCEPT !.attempt = attempt, !.accum = accum]]
      BY <3>1
    <3>3. PICK l : l = [loop[r] EXCEPT !.attempt = attempt, !.accum = accum]
      OBVIOUS
    <3>4. l.log = loop[r].log /\ l.todo = loop[r].todo
      BY <2>1, <3>3 DEF Loops
    <3>5. QED
      BY <3>2, <3>3, <3>4
  <2>4. QED
    BY <2>2, <2>3
<1>3. /\ \A q \in Runs \ {r} : pc'[q] = pc[q] /\ loop'[q] = loop[q] /\ outcome'[q] = outcome[q]
      /\ pc'[r] = p
      /\ loop'[r].log = loop[r].log /\ loop'[r].todo = loop[r].todo
  BY <1>1, <1>2 DEF LoopInv, TypeOK
<1>4. QED
  BY <1>1, <1>3, LogStaysArrivals

(* A compaction adds nothing but its summary. *)
LEMMA CompactedIn ==
  ASSUME NEW S, NEW msgs \in Seq(S), NEW keep \in Nat, Summary \in S
  PROVE  ToSet(CompactedLog(msgs, keep)) \subseteq ToSet(msgs) \cup {Summary}
<1>1. PICK st, en, log :
         /\ log = CompactedLog(msgs, keep)
         /\ st \in 0..Len(msgs) /\ en \in 0..Len(msgs)
         /\ log \in Seq(S)
         /\ Len(log) = st + 1 + (Len(msgs) - en)
         /\ \A i \in 1..st : log[i] = msgs[i]
         /\ log[st + 1] = Summary
         /\ \A i \in en + 1 .. Len(msgs) : log[i - en + st + 1] = msgs[i]
         /\ st = PlanStart(msgs)
  BY CompactedLogIs
<1>2. Len(msgs) \in Nat /\ \A i \in 1..Len(msgs) : msgs[i] \in ToSet(msgs)
  BY InSeq
<1>3. ASSUME NEW i \in 1..Len(log)
      PROVE  log[i] \in ToSet(msgs) \cup {Summary}
  <2>1. CASE i <= st
    <3>1. i \in 1..st /\ i \in 1..Len(msgs)
      BY <1>1, <1>2, <2>1
    <3>2. QED
      BY <1>1, <1>2, <3>1
  <2>2. CASE i = st + 1
    BY <1>1, <2>2
  <2>3. CASE i > st + 1
    <3>1. PICK j : j = i - st - 1 + en
      OBVIOUS
    <3>2. st \in Nat /\ en \in Nat /\ Len(msgs) \in Nat /\ i \in Nat
      BY <1>1, <1>2, <1>3
    <3>3. i <= st + 1 + (Len(msgs) - en)
      <4>1. i \in 1 .. st + 1 + (Len(msgs) - en)
        BY <1>1, <1>3
      <4>2. QED
        BY <3>2, <4>1
    <3>4. j \in en + 1 .. Len(msgs) /\ j \in 1..Len(msgs) /\ j - en + st + 1 = i
      BY <2>3, <3>1, <3>2, <3>3
    <3>5. log[i] = msgs[j]
      BY <1>1, <3>4
    <3>6. QED
      BY <1>2, <3>4, <3>5
  <2>4. QED
    BY <1>1, <1>2, <2>1, <2>2, <2>3
<1>4. ToSet(log) = {log[i] : i \in 1..Len(log)}
  BY <1>1, InSeq
<1>5. QED
  BY <1>1, <1>3, <1>4

LEMMA SummarizeArrivals ==
  ASSUME LoopInv, LoopInv', ArrivalInv, SessionAssumption, NEW r \in Runs, Summarize(r)
  PROVE  ArrivalInv'
<1>1. /\ pc[r] = "summarize" /\ pc' = [pc EXCEPT ![r] = "request"]
      /\ UNCHANGED <<store, opened, cached, snapshot, fan, arrived, tainted, outcome>>
  BY DEF Summarize, At, Goto, stores, fanout, observed
<1>2. PICK old, log : old = loop[r].log /\ log = CompactedLog(loop[r].log, KeepRecent)
  OBVIOUS
<1>3. \/ loop' = loop
      \/ loop' = [loop EXCEPT ![r].log = log]
  BY <1>2 DEF Summarize
<1>4. /\ loop'[r].log = old \/ loop'[r].log = log
      /\ loop'[r].todo = loop[r].todo
      /\ \A q \in Runs \ {r} : loop'[q] = loop[q]
  <2>1. CASE loop' = loop
    BY <1>2, <2>1
  <2>2. CASE loop' = [loop EXCEPT ![r].log = log]
    <3>1. loop[r] \in Loops /\ loop \in [Runs -> Loops]
      BY LoopFields DEF LoopInv, TypeOK
    <3>2. loop'[r] = [loop[r] EXCEPT !.log = log] /\ \A q \in Runs \ {r} : loop'[q] = loop[q]
      BY <2>2, <3>1
    <3>3. loop'[r].log = log /\ loop'[r].todo = loop[r].todo
      BY <3>1, <3>2 DEF Loops
    <3>4. QED
      BY <3>2, <3>3
  <2>3. QED
    BY <1>3, <2>1, <2>2
<1>5. /\ \A q \in Runs \ {r} : pc'[q] = pc[q] /\ loop'[q] = loop[q] /\ outcome'[q] = outcome[q]
      /\ pc'[r] = "request" /\ Live(r)
  BY <1>1, <1>4 DEF LoopInv, TypeOK, Live, LivePhases, InnerPhases
<1>6. ToSet(log) \subseteq ToSet(old) \cup {Summary}
  <2>1. old \in Seq(Messages) /\ KeepRecent \in Nat /\ Summary \in Messages
    BY <1>2, LoopFields, MessageTypes DEF LoopInv, SessionAssumption
  <2>2. QED
    BY <1>2, <2>1, CompactedIn
<1>7. Summary.kind # "outbound"
  BY DEF Summary
<1>8. ASSUME NEW m \in Sendings(ToSet(loop'[r].log) \cup ToSet(loop'[r].todo))
      PROVE  m \in Carried(r)
  <2>1. m.kind = "outbound" /\ m # Summary
    BY <1>7 DEF Sendings
  <2>2. m \in ToSet(old) \cup ToSet(loop[r].todo)
    BY <1>4, <1>6, <2>1 DEF Sendings
  <2>3. QED
    BY <1>2, <2>2 DEF Carried
<1>9. QED
  BY <1>1, <1>5, <1>8, InnerArrivals

LEMMA EndResponseArrivals ==
  ASSUME LoopInv, LoopInv', ArrivalInv, SessionAssumption, NEW r \in Runs, EndResponse(r)
  PROVE  ArrivalInv'
<1>1. PICK calls, blocks, todo :
        /\ calls = loop[r].accum /\ todo = Append(blocks, Assistant(calls))
        /\ blocks \in {<<>>, <<ProviderBlock(r, loop[r].turn)>>}
        /\ pc[r] = "llm" /\ pc' = [pc EXCEPT ![r] = "answer"]
        /\ loop' = [loop EXCEPT ![r].todo = todo, ![r].batch = calls, ![r].accum = <<>>]
        /\ UNCHANGED <<store, opened, cached, snapshot, fan, arrived, tainted, outcome>>
  BY DEF EndResponse, At, Goto, stores, hooks, fanout, observed
<1>2. loop'[r].log = loop[r].log /\ loop'[r].todo = todo
  BY <1>1, LoopFields DEF LoopInv, TypeOK, Loops
<1>3. /\ \A q \in Runs \ {r} : pc'[q] = pc[q] /\ loop'[q] = loop[q] /\ outcome'[q] = outcome[q]
      /\ pc'[r] = "answer" /\ Live(r)
  BY <1>1 DEF LoopInv, TypeOK, Live, LivePhases, InnerPhases
<1>4. PICK block : block = ProviderBlock(r, loop[r].turn)
  OBVIOUS
<1>5. block.kind # "outbound" /\ Assistant(calls).kind # "outbound"
  BY <1>4 DEF ProviderBlock, Assistant
<1>6. ToSet(todo) \subseteq {block, Assistant(calls)}
  <2>1. PICK S : S = {block, Assistant(calls)}
    OBVIOUS
  <2>2. block \in S /\ Assistant(calls) \in S
    BY <2>1
  <2>3. blocks \in Seq(S)
    <3>1. <<>> \in Seq(S) /\ <<block>> \in Seq(S)
      BY <2>2, OneMessage
    <3>2. QED
      BY <1>1, <1>4, <3>1
  <2>4. todo \in Seq(S)
    BY <1>1, <2>2, <2>3, ToSetAppend
  <2>5. QED
    BY <2>1, <2>4, InSeq
<1>7. ASSUME NEW m \in Sendings(ToSet(loop'[r].log) \cup ToSet(loop'[r].todo))
      PROVE  m \in Carried(r)
  <2>1. m \notin {block, Assistant(calls)}
    BY <1>5 DEF Sendings
  <2>2. m \in ToSet(loop[r].log)
    BY <1>2, <1>6, <2>1 DEF Sendings
  <2>3. QED
    BY <2>2 DEF Carried
<1>8. QED
  BY <1>1, <1>3, <1>7, InnerArrivals

LEMMA ResolveToolArrivals ==
  ASSUME LoopInv, LoopInv', ArrivalInv, SessionAssumption, NEW r \in Runs, ResolveTool(r)
  PROVE  ArrivalInv'
<1>1. PICK c, rest, batch :
        /\ c = Head(loop[r].batch)
        /\ pc[r] = "execute" /\ pc' = [pc EXCEPT ![r] = "resolve"]
        /\ rest \in {<<>>, <<Attachment(c)>>} \cup {<<ChannelOutbound(c, s)>> : s \in Sessions}
        /\ loop' = [loop EXCEPT ![r].todo = <<ToolResult(c)>> \o rest, ![r].batch = batch]
        /\ UNCHANGED <<store, opened, cached, snapshot, fan, arrived, tainted, outcome>>
  BY DEF ResolveTool, At, Goto, stores, hooks, fanout
<1>2. c[1] = r
  <2>1. /\ loop[r].batch \in Responses /\ loop[r].batch # <<>>
        /\ \A i \in DOMAIN loop[r].batch : loop[r].batch[i][1] = r
    BY <1>1, LoopFields, OwnCalls DEF LoopInv
  <2>2. loop[r].batch \in Seq(CallIds)
    BY <2>1, ResponseTypes
  <2>3. c = loop[r].batch[1] /\ 1 \in DOMAIN loop[r].batch
    BY <1>1, <2>1, <2>2, EmptySeq, InSeq
  <2>4. QED
    BY <2>1, <2>2, <2>3, InSeq
<1>3. PICK S : S = {ToolResult(c), Attachment(c)} \cup {ChannelOutbound(c, s) : s \in Sessions}
  OBVIOUS
<1>4. ASSUME NEW m \in S, m.kind = "outbound"
      PROVE  m.call[1] = r
  BY <1>2, <1>3, <1>4 DEF ToolResult, Attachment, ChannelOutbound
<1>5. PICK first, todo : first = <<ToolResult(c)>> /\ todo = first \o rest
  OBVIOUS
<1>6. first \in Seq(S) /\ rest \in Seq(S)
  <2>1. ToolResult(c) \in S /\ Attachment(c) \in S /\ \A s \in Sessions : ChannelOutbound(c, s) \in S
    BY <1>3
  <2>2. <<ToolResult(c)>> \in Seq(S) /\ <<Attachment(c)>> \in Seq(S) /\ <<>> \in Seq(S)
    BY <2>1, OneMessage
  <2>3. \A s \in Sessions : <<ChannelOutbound(c, s)>> \in Seq(S)
    BY <2>1, OneMessage
  <2>4. rest \in Seq(S)
    BY <1>1, <2>2, <2>3
  <2>5. QED
    BY <1>5, <2>2, <2>4
<1>7. ToSet(todo) \subseteq S
  <2>1. first \o rest \in Seq(S)
    BY <1>6, ConcatProperties
  <2>2. QED
    BY <1>5, <2>1, InSeq
<1>8. loop'[r].log = loop[r].log /\ loop'[r].todo = todo
  BY <1>1, <1>5, LoopFields DEF LoopInv, TypeOK, Loops
<1>9. /\ \A q \in Runs \ {r} : pc'[q] = pc[q] /\ loop'[q] = loop[q] /\ outcome'[q] = outcome[q]
      /\ pc'[r] = "resolve" /\ Live(r)
  BY <1>1 DEF LoopInv, TypeOK, Live, LivePhases, InnerPhases
<1>10. ASSUME NEW m \in Sendings(ToSet(loop'[r].log) \cup ToSet(loop'[r].todo))
       PROVE  m \in Carried(r) \/ m.call[1] = r
  <2>1. m \in ToSet(loop[r].log) \/ m \in S
    BY <1>7, <1>8 DEF Sendings
  <2>2. m.kind = "outbound"
    BY DEF Sendings
  <2>3. QED
    BY <1>4, <2>1, <2>2 DEF Carried
<1>11. QED
  BY <1>1, <1>9, <1>10, InnerArrivals

(* The head of a log, and the rest of it. *)
LEMMA HeadAndTail ==
  ASSUME NEW S, NEW t \in Seq(S), t # <<>>
  PROVE  /\ Head(t) \in S /\ Tail(t) \in Seq(S)
         /\ ToSet(t) = {Head(t)} \cup ToSet(Tail(t))
<1>1. Head(t) \in S /\ Tail(t) \in Seq(S)
  BY HeadTailProperties
<1>2. PICK one, rest : one = Append(<<>>, Head(t)) /\ rest = Tail(t)
  OBVIOUS
<1>3. one \in Seq(S) /\ ToSet(one) = {Head(t)} /\ rest \in Seq(S)
  BY <1>1, <1>2, OneMessage
<1>4. one \o rest = t
  <2>1. <<>> \in Seq(S)
    OBVIOUS
  <2>2. one \o rest = <<>> \o t
    BY <1>2, <2>1, AheadStays
  <2>3. QED
    BY <2>2, ConcatEmptySeq
<1>5. ToSet(one \o rest) = ToSet(one) \cup ToSet(rest)
  BY <1>3, ToSetConcat
<1>6. QED
  BY <1>1, <1>2, <1>3, <1>4, <1>5

LEMMA OpenSessionArrivals ==
  ASSUME LoopInv, LoopInv', KeepInv, ArrivalInv, SessionAssumption, NEW r \in Runs, OpenSession(r)
  PROVE  ArrivalInv'
<1>1. /\ pc[r] = "start" /\ pc' = [pc EXCEPT ![r] = "replay"]
      /\ UNCHANGED <<store, outcome, fan, arrived>>
  BY DEF OpenSession, At, Goto, stores, fanout
<1>2. PICK s, old, todo :
        /\ s \in Sessions /\ s = SessionOf[r] /\ old = store[s]
        /\ loop' = [loop EXCEPT ![r].todo = todo]
        /\ \/ /\ todo = Append(old, User(r))
              /\ opened' = opened \cup {r}
              /\ cached' = [cached EXCEPT ![r] = old]
              /\ snapshot' = [snapshot EXCEPT ![r] = old]
              /\ tainted' = IF Holders(s) = {} THEN tainted ELSE tainted \cup {s}
           \/ /\ tainted' = tainted \cup {s}
              /\ UNCHANGED <<opened, cached, snapshot>>
  BY DEF OpenSession, SessionAssumption
<1>3. r \notin opened /\ loop[r].log = <<>>
  BY <1>1 DEF KeepInv, EntryInv, Entry
<1>4. \A q \in Runs \ {r} :
        /\ pc'[q] = pc[q] /\ loop'[q] = loop[q] /\ cached'[q] = cached[q]
        /\ snapshot'[q] = snapshot[q] /\ outcome'[q] = outcome[q] /\ fan'[q] = fan[q]
        /\ q \in opened' => q \in opened
  <2>1. /\ cached' = [cached EXCEPT ![r] = old] \/ cached' = cached
        /\ snapshot' = [snapshot EXCEPT ![r] = old] \/ snapshot' = snapshot
        /\ opened' \subseteq opened \cup {r}
    BY <1>2
  <2>2. /\ DOMAIN cached = Runs /\ DOMAIN snapshot = Runs
        /\ DOMAIN pc = Runs /\ DOMAIN loop = Runs
    BY DEF LoopInv, TypeOK
  <2>3. QED
    BY <1>1, <1>2, <2>1, <2>2
<1>5. tainted \subseteq tainted' /\ arrived \subseteq arrived'
  BY <1>1, <1>2
<1>6. \A x \in Sessions \ tainted' : Sendings(ToSet(store'[x])) \subseteq Shown(x) \cup arrived'
  BY <1>1 DEF Sendings, Shown
<1>7. ~Fanning(r)'
  BY <1>1 DEF Fanning, LoopInv, TypeOK
<1>8. ASSUME r \in opened', NEW m \in Sendings(Carried(r)')
      PROVE  m \in Shown(SessionOf[r])
  <2>1. todo = Append(old, User(r)) /\ cached'[r] = old /\ snapshot'[r] = old
    <3>1. /\ todo = Append(old, User(r))
          /\ cached' = [cached EXCEPT ![r] = old] /\ snapshot' = [snapshot EXCEPT ![r] = old]
      BY <1>2, <1>3, <1>8
    <3>2. QED
      BY <3>1 DEF LoopInv, TypeOK
  <2>2. loop'[r].log = <<>> /\ loop'[r].todo = todo
    BY <1>2, <1>3, LoopFields DEF LoopInv, TypeOK, Loops
  <2>3. old \in Seq(Messages) /\ User(r) \in Messages
    BY <1>2, MessageTypes DEF LoopInv, TypeOK
  <2>4. ToSet(todo) = ToSet(old) \cup {User(r)}
    BY <2>1, <2>3, ToSetAppend
  <2>5. ToSet(<<>>) = {}
    BY DEF ToSet
  <2>6. m \in ToSet(old) \cup {User(r)}
    BY <1>8, <2>1, <2>2, <2>4, <2>5 DEF Carried, Sendings
  <2>7. m # User(r)
    BY <1>8 DEF Sendings, User
  <2>8. QED
    BY <1>2, <2>6, <2>7 DEF Shown
<1>9. SessionOf[r] \notin tainted' /\ r \in opened' /\ Live(r)' =>
        \A m \in Sendings(Carried(r)') :
          m \in Shown(SessionOf[r]) \cup arrived' \/ (m.call[1] = r /\ ~Fanning(r)')
  BY <1>8
<1>10. Fanning(r)' /\ SessionOf[r] \notin tainted' => FanKeeps(r)' \/ FanGoesOn(r)
  BY <1>7
<1>11. QED
  BY <1>4, <1>5, <1>6, <1>9, <1>10, DriverArrivals

LEMMA AppendMessageArrivals ==
  ASSUME LoopInv, LoopInv', ArrivalInv, SessionAssumption, NEW r \in Runs, AppendMessage(r)
  PROVE  ArrivalInv'
<1> PICK s \in Sessions : s = SessionOf[r]
  BY DEF SessionAssumption
<1>1. PICK old, ahead, log, todo :
        /\ old = loop[r].log /\ ahead = loop[r].todo
        /\ log = Append(old, Head(ahead)) /\ todo = Tail(ahead)
  OBVIOUS
<1>2. AppendStep(r, s, log, todo)
  BY <1>1, AppendShape
<1>3. pc[r] \in AppendPhases /\ UNCHANGED <<opened, arrived>> /\ tainted \subseteq tainted'
  BY <1>2 DEF AppendStep
<1>4. UNCHANGED fan
  BY DEF AppendMessage, fanout
<1>5. ToSet(log) \cup ToSet(todo) \subseteq ToSet(old) \cup ToSet(ahead)
  <2>1. old \in Seq(Messages) /\ ahead \in Seq(Messages) /\ ahead # <<>>
    BY <1>1, <1>3, AppendedIs, LoopFields DEF LoopInv
  <2>2. ToSet(ahead) = {Head(ahead)} \cup ToSet(todo) /\ Head(ahead) \in Messages
    BY <1>1, <2>1, HeadAndTail
  <2>3. ToSet(log) = ToSet(old) \cup {Head(ahead)}
    BY <1>1, <2>1, <2>2, ToSetAppend
  <2>4. QED
    BY <2>2, <2>3
<1>6. ToSet(log) \cup ToSet(todo) \subseteq Carried(r)
  BY <1>1, <1>5 DEF Carried
<1>7. Live(r)
  BY <1>3 DEF AppendPhases, Live, LivePhases, InnerPhases
<1>8. r \in opened => Carried(r) \subseteq Shown(s)
  <2>1. ASSUME r \in opened
        PROVE  Carried(r) \subseteq Shown(s)
    <3>1. r \in Holders(s)
      BY <1>7, <2>1 DEF Holders
    <3>2. QED
      BY <3>1 DEF Shown
  <2>2. QED
    BY <2>1
<1>9. \A q \in Runs \ {r} :
        /\ pc'[q] = pc[q] /\ loop'[q] = loop[q] /\ cached'[q] = cached[q]
        /\ snapshot'[q] = snapshot[q] /\ outcome'[q] = outcome[q] /\ fan'[q] = fan[q]
        /\ q \in opened' => q \in opened
  BY <1>2, <1>3, <1>4 DEF AppendStep
<1>10. ASSUME NEW x \in Sessions \ tainted'
       PROVE  Sendings(ToSet(store'[x])) \subseteq Shown(x) \cup arrived'
  <2>1. \/ store'[x] = store[x]
        \/ x = s /\ r \in opened /\ store'[x] = log
    <3>1. CASE x # s
      BY <1>2, <3>1 DEF AppendStep
    <3>2. CASE r \in opened /\ is_error_safe_log(log)
      BY <1>2, <1>10, <3>1, <3>2 DEF AppendStep
    <3>3. CASE ~(r \in opened /\ is_error_safe_log(log))
      BY <1>2, <3>3 DEF AppendStep
    <3>4. QED
      BY <3>1, <3>2, <3>3
  <2>2. ToSet(store'[x]) \subseteq Shown(x)
    BY <1>6, <1>8, <2>1 DEF Shown
  <2>3. QED
    BY <2>2 DEF Sendings
<1>11. ~Fanning(r)'
  <2>1. pc'[r] \in AppendPhases \cup {"turn", "tool", "stop"}
    BY <1>2, <1>3 DEF AppendStep
  <2>2. QED
    BY <2>1 DEF Fanning, AppendPhases
<1>12. ASSUME r \in opened
       PROVE  Carried(r)' \subseteq Carried(r)
  <2>1. ToSet(cached'[r]) \subseteq Carried(r)
    BY <1>2, <1>6, <1>12 DEF AppendStep
  <2>2. ToSet(snapshot'[r]) \subseteq Carried(r)
    <3>1. snapshot'[r] = log \/ snapshot'[r] = snapshot[r]
      BY <1>2 DEF AppendStep
    <3>2. QED
      BY <1>6, <3>1 DEF Carried
  <2>3. ToSet(loop'[r].log) \cup ToSet(loop'[r].todo) \subseteq Carried(r)
    <3>1. /\ loop'[r].log = log \/ loop'[r].log = <<>>
          /\ loop'[r].todo = todo \/ loop'[r].todo = <<>>
      BY <1>2 DEF AppendStep
    <3>2. ToSet(<<>>) = {}
      BY DEF ToSet
    <3>3. QED
      BY <1>6, <3>1, <3>2
  <2>4. QED
    BY <2>1, <2>2, <2>3 DEF Carried
<1>13. SessionOf[r] \notin tainted' /\ r \in opened' /\ Live(r)' =>
         \A m \in Sendings(Carried(r)') :
           m \in Shown(SessionOf[r]) \cup arrived' \/ (m.call[1] = r /\ ~Fanning(r)')
  BY <1>3, <1>8, <1>12 DEF Sendings
<1>14. Fanning(r)' /\ SessionOf[r] \notin tainted' => FanKeeps(r)' \/ FanGoesOn(r)
  BY <1>11
<1>15. arrived \subseteq arrived'
  BY <1>3
<1>16. QED
  BY <1>3, <1>9, <1>10, <1>13, <1>14, <1>15, DriverArrivals

LEMMA OnStopArrivals ==
  ASSUME LoopInv, LoopInv', KeepInv, ArrivalInv, SessionAssumption, NEW r \in Runs, OnStop(r)
  PROVE  ArrivalInv'
<1> PICK s \in Sessions : s = SessionOf[r]
  BY DEF SessionAssumption
<1>1. PICK kept, fanned : /\ kept = KeptLog(r)
                          /\ fanned = IF outcome[r] = "completed" THEN cached[r] ELSE <<>>
  OBVIOUS
<1>2. /\ pc[r] = "stop" /\ opened' = opened \ {r}
      /\ cached' = [cached EXCEPT ![r] = <<>>] /\ snapshot' = [snapshot EXCEPT ![r] = <<>>]
      /\ UNCHANGED <<loop, outcome, arrived>>
      /\ r \in opened => /\ Save(s, kept) /\ pc' = [pc EXCEPT ![r] = "fan"]
                         /\ fan' = [fan EXCEPT ![r] = fanned]
      /\ r \notin opened => /\ UNCHANGED <<store, fan, tainted>>
                            /\ pc' = [pc EXCEPT ![r] = "send"]
  BY <1>1 DEF OnStop, Goto
<1>3. \A q \in Runs \ {r} :
        /\ pc'[q] = pc[q] /\ loop'[q] = loop[q] /\ cached'[q] = cached[q]
        /\ snapshot'[q] = snapshot[q] /\ outcome'[q] = outcome[q] /\ fan'[q] = fan[q]
        /\ q \in opened' => q \in opened
  <2>1. pc' = [pc EXCEPT ![r] = "fan"] \/ pc' = [pc EXCEPT ![r] = "send"]
    BY <1>2
  <2>2. fan' = [fan EXCEPT ![r] = fanned] \/ fan' = fan
    BY <1>2
  <2>3. QED
    BY <1>2, <2>1, <2>2 DEF LoopInv, TypeOK
<1>4. /\ tainted \subseteq tainted'
      /\ \A x \in Sessions \ {s} : store'[x] = store[x]
      /\ r \in opened => store'[s] = kept \/ s \in tainted'
      /\ r \notin opened => store' = store
  <2>1. CASE r \in opened
    <3>1. \/ store' = [store EXCEPT ![s] = kept] /\ tainted' = tainted
          \/ tainted' = tainted \cup {s} /\ store' = store
      BY <1>2, <2>1 DEF Save
    <3>2. QED
      BY <2>1, <3>1 DEF LoopInv, TypeOK
  <2>2. CASE r \notin opened
    BY <1>2, <2>2
  <2>3. QED
    BY <2>1, <2>2
<1>5. Live(r)
  BY <1>2 DEF Live, LivePhases, FinalPhases
<1>6. r \in opened => r \in Holders(s)
  BY <1>5 DEF Holders
<1>7. ASSUME NEW m \in Sendings(ToSet(kept))
      PROVE  m \in Carried(r)
  <2>1. PICK old : old = cached[r] /\ old \in Seq(Messages)
    BY ValueTypes DEF LoopInv
  <2>2. outcome[r] \in {"completed", "paused", "failed"}
    BY <1>2 DEF LoopInv, ControlInv, Control
  <2>3. CASE outcome[r] = "completed"
    BY <1>1, <1>7, <2>3 DEF KeptLog, Carried, Sendings
  <2>4. CASE outcome[r] = "paused"
    <3>1. /\ \A x \in Messages : x.kind = "assistant" => x.calls \in Seq(CallIds)
          /\ \A c \in CallIds : Interrupted(c) \in Messages
      BY MessageTypes, MessageKinds DEF Responses
    <3>2. ToSet(repaired_paused_log(old)) = ToSet(old) \cup {Interrupted(c) : c \in Dangling(old)}
      BY <2>1, <3>1, RepairedLogIs
    <3>3. kept = repaired_paused_log(old)
      BY <1>1, <2>1, <2>4 DEF KeptLog
    <3>4. \A c : m # Interrupted(c)
      BY <1>7 DEF Sendings, Interrupted
    <3>5. QED
      BY <1>7, <2>1, <3>2, <3>3, <3>4 DEF Sendings, Carried
  <2>5. CASE outcome[r] = "failed"
    <3>1. kept = snapshot[r] \/ kept = safe_prefix(old)
      BY <1>1, <2>1, <2>5, KeptLogHolds
    <3>2. ToSet(safe_prefix(old)) \subseteq ToSet(old)
      BY <2>1, SafePrefixIs
    <3>3. QED
      BY <1>7, <2>1, <3>1, <3>2 DEF Sendings, Carried
  <2>6. QED
    BY <2>2, <2>3, <2>4, <2>5
<1>8. ASSUME NEW x \in Sessions \ tainted'
      PROVE  Sendings(ToSet(store'[x])) \subseteq Shown(x) \cup arrived'
  <2>1. CASE store'[x] = store[x]
    BY <2>1 DEF Sendings, Shown
  <2>2. CASE x = s /\ r \in opened /\ store'[s] = kept
    BY <1>6, <1>7, <2>2 DEF Shown
  <2>3. QED
    BY <1>4, <1>8, <2>1, <2>2
<1>9. ASSUME Fanning(r)', s \notin tainted'
      PROVE  FanKeeps(r)'
  <2>1. r \in opened /\ outcome[r] = "completed"
    BY <1>2, <1>9 DEF Fanning, LoopInv, TypeOK
  <2>2. /\ pc'[r] = "fan" /\ fan'[r] = cached[r] /\ store'[s] = cached[r]
    BY <1>1, <1>2, <1>4, <1>9, <2>1 DEF LoopInv, TypeOK, KeptLog
  <2>3. Holders(s)' = {}
    <3>1. ASSUME NEW q \in Holders(s)'
          PROVE  FALSE
      <4>1. q \in opened' /\ SessionOf[q] = s /\ Live(q)' /\ q \in Runs
        BY <3>1 DEF Holders, LoopInv, TypeOK
      <4>2. q # r /\ q \in opened
        BY <1>2, <4>1
      <4>3. Live(q)
        BY <1>3, <4>1, <4>2 DEF Live
      <4>4. q \in Holders(s)
        BY <4>1, <4>2, <4>3 DEF Holders
      <4>5. s \in Sessions \ tainted
        BY <1>4, <1>9
      <4>6. q = r
        BY <1>6, <2>1, <4>4, <4>5 DEF KeepInv, SoleHolderInv
      <4>7. QED
        BY <4>2, <4>6
    <3>2. QED
      BY <3>1
  <2>4. Shown(s)' = ToSet(fan'[r])
    BY <2>2, <2>3 DEF Shown
  <2>5. ToFan(r)' = ToSet(fan'[r])
    BY <2>2 DEF ToFan
  <2>6. QED
    BY <2>4, <2>5 DEF FanKeeps
<1>10. Fanning(r)' /\ SessionOf[r] \notin tainted' => FanKeeps(r)' \/ FanGoesOn(r)
  BY <1>9
<1>11. r \notin opened' /\ tainted \subseteq tainted' /\ arrived \subseteq arrived'
  BY <1>2, <1>4
<1>12. QED
  BY <1>3, <1>8, <1>10, <1>11, DriverArrivals

(* A step of a run after on_stop: it holds no session. *)
LEMMA AfterStopArrivals ==
  ASSUME LoopInv, LoopInv', KeepInv, ArrivalInv, SessionAssumption, NEW r \in Runs,
         pc[r] \in {"fan", "fanwrite", "send"}, NEW p, pc' = [pc EXCEPT ![r] = p],
         NEW f, fan' = [fan EXCEPT ![r] = f],
         UNCHANGED <<loop, opened, cached, snapshot, outcome>>,
         tainted \subseteq tainted', arrived \subseteq arrived',
         \A s \in Sessions \ tainted' : Sendings(ToSet(store'[s])) \subseteq Shown(s) \cup arrived',
         Fanning(r)' => FanGoesOn(r) \/ SessionOf[r] \in tainted'
  PROVE  ArrivalInv'
<1>1. \A q \in Runs \ {r} : pc'[q] = pc[q] /\ fan'[q] = fan[q]
  BY DEF LoopInv, TypeOK
<1>2. r \notin opened'
  <2>1. Entry(r)
    BY DEF KeepInv, EntryInv
  <2>2. QED
    BY <2>1 DEF Entry
<1>3. \A q \in Runs \ {r} :
        /\ pc'[q] = pc[q] /\ loop'[q] = loop[q] /\ cached'[q] = cached[q]
        /\ snapshot'[q] = snapshot[q] /\ outcome'[q] = outcome[q] /\ fan'[q] = fan[q]
        /\ q \in opened' => q \in opened
  BY <1>1
<1>4. SessionOf[r] \notin tainted' /\ r \in opened' /\ Live(r)' =>
        \A m \in Sendings(Carried(r)') :
          m \in Shown(SessionOf[r]) \cup arrived' \/ (m.call[1] = r /\ ~Fanning(r)')
  BY <1>2
<1>5. Fanning(r)' /\ SessionOf[r] \notin tainted' => FanKeeps(r)' \/ FanGoesOn(r)
  OBVIOUS
<1>6. QED
  BY <1>3, <1>4, <1>5, DriverArrivals

LEMMA ReadTargetArrivals ==
  ASSUME LoopInv, LoopInv', KeepInv, ArrivalInv, SessionAssumption, NEW r \in Runs, ReadTarget(r)
  PROVE  ArrivalInv'
<1>1. /\ pc[r] = "fan"
      /\ UNCHANGED <<store, loop, opened, cached, snapshot, outcome, arrived>>
  BY DEF ReadTarget, stores, hooks
<1>2. PICK n, old, out, rest, f, p :
        /\ old = fan[r] /\ n \in DOMAIN old
        /\ out = old[n] /\ rest = SubSeq(old, n + 1, Len(old))
        /\ NextForeign(r, n)
        /\ fan' = [fan EXCEPT ![r] = f] /\ pc' = [pc EXCEPT ![r] = p]
        /\ \/ f = rest /\ p = "fan" /\ tainted' = tainted \cup {out.to}
           \/ f = rest /\ p = "fan" /\ tainted' = tainted /\ out \in ToSet(store[out.to])
           \/ f = <<out>> \o rest /\ p = "fanwrite" /\ tainted' = tainted
  <2>1. PICK n, old, out, rest :
        /\ old = fan[r] /\ n \in DOMAIN old
        /\ out = old[n] /\ rest = SubSeq(old, n + 1, Len(old))
        /\ NextForeign(r, n)
        /\ \/ /\ fan' = [fan EXCEPT ![r] = rest] /\ UNCHANGED pc
              /\ tainted' = tainted \cup {out.to}
           \/ /\ fan' = [fan EXCEPT ![r] = rest] /\ UNCHANGED <<pc, tainted>>
              /\ out \in ToSet(store[out.to])
           \/ /\ fan' = [fan EXCEPT ![r] = <<out>> \o rest]
              /\ pc' = [pc EXCEPT ![r] = "fanwrite"] /\ UNCHANGED tainted
    BY DEF ReadTarget, Goto
  <2>2. UNCHANGED pc => pc' = [pc EXCEPT ![r] = "fan"]
    BY <1>1 DEF LoopInv, TypeOK
  <2>3. QED
    BY <2>1, <2>2
<1>3. /\ old \in Seq(Messages) /\ Len(old) \in Nat /\ n \in 1..Len(old)
      /\ ToSet(old) = {old[i] : i \in 1..Len(old)} /\ out \in Messages
  <2>1. old \in Seq(Messages)
    BY <1>2 DEF LoopInv, TypeOK
  <2>2. /\ Len(old) \in Nat /\ DOMAIN old = 1..Len(old)
        /\ ToSet(old) = {old[i] : i \in 1..Len(old)}
        /\ \A i \in 1..Len(old) : old[i] \in Messages
    BY <2>1, InSeq
  <2>3. n \in 1..Len(old) /\ out \in Messages
    BY <1>2, <2>2
  <2>4. QED
    BY <2>1, <2>2, <2>3
<1>4. out.to \in Sessions /\ out.kind = "outbound" /\ out.to # SessionOf[r]
  BY <1>2, <1>3, MessageKinds DEF NextForeign, IsForeign
<1>5. rest \in Seq(Messages) /\ \A i \in n + 1 .. Len(old) : old[i] \in ToSet(rest)
  <2>1. n + 1 \in Nat /\ n + 1 >= 1 /\ Len(old) <= Len(old)
    BY <1>3
  <2>2. QED
    BY <1>2, <1>3, <2>1, ToSetSubSeq
<1>6. ToSet(<<out>> \o rest) = {out} \cup ToSet(rest)
  <2>1. PICK one : one = <<out>>
    OBVIOUS
  <2>2. one \in Seq(Messages) /\ ToSet(one) = {out}
    BY <1>3, <2>1, OneMessage
  <2>3. ToSet(one \o rest) = ToSet(one) \cup ToSet(rest)
    BY <1>5, <2>2, ToSetConcat
  <2>4. QED
    BY <2>1, <2>2, <2>3
<1>7. ToFan(r) = ToSet(old) /\ ToFan(r)' = ToSet(f)
  BY <1>1, <1>2 DEF ToFan, LoopInv, TypeOK
<1>8. ASSUME NEW m \in ToFan(r), SentBy(r, m), m.to \notin tainted'
      PROVE  m \in arrived' \cup ToFan(r)'
  <2>1. PICK i \in 1..Len(old) : m = old[i]
    BY <1>3, <1>7
  <2>2. IsForeign(r, old[i])
    BY <1>8, <2>1 DEF SentBy
  <2>3. i >= n
    <3>1. \A k \in 1 .. n - 1 : ~IsForeign(r, old[k])
      BY <1>2 DEF NextForeign
    <3>2. i \notin 1 .. n - 1
      BY <2>2, <3>1
    <3>3. QED
      BY <1>3, <3>2
  <2>4. CASE i > n
    <3>1. i \in n + 1 .. Len(old)
      BY <1>3, <2>4
    <3>2. m \in ToSet(rest)
      BY <1>5, <2>1, <3>1
    <3>3. f = rest \/ f = <<out>> \o rest
      BY <1>2
    <3>4. ToSet(rest) \subseteq ToSet(f)
      BY <1>6, <3>3
    <3>5. QED
      BY <1>7, <3>2, <3>4
  <2>5. CASE i = n
    <3>1. m = out /\ m.to \notin tainted
      BY <1>2, <1>8, <2>1, <2>5
    <3>2. CASE out \in ToSet(store[out.to])
      <4>1. SentTo(out.to, out)
        BY <1>4, <1>8, <3>1 DEF SentBy, SentTo
      <4>2. out \in Shown(out.to)
        BY <3>2 DEF Shown
      <4>3. out \in arrived
        BY <1>4, <3>1, <4>1, <4>2 DEF ArrivalInv, BroughtInv
      <4>4. QED
        BY <1>1, <3>1, <4>3
    <3>3. CASE f = <<out>> \o rest
      BY <1>6, <1>7, <3>1, <3>3
    <3>4. QED
      BY <1>2, <1>8, <3>1, <3>2, <3>3
  <2>6. QED
    BY <1>3, <2>3, <2>4, <2>5
<1>9. Fanning(r)' => FanGoesOn(r) \/ SessionOf[r] \in tainted'
  BY <1>1, <1>8 DEF FanGoesOn, Fanning
<1>10. /\ pc[r] \in {"fan", "fanwrite", "send"}
       /\ tainted \subseteq tainted' /\ arrived \subseteq arrived'
       /\ UNCHANGED <<loop, opened, cached, snapshot, outcome>>
  BY <1>1, <1>2
<1>11. \A s \in Sessions \ tainted' : Sendings(ToSet(store'[s])) \subseteq Shown(s) \cup arrived'
  BY <1>1 DEF Sendings, Shown
<1>12. QED
  BY <1>2, <1>9, <1>10, <1>11, AfterStopArrivals

LEMMA WriteTargetArrivals ==
  ASSUME LoopInv, LoopInv', KeepInv, ArrivalInv, SessionAssumption, NEW r \in Runs, WriteTarget(r)
  PROVE  ArrivalInv'
<1>1. PICK old, out, note, pair, read, msgs :
        /\ old = fan[r] /\ out = Head(old) /\ note = NotifyRecord(out) /\ pair = <<out, note>>
        /\ read = copy[r] /\ msgs = read \o pair
  OBVIOUS
<1>2. /\ pc[r] = "fanwrite" /\ pc' = [pc EXCEPT ![r] = "fan"]
      /\ fan' = [fan EXCEPT ![r] = Tail(old)]
      /\ Overwrite(out.to, read, msgs)
      /\ arrived' = IF store'[out.to] = msgs THEN arrived \cup {out} ELSE arrived
      /\ UNCHANGED <<loop, opened, cached, snapshot, outcome>>
  BY <1>1 DEF WriteTarget, Goto, hooks
<1>3. /\ old \in Seq(Messages) /\ old # <<>> /\ out.kind = "outbound"
      /\ read \in Seq(Messages)
  BY <1>1, <1>2, ValueTypes DEF LoopInv, ControlInv, Control
<1>4. /\ out \in Messages /\ Tail(old) \in Seq(Messages)
      /\ ToSet(old) = {out} \cup ToSet(Tail(old))
  BY <1>1, <1>3, HeadAndTail
<1>5. out.to \in Sessions /\ note \in Messages /\ note.kind # "outbound"
  BY <1>1, <1>3, <1>4, MessageKinds DEF NotifyRecord
<1>6. ToSet(msgs) = ToSet(read) \cup {out, note}
  <2>1. pair \in Seq(Messages) /\ Len(pair) = 2 /\ pair[1] = out /\ pair[2] = note
    BY <1>1, <1>4, <1>5
  <2>2. ToSet(pair) = {pair[i] : i \in 1..Len(pair)}
    BY <2>1, InSeq
  <2>3. ToSet(pair) = {out, note}
    BY <2>1, <2>2
  <2>4. ToSet(read \o pair) = ToSet(read) \cup ToSet(pair)
    BY <1>3, <2>1, ToSetConcat
  <2>5. QED
    BY <1>1, <2>3, <2>4
<1>7. /\ tainted \subseteq tainted' /\ arrived \subseteq arrived'
      /\ \A s \in Sessions \ {out.to} : store'[s] = store[s]
      /\ out.to \notin tainted' => /\ store[out.to] = read /\ store'[out.to] = msgs
                                   /\ out \in arrived'
  <2>1. CASE Overwritten(out.to, read, msgs)
    BY <1>2, <1>5, <2>1 DEF Overwritten, LoopInv, TypeOK
  <2>2. CASE tainted' = tainted \cup {out.to} /\ UNCHANGED store
    BY <1>2, <2>2
  <2>3. QED
    BY <1>2, <2>1, <2>2 DEF Overwrite
<1>8. ASSUME NEW s \in Sessions \ tainted'
      PROVE  Sendings(ToSet(store'[s])) \subseteq Shown(s) \cup arrived'
  <2>1. CASE s # out.to
    BY <1>7, <2>1 DEF Sendings, Shown
  <2>2. CASE s = out.to
    <3>1. store[s] = read /\ store'[s] = msgs /\ out \in arrived'
      BY <1>7, <1>8, <2>2
    <3>2. QED
      BY <1>5, <1>6, <3>1 DEF Sendings, Shown
  <2>3. QED
    BY <2>1, <2>2
<1>9. ToFan(r) = ToSet(old) /\ ToFan(r)' = ToSet(Tail(old))
  BY <1>1, <1>2 DEF ToFan, LoopInv, TypeOK
<1>10. ASSUME NEW m \in ToFan(r), m.to \notin tainted'
       PROVE  m \in arrived' \cup ToFan(r)'
  <2>1. CASE m = out
    BY <1>7, <1>10, <2>1
  <2>2. CASE m # out
    BY <1>4, <1>9, <1>10, <2>2
  <2>3. QED
    BY <2>1, <2>2
<1>11. Fanning(r)' => FanGoesOn(r) \/ SessionOf[r] \in tainted'
  BY <1>2, <1>10 DEF FanGoesOn, Fanning
<1>12. pc[r] \in {"fan", "fanwrite", "send"}
  BY <1>2
<1>13. QED
  BY <1>2, <1>7, <1>8, <1>11, <1>12, AfterStopArrivals

LEMMA SendTerminalArrivals ==
  ASSUME LoopInv, LoopInv', KeepInv, ArrivalInv, SessionAssumption, NEW r \in Runs, SendTerminal(r)
  PROVE  ArrivalInv'
<1>1. /\ pc[r] = "send" \/ (pc[r] = "fan" /\ \A m \in ToSet(fan[r]) : ~IsForeign(r, m))
      /\ pc' = [pc EXCEPT ![r] = "sent"]
      /\ fan' = [fan EXCEPT ![r] = <<>>]
      /\ UNCHANGED <<store, loop, opened, cached, snapshot, outcome, arrived, tainted>>
  BY DEF SendTerminal, Goto, stores, hooks, observed
<1>2. ASSUME Fanning(r)', SessionOf[r] \notin tainted'
      PROVE  FanGoesOn(r)
  <2>1. outcome[r] = "completed"
    BY <1>1, <1>2 DEF Fanning
  <2>2. pc[r] # "send"
    <3>1. Entry(r)
      BY DEF KeepInv, EntryInv
    <3>2. pc[r] = "send" => r \notin opened
      BY <3>1 DEF Entry
    <3>3. QED
      BY <1>1, <1>2, <2>1, <3>1, <3>2 DEF Entry
  <2>3. Fanning(r) /\ \A m \in ToFan(r) : ~SentBy(r, m)
    BY <1>1, <2>1, <2>2 DEF Fanning, ToFan, SentBy
  <2>4. QED
    BY <2>3 DEF FanGoesOn
<1>3. \A s \in Sessions \ tainted' : Sendings(ToSet(store'[s])) \subseteq Shown(s) \cup arrived'
  BY <1>1 DEF Sendings, Shown
<1>4. /\ pc[r] \in {"fan", "fanwrite", "send"}
      /\ tainted \subseteq tainted' /\ arrived \subseteq arrived'
  BY <1>1
<1>5. QED
  BY <1>1, <1>2, <1>3, <1>4, AfterStopArrivals

(* The runs in rs are killed, the others left alone. *)
LEMMA KillArrivals ==
  ASSUME LoopInv', ArrivalInv, SessionAssumption, NEW rs \in SUBSET Runs, Kill(rs),
         UNCHANGED <<store, arrived, tainted>>, opened' \subseteq opened,
         \A q \in opened' : cached'[q] = cached[q] /\ snapshot'[q] = snapshot[q]
  PROVE  ArrivalInv'
<1>1. \A q \in rs : pc'[q] = "killed"
  BY DEF Kill
<1>2. \A q \in Runs \ rs :
        pc'[q] = pc[q] /\ loop'[q] = loop[q] /\ fan'[q] = fan[q] /\ outcome'[q] = outcome[q]
  BY DEF Kill
<1>3. ASSUME NEW q \in Runs, q \in opened', Live(q)'
      PROVE  q \in opened /\ Live(q) /\ Carried(q)' = Carried(q)
  <2>1. q \notin rs
    BY <1>1, <1>3 DEF Live, LivePhases, InnerPhases, FinalPhases
  <2>2. QED
    BY <1>2, <1>3, <2>1 DEF Live, Carried
<1>4. ASSUME NEW q \in Runs, Fanning(q)'
      PROVE  Fanning(q) /\ ToFan(q)' = ToFan(q)
  <2>1. q \notin rs
    BY <1>1, <1>4 DEF Fanning
  <2>2. QED
    BY <1>2, <1>4, <2>1 DEF Fanning, ToFan
<1>5. \A s \in Sessions \ tainted' : Sendings(ToSet(store'[s])) \subseteq Shown(s)
  BY DEF Sendings, Shown
<1>6. QED
  BY <1>3, <1>4, <1>5, QuietArrivals

(* A step of another task that leaves the runs alone. *)
LEMMA OtherArrivals ==
  ASSUME LoopInv', ArrivalInv, SessionAssumption,
         UNCHANGED <<pc, loop, opened, cached, snapshot, outcome, fan, arrived>>,
         tainted \subseteq tainted',
         \A s \in Sessions \ tainted' : Sendings(ToSet(store'[s])) \subseteq Shown(s)
  PROVE  ArrivalInv'
<1>1. /\ \A q \in Runs : q \in opened' /\ Live(q)' =>
           q \in opened /\ Live(q) /\ Carried(q)' = Carried(q)
      /\ \A q \in Runs : Fanning(q)' => Fanning(q) /\ ToFan(q)' = ToFan(q)
  BY DEF Live, Carried, Fanning, ToFan
<1>2. QED
  BY <1>1, QuietArrivals

(* A step that none of this depends on. *)
LEMMA IdleArrivals ==
  ASSUME LoopInv', ArrivalInv, SessionAssumption,
         UNCHANGED <<store, pc, loop, opened, cached, snapshot, outcome, fan, arrived, tainted>>
  PROVE  ArrivalInv'
<1>1. \A s \in Sessions \ tainted' : Sendings(ToSet(store'[s])) \subseteq Shown(s)
  BY DEF Sendings, Shown
<1>2. QED
  BY <1>1, OtherArrivals

LEMMA ConsumerArrivals ==
  ASSUME LoopInv', ArrivalInv, SessionAssumption, NEW r \in Runs, Consumer(r)
  PROVE  ArrivalInv'
<1>1. CASE CancelRun(r) \/ DropStream(r) \/ Inject(r) \/ ForwardShutdown(r)
  <2>1. UNCHANGED <<store, pc, loop, opened, cached, snapshot, outcome, fan, arrived, tainted>>
    BY <1>1 DEF CancelRun, DropStream, Inject, ForwardShutdown, stores, hooks, fanout, observed
  <2>2. QED
    BY <2>1, IdleArrivals
<1>2. CASE AbortDropped(r)
  <2>1. PICK rs : rs = {r}
    OBVIOUS
  <2>2. Kill(rs) /\ UNCHANGED <<store, opened, cached, snapshot, arrived, tainted>>
    BY <1>2, <2>1 DEF AbortDropped, stores, hooks, observed
  <2>3. rs \in SUBSET Runs
    BY <2>1
  <2>4. QED
    BY <2>2, <2>3, KillArrivals
<1>3. QED
  BY <1>1, <1>2 DEF Consumer

LEMMA ShutdownArrivals ==
  ASSUME LoopInv', ArrivalInv, SessionAssumption, Shutdown \/ Reboot
  PROVE  ArrivalInv'
<1>1. CASE BeginPause \/ BeginShutdown
  <2>1. UNCHANGED <<store, pc, loop, opened, cached, snapshot, outcome, fan, arrived, tainted>>
    BY <1>1 DEF BeginPause, BeginShutdown, stores, hooks, fanout, observed
  <2>2. QED
    BY <2>1, IdleArrivals
<1>2. CASE FinishShutdown \/ Reboot
  <2>1. PICK rs \in SUBSET Runs : rs = LiveRuns
    BY DEF LiveRuns
  <2>2. /\ Kill(rs) /\ UNCHANGED <<store, arrived, tainted>>
        /\ UNCHANGED <<opened, cached, snapshot>> \/ opened' = {}
    BY <1>2, <2>1 DEF FinishShutdown, Reboot, stores, hooks, observed
  <2>3. /\ opened' \subseteq opened
        /\ \A q \in opened' : cached'[q] = cached[q] /\ snapshot'[q] = snapshot[q]
    BY <2>2
  <2>4. QED
    BY <2>2, <2>3, KillArrivals
<1>3. QED
  BY <1>1, <1>2 DEF Shutdown

(* A command writes back what it read, and no record of a message sent.     *)
LEMMA OverwriteArrivals ==
  ASSUME LoopInv, LoopInv', ArrivalInv, SessionAssumption, NEW s \in Sessions,
         NEW read, NEW msgs, Overwrite(s, read, msgs) \/ UNCHANGED <<store, tainted>>,
         UNCHANGED <<pc, loop, opened, cached, snapshot, outcome, fan, arrived>>,
         Sendings(ToSet(msgs)) \subseteq ToSet(read)
  PROVE  ArrivalInv'
<1>1. /\ tainted \subseteq tainted'
      /\ \A x \in Sessions \ {s} : store'[x] = store[x]
      /\ s \notin tainted' => store'[s] = store[s] \/ (store[s] = read /\ store'[s] = msgs)
  <2>1. CASE Overwritten(s, read, msgs)
    BY <2>1 DEF Overwritten, LoopInv, TypeOK
  <2>2. CASE tainted' = tainted \cup {s} /\ UNCHANGED store
    BY <2>2
  <2>3. CASE UNCHANGED <<store, tainted>>
    BY <2>3
  <2>4. QED
    BY <2>1, <2>2, <2>3 DEF Overwrite
<1>2. ASSUME NEW x \in Sessions \ tainted'
      PROVE  Sendings(ToSet(store'[x])) \subseteq Shown(x)
  <2>1. CASE store'[x] = store[x]
    BY <2>1 DEF Sendings, Shown
  <2>2. CASE x = s /\ store[s] = read /\ store'[s] = msgs
    BY <2>2 DEF Shown
  <2>3. QED
    BY <1>1, <1>2, <2>1, <2>2
<1>3. QED
  BY <1>1, <1>2, OtherArrivals

LEMMA CommandArrivals ==
  ASSUME LoopInv, LoopInv', ArrivalInv, SessionAssumption, NEW s \in Sessions, Commands(s)
  PROVE  ArrivalInv'
<1>1. CASE DispatchCommand(s) \/ CompactRead(s) \/ RecordRead(s)
  <2>1. UNCHANGED <<store, pc, loop, opened, cached, snapshot, outcome, fan, arrived, tainted>>
    BY <1>1 DEF DispatchCommand, CompactRead, RecordRead, stores, hooks, fanout, observed
  <2>2. QED
    BY <2>1, IdleArrivals
<1>2. PICK read : read = command[s].read /\ read \in Seq(Messages) /\ command[s].nth \in Nat
  BY DEF LoopInv, TypeOK
<1>3. CASE CompactWrite(s)
  <2>1. PICK msgs : msgs = CompactedLog(read, KeepRecent)
    OBVIOUS
  <2>2. /\ UNCHANGED <<pc, loop, opened, cached, snapshot, outcome, fan, arrived>>
        /\ Overwrite(s, read, msgs) \/ UNCHANGED <<store, tainted>>
    BY <1>2, <1>3, <2>1 DEF CompactWrite, hooks, fanout, Overwrite
  <2>3. ToSet(msgs) \subseteq ToSet(read) \cup {Summary}
    <3>1. KeepRecent \in Nat /\ Summary \in Messages
      BY MessageTypes DEF SessionAssumption
    <3>2. QED
      BY <1>2, <2>1, <3>1, CompactedIn
  <2>4. Summary.kind # "outbound"
    BY DEF Summary
  <2>5. Sendings(ToSet(msgs)) \subseteq ToSet(read)
    BY <2>3, <2>4 DEF Sendings
  <2>6. QED
    BY <2>2, <2>5, OverwriteArrivals
<1>4. CASE RecordWrite(s)
  <2>1. PICK input, reply, pair, msgs :
          /\ input = CommandInput(command[s].nth) /\ reply = Assistant(<<>>)
          /\ pair = <<input, reply>> /\ msgs = read \o pair
    OBVIOUS
  <2>2. /\ UNCHANGED <<pc, loop, opened, cached, snapshot, outcome, fan, arrived>>
        /\ Overwrite(s, read, msgs)
    BY <1>2, <1>4, <2>1 DEF RecordWrite, hooks, fanout
  <2>3. input \in Messages /\ reply \in Messages
    BY <1>2, <2>1, MessageTypes, ResponseTypes
  <2>4. input.kind # "outbound" /\ reply.kind # "outbound"
    BY <2>1 DEF CommandInput, Assistant
  <2>5. ToSet(msgs) = ToSet(read) \cup {input, reply}
    <3>1. pair \in Seq(Messages) /\ Len(pair) = 2 /\ pair[1] = input /\ pair[2] = reply
      BY <2>1, <2>3
    <3>2. ToSet(pair) = {pair[i] : i \in 1..Len(pair)}
      BY <3>1, InSeq
    <3>3. ToSet(pair) = {input, reply}
      BY <3>1, <3>2
    <3>4. ToSet(read \o pair) = ToSet(read) \cup ToSet(pair)
      BY <1>2, <3>1, ToSetConcat
    <3>5. QED
      BY <2>1, <3>3, <3>4
  <2>6. Sendings(ToSet(msgs)) \subseteq ToSet(read)
    BY <2>4, <2>5 DEF Sendings
  <2>7. QED
    BY <2>2, <2>6, OverwriteArrivals
<1>5. QED
  BY <1>1, <1>3, <1>4 DEF Commands

LEMMA InitArrivals ==
  ASSUME Init
  PROVE  ArrivalInv
<1>1. /\ store = [s \in Sessions |-> <<>>] /\ opened = {}
      /\ pc = [r \in Runs |-> "idle"]
  BY DEF Init
<1>2. ToSet(<<>>) = {}
  BY DEF ToSet
<1>3. \A s \in Sessions : Shown(s) = {}
  BY <1>1, <1>2 DEF Shown, Holders
<1>4. BroughtInv
  BY <1>3 DEF BroughtInv
<1>5. FanInv
  BY <1>1 DEF FanInv, FanKeeps, Fanning
<1>6. QED
  BY <1>4, <1>5 DEF ArrivalInv

LEMMA NextArrivals ==
  ASSUME LoopInv, LoopInv', KeepInv, ArrivalInv, SessionAssumption, [Next]_vars
  PROVE  ArrivalInv'
<1>1. ASSUME NEW r \in Runs, Driver(r)
      PROVE  ArrivalInv'
  BY <1>1, SpawnDriverArrivals, OpenSessionArrivals, AppendMessageArrivals, LeaveArrivals,
     TurnArrivals, SummarizeArrivals, EndResponseArrivals, ResolveToolArrivals, OnStopArrivals,
     ReadTargetArrivals, WriteTargetArrivals, SendTerminalArrivals DEF Driver
<1>2. ASSUME NEW r \in Runs, Consumer(r)
      PROVE  ArrivalInv'
  BY <1>2, ConsumerArrivals
<1>3. ASSUME NEW s \in Sessions, Commands(s)
      PROVE  ArrivalInv'
  BY <1>3, CommandArrivals
<1>4. CASE UNCHANGED vars
  <2>1. UNCHANGED <<store, pc, loop, opened, cached, snapshot, outcome, fan, arrived, tainted>>
    BY <1>4 DEF vars, stores, hooks, fanout, observed
  <2>2. QED
    BY <2>1, IdleArrivals
<1>5. QED
  BY <1>1, <1>2, <1>3, <1>4, ShutdownArrivals DEF Next

------------------------------------------------------------------------------
(* The invariant *)

LEMMA InitKeep ==
  ASSUME Init
  PROVE  KeepInv
<1>1. /\ pc = [r \in Runs |-> "idle"] /\ loop = [r \in Runs |-> NoLoop]
      /\ opened = {} /\ ready = {} /\ executed = {} /\ recorded = {} /\ arrived = {}
      /\ tainted = {}
      /\ history = [r \in Runs |-> <<>>]
      /\ command = [s \in Sessions |-> NoCommand]
  BY DEF Init
<1>2. EntryInv
  BY <1>1 DEF EntryInv, Entry, TurnPhases, InnerPhases, NoLoop
<1>3. SoleHolderInv /\ HeldInv
  BY <1>1 DEF SoleHolderInv, Holders, HeldInv
<1>4. CommandInv
  BY <1>1 DEF CommandInv, NoCommand
<1>5. SessionInv
  BY <1>1 DEF SessionInv, SessionKept, Owed
<1>6. QED
  BY <1>2, <1>3, <1>4, <1>5 DEF KeepInv

LEMMA NextKeeps ==
  ASSUME LoopInv, LoopInv', KeepInv, SessionAssumption, [Next]_vars
  PROVE  KeepInv'
<1>1. ASSUME NEW r \in Runs, Driver(r)
      PROVE  KeepInv'
  BY <1>1, SpawnDriverKeeps, OpenSessionKeeps, AppendMessageKeeps, PauseKeeps, BeginTurnKeeps,
     SummarizeKeeps, SendRequestKeeps, StreamToolUseKeeps, FallBackKeeps, EndResponseKeeps,
     DispatchToolKeeps, ResolveToolKeeps, LeaveKeeps, OnStopKeeps, ReadTargetKeeps,
     WriteTargetKeeps, SendTerminalKeeps DEF Driver
<1>2. ASSUME NEW r \in Runs, Consumer(r)
      PROVE  KeepInv'
  BY <1>2, ConsumerKeeps
<1>3. ASSUME NEW s \in Sessions, Commands(s)
      PROVE  KeepInv'
  BY <1>3, DispatchCommandKeeps, CompactReadKeeps, CompactWriteKeeps, RecordReadKeeps,
     RecordWriteKeeps DEF Commands
<1>4. CASE UNCHANGED vars
  <2>1. UNCHANGED <<store, archive, pc, loop, opened, cached, snapshot, outcome, command, history,
                    ready, executed, recorded, arrived, tainted>>
    BY <1>4 DEF vars, stores, hooks, observed
  <2>2. QED
    BY <2>1, IdleKeeps
<1>5. QED
  BY <1>1, <1>2, <1>3, <1>4, ShutdownKeeps DEF Next

(* What a session owes is in its store or its archive, and in whatever a    *)
(* run that holds the session may write over them next; and what was sent   *)
(* to it, by runs that have fanned out, is owed by it.                      *)
THEOREM SurvivalInvHolds == Spec => []SurvivalInv
<1>1. Spec => []LoopInv
  BY TypesHold, PTL DEF LoopInv
<1>2. Init => KeepInv /\ ArrivalInv
  BY InitKeep, InitArrivals
<1>3. LoopInv /\ LoopInv' /\ KeepInv /\ ArrivalInv /\ [Next]_vars => KeepInv' /\ ArrivalInv'
  BY NextKeeps, NextArrivals, SessionAssumption
<1>4. LoopInv /\ KeepInv /\ ArrivalInv => SurvivalInv
  BY DEF LoopInv, KeepInv, ArrivalInv, SurvivalInv
<1>5. QED
  BY <1>1, <1>2, <1>3, <1>4, PTL DEF Spec

(* A prompt a run has accepted, and a command that was recorded, stay in    *)
(* the session or its archive: whatever happens to the run, to later runs   *)
(* and to the process, as long as no write of the session failed or         *)
(* overlapped another one and every loaded history was replayed.            *)
THEOREM InputSurvives == Spec => []AcceptedInputSurvives
<1>1. SurvivalInv => AcceptedInputSurvives
  <2>1. ASSUME SurvivalInv
        PROVE  AcceptedInputSurvives
    <3>1. /\ ready \subseteq Runs /\ recorded \subseteq Sessions \X Nat
          /\ \A s \in Sessions : Calm(s) => Owed(s) \subseteq Kept(s)
      BY <2>1 DEF SurvivalInv, TypeOK, SessionInv, SessionKept
    <3>2. ASSUME NEW r \in ready, Calm(SessionOf[r])
          PROVE  User(r) \in Kept(SessionOf[r])
      <4>1. SessionOf[r] \in Sessions
        BY <3>1, SessionAssumption DEF SessionAssumption
      <4>2. User(r) \in Owed(SessionOf[r])
        BY DEF Owed
      <4>3. QED
        BY <3>1, <3>2, <4>1, <4>2
    <3>3. ASSUME NEW x \in recorded, Calm(x[1])
          PROVE  CommandInput(x[2]) \in Kept(x[1])
      <4>1. x[1] \in Sessions
        BY <3>1
      <4>2. CommandInput(x[2]) \in Owed(x[1])
        BY DEF Owed
      <4>3. QED
        BY <3>1, <3>3, <4>1, <4>2
    <3>4. QED
      BY <3>2, <3>3 DEF AcceptedInputSurvives
  <2>2. QED
    BY <2>1
<1>2. QED
  BY <1>1, SurvivalInvHolds, PTL

(* The results of what a run has executed are kept when it completes, runs  *)
(* out of turns or is paused.                                               *)
THEOREM WorkSurvives == Spec => []ExecutedWorkSurvives
<1>1. SurvivalInv => ExecutedWorkSurvives
  <2>1. ASSUME SurvivalInv, NEW r \in Runs, pc[r] = "sent",
               outcome[r] \in {"completed", "paused"}, Calm(SessionOf[r]),
               NEW c \in executed, c[1] = r
        PROVE  ToolResult(c) \in Kept(SessionOf[r])
    <3>1. SessionOf[r] \in Sessions
      BY SessionAssumption DEF SessionAssumption
    <3>2. Owed(SessionOf[r]) \subseteq Kept(SessionOf[r])
      BY <2>1, <3>1 DEF SurvivalInv, SessionInv, SessionKept
    <3>3. ToolResult(c) \in Owed(SessionOf[r])
      BY <2>1 DEF Owed, Delivered
    <3>4. QED
      BY <3>2, <3>3
  <2>2. QED
    BY <2>1 DEF ExecutedWorkSurvives
<1>2. QED
  BY <1>1, SurvivalInvHolds, PTL

(* A message a completed run has sent to another conversation, and that its *)
(* own session still shows, is in the session it was sent to, or in its     *)
(* archive, as long as no write of either session failed or overlapped      *)
(* another one; and no session has it twice, however many runs fan it out.  *)
THEOREM NotifiesArrive == Spec => []NotifiesArriveOnce
<1>1. ASSUME SurvivalInv, NEW r \in Runs, pc[r] = "sent", outcome[r] = "completed",
             Calm(SessionOf[r]), NEW m \in ToSet(store[SessionOf[r]]), m.kind = "outbound",
             m.call[1] = r, m.to # SessionOf[r], Calm(m.to)
      PROVE  m \in Kept(m.to)
  <2>1. m \in Shown(SessionOf[r])
    BY DEF Shown
  <2>2. SentBy(r, m) /\ Fanning(r) /\ ToFan(r) = {}
    BY <1>1 DEF SentBy, IsForeign, Fanning, ToFan
  <2>3. SessionOf[r] \notin tainted /\ m.to \notin tainted
    BY <1>1 DEF Calm
  <2>4. m \in arrived
    BY <1>1, <2>1, <2>2, <2>3 DEF SurvivalInv, FanInv, FanKeeps
  <2>5. m.to \in Sessions
    BY <1>1, <2>4, MessageKinds DEF SurvivalInv, TypeOK
  <2>6. Owed(m.to) \subseteq Kept(m.to)
    BY <1>1, <2>5 DEF SurvivalInv, SessionInv, SessionKept
  <2>7. m \in Owed(m.to)
    BY <2>4 DEF Owed
  <2>8. QED
    BY <2>6, <2>7
<1>2. SurvivalInv => \A r \in Runs :
        pc[r] = "sent" /\ outcome[r] = "completed" /\ Calm(SessionOf[r]) =>
          \A m \in ToSet(store[SessionOf[r]]) :
            m.kind = "outbound" /\ m.call[1] = r /\ m.to # SessionOf[r] /\ Calm(m.to)
              => m \in Kept(m.to)
  BY <1>1
<1>3. SurvivalInv /\ (\A s \in Sessions : \A i, j \in DOMAIN store[s] :
                        store[s][i].kind = "outbound" /\ store[s][i] = store[s][j] => i = j)
        => NotifiesArriveOnce
  BY <1>2 DEF NotifiesArriveOnce
<1>4. QED
  BY <1>3, SurvivalInvHolds, NotifiesAreSingle, PTL
==============================================================================
