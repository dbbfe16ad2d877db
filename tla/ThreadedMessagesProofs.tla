------------------------ MODULE ThreadedMessagesProofs ------------------------
(***************************************************************************)
(* One conversation of threaded iMessage replies, for any inputs, scripts  *)
(* and numbers of webhooks, runs and faults: an input runs once, an answer *)
(* is sent once and recorded truly, no receipt is left behind, and what    *)
(* /stop found waiting does not run later.  Webhooks wait for the recovery *)
(* (~EarlyWebhooks); without that RunOnce is false.                        *)
(***************************************************************************)
EXTENDS ThreadedMessages, SequenceTheorems, FiniteSetTheorems, TLAPS

Distinct(s) == \A k, l \in DOMAIN s : s[k] = s[l] => k = l

\* Where an input may be: one of these, once.
Bursting == ToSet(burst)
Queued == UNION {ToSet(queue[k]) : k \in DOMAIN queue}
Recovering == ToSet(recovery.inputs)
Held == ToSet(worker.batch)
Dropping == UNION {UNION {ToSet(b) : b \in handlers[h].drops} : h \in Handlers}

Begun == {"started", "running", "unwind", "preflight", "sending"}
RowSet == [state : States, batch : Seq(Inputs), reply : {0} \cup Runs]
WorkerSet ==
  [at : {"off", "loop", "prepare"} \cup Begun, batch : Seq(Chats), run : {0} \cup Runs,
   gave : {"none", "reply", "silent", "failed"}, dead : BOOLEAN]
HandlerSet == [at : {"absent", "prepare", "interrupt", "reply"}, drops : SUBSET Seq(Chats)]
RecoverySet ==
  [at : {"off", "next", "preflight", "sending"}, replies : Seq(Seq(Inputs)), inputs : Seq(Chats)]

DiskTypes ==
  /\ rows \in [Inputs -> RowSet] /\ admitted \in Seq(Inputs)
  /\ outbound \in [Runs -> [known : BOOLEAN, status : {"none", "queued", "failed"}]]
  /\ context \in [nonce : {0} \cup Runs, said : BOOLEAN]
MemoryTypes ==
  /\ gateway \in {"up", "down", "opening", "closing"}
  /\ handlers \in [Handlers -> HandlerSet] /\ posted \in [Inputs -> 0 .. MaxDeliveries]
  /\ burst \in Seq(Chats) /\ queue \in Seq(Seq(Chats))
  /\ worker \in WorkerSet /\ interrupting \in BOOLEAN /\ recovery \in RecoverySet
  /\ tool \in [at : {"idle", "checked", "accepted"}, run : {0} \cup Runs]
HistoryTypes ==
  /\ wire \subseteq Runs /\ landed \subseteq Runs /\ spoke \subseteq Runs
  /\ runs \in 0 .. MaxRuns /\ ran \in [Inputs -> Nat] /\ sends \in [Runs -> Nat]
  /\ doomed \subseteq Chats /\ reported \subseteq Runs

\* A stopped gateway has nothing in memory, and webhooks come after the recovery.
DownInv ==
  gateway \in {"down", "opening"} =>
    /\ handlers = [h \in Handlers |-> NoHandler] /\ burst = <<>> /\ queue = <<>>
    /\ worker = Idle /\ recovery = NoRecovery

\* An input is in one place, once.
PlacesInv ==
  /\ Distinct(burst) /\ Distinct(recovery.inputs) /\ Distinct(worker.batch)
  /\ \A k \in DOMAIN queue : queue[k] # <<>> /\ Distinct(queue[k])
  /\ \A k, l \in DOMAIN queue : ToSet(queue[k]) \cap ToSet(queue[l]) # {} => k = l
  /\ \A h, g \in Handlers : \A b \in handlers[h].drops, c \in handlers[g].drops :
       ToSet(b) \cap ToSet(c) # {} => h = g /\ b = c
ApartInv ==
  /\ Bursting \cap (Queued \cup Recovering \cup Held \cup Dropping) = {}
  /\ Queued \cap (Recovering \cup Held \cup Dropping) = {}
  /\ Recovering \cap (Held \cup Dropping) = {} /\ Held \cap Dropping = {}
WaitInv == \A i \in Bursting \cup Queued \cup Recovering \cup Dropping : rows[i].state = "pending"
HandlerInv ==
  \A h \in Handlers : /\ handlers[h].at # "absent" => h[2] <= posted[h[1]]
                      /\ handlers[h].drops # {} => handlers[h].at = "interrupt" /\ h[1] \in Stops
                      /\ handlers[h].at \in {"interrupt", "reply"} => h[1] \notin Chats

RowInv ==
  \A i \in Inputs :
    /\ rows[i].state = "none" => rows[i].batch = <<>>
    /\ rows[i].state \in {"none", "pending"} => ran[i] = 0
    /\ rows[i].state \in {"none", "pending", "running"} => rows[i].reply = 0
    /\ rows[i].state \in {"reply_pending", "sending"} => rows[i].reply # 0
    /\ i \notin Chats => /\ rows[i].state \in {"none", "running", "uncertain", "done"}
                         /\ rows[i].reply = 0
                         /\ rows[i].state # "none" => rows[i].batch = <<i>>
    /\ rows[i].state # "none" <=> i \in ToSet(admitted)
    /\ ran[i] <= 1
\* The rows of a batch are alike from its first mark on, and a run has one batch.
Together(table) ==
  \A i \in Inputs : table[i].state \notin {"none", "pending"} =>
    /\ i \in ToSet(table[i].batch)
    /\ \A j \in ToSet(table[i].batch) : j \in Inputs /\ table[j] = table[i]
OneReply(table) ==
  \A i, j \in Inputs : table[i].reply # 0 /\ table[i].reply = table[j].reply => table[i] = table[j]

\* What the rows of the worker's batch say.
HeldRow(row) ==
  CASE worker.at = "prepare" -> row.state = "pending"
    [] worker.at \in {"started", "running"} -> row.state = "running"
    [] worker.at = "unwind" /\ worker.gave \in {"none", "failed"} -> row.state = "running"
    [] worker.at = "unwind" /\ worker.gave = "silent" -> row.state = "done" /\ row.reply = 0
    [] worker.at = "sending" -> row.state = "sending" /\ row.reply = worker.run
    [] OTHER -> row.state = "reply_pending" /\ row.reply = worker.run
WorkerInv ==
  /\ worker.at \in {"off", "loop"} <=> worker.batch = <<>>
  /\ worker.at \in Begun <=> worker.run # 0
  /\ worker.at \in {"prepare", "started", "running"} => worker.gave = "none"
  /\ worker.at \in {"preflight", "sending"} => worker.gave = "reply" /\ ~ interrupting
  /\ \A i \in Held : /\ HeldRow(rows[i])
                     /\ worker.at = "started" => ran[i] = 0
                     /\ worker.at \in Begun => rows[i].batch = worker.batch
  /\ worker.run # 0 => \A i \in Inputs : rows[i].reply = worker.run => i \in Held

RecoveryInv ==
  /\ \A k \in DOMAIN recovery.replies : LET b == recovery.replies[k] IN
       /\ b # <<>> /\ Head(b) \in Inputs /\ rows[Head(b)].batch = b /\ Head(b) \notin Held
       /\ rows[Head(b)].state = IF k = 1 /\ recovery.at = "sending" THEN "sending" ELSE "reply_pending"
  /\ Distinct(recovery.replies)
  /\ recovery.at \in {"preflight", "sending"} => recovery.replies # <<>>
  /\ recovery.at = "off" => recovery = NoRecovery

\* Runs are numbered as they begin.
RunsInv ==
  /\ worker.run <= runs /\ tool.run <= runs /\ context.nonce <= runs
  /\ \A i \in Inputs : rows[i].reply <= runs
  /\ \A r \in Runs : r > runs => sends[r] = 0 /\ r \notin spoke
SendInv ==
  /\ \A r \in Runs : sends[r] <= 1
  /\ \A r \in wire \cup landed : sends[r] # 0
  /\ \A r \in spoke : sends[r] = 0
  /\ \A i \in Inputs : rows[i].reply # 0 =>
       /\ rows[i].reply \notin spoke
       /\ rows[i].state \in {"reply_pending", "cancelled"} => sends[rows[i].reply] = 0
       /\ rows[i].state = "done" => rows[i].reply \in landed
ToolInv ==
  /\ tool.at # "idle" => /\ tool.run # 0 /\ sends[tool.run] = 0
                         /\ \A i \in Inputs : rows[i].reply # tool.run
  /\ worker.at \in {"started", "running"} /\ worker.run \in spoke =>
       context.nonce = worker.run /\ context.said
  /\ worker.at \in {"started", "running"} => sends[worker.run] = 0

DoomedInv == \A i \in doomed : rows[i].state = "cancelled" \/ i \in Dropping
OrphanInv ==
  gateway = "up" => \A i \in Inputs :
    /\ rows[i].state = "pending" =>
         \/ i \in Bursting \cup Queued \cup Recovering \cup Dropping
         \/ worker.at = "prepare" /\ i \in Held
    /\ rows[i].state = "running" =>
         \/ i \in Held
         \/ \E h \in Handlers : h[1] = i /\ handlers[h].at \in {"interrupt", "reply"}
    /\ rows[i].state = "sending" =>
         i \in Held \/ (recovery.at = "sending" /\ i \in ToSet(Head(recovery.replies)))

\* What concerns the receipts and the history only.
Accounts ==
  /\ DiskTypes /\ HistoryTypes /\ RowInv /\ Together(rows) /\ OneReply(rows) /\ Distinct(admitted)
  /\ RunsInv /\ SendInv /\ ToolInv /\ FailureSticks
IInv ==
  /\ Accounts /\ MemoryTypes /\ DownInv /\ PlacesInv /\ ApartInv /\ WaitInv /\ HandlerInv
  /\ WorkerInv /\ RecoveryInv /\ DoomedInv /\ OrphanInv

-----------------------------------------------------------------------------
(***************************************************************************)
(* Sequences without repetition.                                           *)
(***************************************************************************)
LEMMA Appended ==
  ASSUME NEW S, NEW s \in Seq(S), NEW e \in S
  PROVE  /\ Append(s, e) \in Seq(S) /\ ToSet(Append(s, e)) = ToSet(s) \cup {e}
         /\ Append(s, e) # <<>>
         /\ Distinct(s) /\ e \notin ToSet(s) => Distinct(Append(s, e))
<1>1. /\ Append(s, e) \in Seq(S) /\ Len(Append(s, e)) = Len(s) + 1 /\ Len(s) \in Nat
      /\ DOMAIN s = 1 .. Len(s) /\ DOMAIN Append(s, e) = 1 .. Len(s) + 1
      /\ \A i \in 1 .. Len(s) : Append(s, e)[i] = s[i]
      /\ Append(s, e)[Len(s) + 1] = e
  OBVIOUS
<1>2. ToSet(Append(s, e)) = ToSet(s) \cup {e}
  BY <1>1 DEF ToSet
<1>3. Append(s, e) # <<>>
  BY <1>1
<1>4. Distinct(s) /\ e \notin ToSet(s) => Distinct(Append(s, e))
  BY <1>1 DEF Distinct, ToSet
<1> QED  BY <1>1, <1>2, <1>3, <1>4

LEMMA Tailed ==
  ASSUME NEW S, NEW s \in Seq(S), s # <<>>
  PROVE  /\ Head(s) \in S /\ Head(s) \in ToSet(s) /\ Head(s) = s[1] /\ 1 \in DOMAIN s
         /\ Tail(s) \in Seq(S) /\ \A k \in DOMAIN Tail(s) : Tail(s)[k] = s[k + 1] /\ k + 1 \in DOMAIN s /\ k + 1 # 1
         /\ ToSet(s) = ToSet(Tail(s)) \cup {Head(s)}
         /\ Distinct(s) => Distinct(Tail(s)) /\ Head(s) \notin ToSet(Tail(s))
<1>1. /\ Tail(s) \in Seq(S) /\ Len(s) \in Nat /\ Len(s) > 0 /\ Len(Tail(s)) = Len(s) - 1
      /\ DOMAIN s = 1 .. Len(s) /\ DOMAIN Tail(s) = 1 .. Len(s) - 1
      /\ \A k \in 1 .. Len(s) - 1 : Tail(s)[k] = s[k + 1]
      /\ Head(s) = s[1] /\ Head(s) \in S
  OBVIOUS
<1>2. Head(s) \in ToSet(s)
  BY <1>1 DEF ToSet
<1>3. \A k \in DOMAIN Tail(s) : Tail(s)[k] = s[k + 1] /\ k + 1 \in DOMAIN s /\ k + 1 # 1
  BY <1>1
<1>4. ToSet(s) = ToSet(Tail(s)) \cup {Head(s)}
  <2>1. ASSUME NEW x \in ToSet(s) PROVE x \in ToSet(Tail(s)) \cup {Head(s)}
    <3>1. PICK k \in 1 .. Len(s) : x = s[k]
      BY <1>1, <2>1 DEF ToSet
    <3>2. CASE k = 1
      BY <1>1, <3>1, <3>2
    <3>3. CASE k # 1
      <4>1. k - 1 \in DOMAIN Tail(s) /\ Tail(s)[k - 1] = x
        BY <1>1, <3>1, <3>3
      <4> QED  BY <4>1 DEF ToSet
    <3> QED  BY <3>2, <3>3
  <2>2. ToSet(Tail(s)) \subseteq ToSet(s)
    BY <1>3 DEF ToSet
  <2> QED  BY <1>2, <2>1, <2>2
<1>5. Distinct(s) => Distinct(Tail(s)) /\ Head(s) \notin ToSet(Tail(s))
  BY <1>1, <1>3 DEF Distinct, ToSet
<1> QED  BY <1>1, <1>2, <1>3, <1>4, <1>5

LEMMA Joined ==
  ASSUME NEW S, NEW s \in Seq(S), NEW t \in Seq(S)
  PROVE  /\ s \o t \in Seq(S) /\ ToSet(s \o t) = ToSet(s) \cup ToSet(t)
         /\ Distinct(s) /\ Distinct(t) /\ ToSet(s) \cap ToSet(t) = {} => Distinct(s \o t)
<1>1. /\ s \o t \in Seq(S) /\ Len(s) \in Nat /\ Len(t) \in Nat
      /\ DOMAIN s = 1 .. Len(s) /\ DOMAIN t = 1 .. Len(t) /\ DOMAIN (s \o t) = 1 .. Len(s) + Len(t)
      /\ \A i \in 1 .. Len(s) : (s \o t)[i] = s[i]
      /\ \A i \in 1 .. Len(s) + Len(t) : i > Len(s) => (s \o t)[i] = t[i - Len(s)]
  BY ConcatProperties, LenProperties
<1>2. \A i \in 1 .. Len(t) : (s \o t)[Len(s) + i] = t[i] /\ Len(s) + i \in DOMAIN (s \o t)
  BY <1>1
<1>3. ToSet(s) \cup ToSet(t) \subseteq ToSet(s \o t)
  <2>1. \A x \in ToSet(s) : \E k \in DOMAIN (s \o t) : (s \o t)[k] = x
    BY <1>1 DEF ToSet
  <2>2. \A x \in ToSet(t) : \E k \in DOMAIN (s \o t) : (s \o t)[k] = x
    BY <1>1, <1>2 DEF ToSet
  <2> QED  BY <2>1, <2>2 DEF ToSet
<1>4. \A i \in DOMAIN (s \o t) :
        \/ i \in DOMAIN s /\ (s \o t)[i] = s[i]
        \/ i - Len(s) \in DOMAIN t /\ (s \o t)[i] = t[i - Len(s)] /\ i > Len(s)
  BY <1>1
<1>5. ToSet(s \o t) \subseteq ToSet(s) \cup ToSet(t)
  BY <1>4 DEF ToSet
<1>6. ASSUME Distinct(s), Distinct(t), ToSet(s) \cap ToSet(t) = {} PROVE Distinct(s \o t)
  <2>1. ASSUME NEW i \in DOMAIN (s \o t), NEW j \in DOMAIN (s \o t), (s \o t)[i] = (s \o t)[j]
        PROVE  i = j
    <3>1. i \in Nat /\ j \in Nat
      BY <1>1
    <3>2. CASE i \in DOMAIN s /\ (s \o t)[i] = s[i] /\ j \in DOMAIN s /\ (s \o t)[j] = s[j]
      BY <1>6, <2>1, <3>2 DEF Distinct
    <3>3. CASE /\ i - Len(s) \in DOMAIN t /\ (s \o t)[i] = t[i - Len(s)]
               /\ j - Len(s) \in DOMAIN t /\ (s \o t)[j] = t[j - Len(s)]
      <4>1. i - Len(s) = j - Len(s)
        BY <1>6, <2>1, <3>3 DEF Distinct
      <4> QED  BY <1>1, <3>1, <4>1
    <3> QED  BY <1>4, <1>6, <2>1, <3>2, <3>3 DEF ToSet
  <2> QED  BY <2>1 DEF Distinct
<1> QED  BY <1>1, <1>3, <1>5, <1>6

(***************************************************************************)
(* Marks.                                                                  *)
(***************************************************************************)
Separate(batches) == \A b, c \in batches : ToSet(b) \cap ToSet(c) # {} => b = c

\* The rows of a batch before a mark: waiting, or marked together before.
Alike(table, b) ==
  \/ \A i \in ToSet(b) : i \in Inputs /\ table[i].state = "pending" /\ table[i].reply = 0
  \/ \A i \in ToSet(b) : /\ i \in Inputs /\ table[i].state \notin {"none", "pending"}
                         /\ table[i].batch = b

LEMMA Marks ==
  ASSUME NEW old \in [Inputs -> RowSet], NEW S, S \subseteq Seq(Inputs), Separate(S),
         NEW state \in States, NEW reply \in {0} \cup Runs
  PROVE  LET new == Mark(old, S, state, reply) IN
         /\ new \in [Inputs -> RowSet]
         /\ \A i \in Inputs : (\A b \in S : i \notin ToSet(b)) => new[i] = old[i]
         /\ \A b \in S : \A i \in Inputs : i \in ToSet(b) =>
              new[i] = IF old[i].state \in Terminal \cup {"none"} THEN old[i]
                       ELSE [state |-> Marked(old[i], state), batch |-> b,
                             reply |-> IF reply = 0 THEN old[i].reply ELSE reply]
<1> DEFINE new == Mark(old, S, state, reply)
<1>1. \A i \in Inputs : new[i] =
         IF old[i].state \notin Terminal \cup {"none"} /\ \E b \in S : i \in ToSet(b)
         THEN [state |-> Marked(old[i], state), batch |-> CHOOSE b \in S : i \in ToSet(b),
               reply |-> IF reply = 0 THEN old[i].reply ELSE reply]
         ELSE old[i]
  BY DEF Mark
<1>2. new = [i \in Inputs |-> new[i]]
  BY DEF Mark
<1> HIDE DEF new
<1>3. \A b \in S : \A i \in ToSet(b) : (CHOOSE c \in S : i \in ToSet(c)) = b
  <2>1. SUFFICES ASSUME NEW b \in S, NEW i \in ToSet(b) PROVE (CHOOSE c \in S : i \in ToSet(c)) = b
    OBVIOUS
  <2>2. /\ (CHOOSE c \in S : i \in ToSet(c)) \in S
        /\ i \in ToSet(CHOOSE c \in S : i \in ToSet(c))
    BY <2>1, Zenon
  <2> QED  BY <2>1, <2>2 DEF Separate
<1>4. \A b \in S : \A i \in Inputs : i \in ToSet(b) =>
         new[i] = IF old[i].state \in Terminal \cup {"none"} THEN old[i]
                  ELSE [state |-> Marked(old[i], state), batch |-> b,
                        reply |-> IF reply = 0 THEN old[i].reply ELSE reply]
  BY <1>1, <1>3
<1>5. \A i \in Inputs : (\A b \in S : i \notin ToSet(b)) => new[i] = old[i]
  BY <1>1
<1>6. ASSUME NEW i \in Inputs PROVE new[i] \in RowSet
  <2>1. CASE \E b \in S : i \in ToSet(b)
    <3>1. PICK b \in S : i \in ToSet(b)
      BY <2>1
    <3>2. Marked(old[i], state) \in States /\ old[i] \in RowSet /\ b \in Seq(Inputs)
      BY DEF Marked, States
    <3>3. CASE old[i].state \in Terminal \cup {"none"}
      BY <1>4, <3>1, <3>2, <3>3
    <3>4. CASE old[i].state \notin Terminal \cup {"none"}
      <4>1. new[i] = [state |-> Marked(old[i], state), batch |-> b,
                      reply |-> IF reply = 0 THEN old[i].reply ELSE reply]
        BY <1>4, <3>1, <3>4
      <4>2. (IF reply = 0 THEN old[i].reply ELSE reply) \in {0} \cup Runs
        BY <3>2 DEF RowSet
      <4> QED  BY <3>2, <4>1, <4>2 DEF RowSet
    <3> QED  BY <3>3, <3>4
  <2> QED  BY <1>5, <2>1
<1> QED  BY <1>2, <1>4, <1>5, <1>6 DEF new

\* A mark keeps the rows of a batch together.
LEMMA MarksTogether ==
  ASSUME NEW old \in [Inputs -> RowSet], Together(old), NEW S, S \subseteq Seq(Inputs), Separate(S),
         \A b \in S : Alike(old, b),
         NEW state \in States \ {"none", "pending"}, NEW reply \in {0} \cup Runs
  PROVE  Together(Mark(old, S, state, reply))
<1> DEFINE new == Mark(old, S, state, reply)
<1>1. /\ \A i \in Inputs : (\A b \in S : i \notin ToSet(b)) => new[i] = old[i]
      /\ \A b \in S : \A i \in Inputs : i \in ToSet(b) =>
           new[i] = IF old[i].state \in Terminal \cup {"none"} THEN old[i]
                    ELSE [state |-> Marked(old[i], state), batch |-> b,
                          reply |-> IF reply = 0 THEN old[i].reply ELSE reply]
  BY Marks
<1> HIDE DEF new
<1>2. ASSUME NEW b \in S, NEW i \in ToSet(b)
      PROVE  i \in Inputs /\ new[i].batch = b /\ \A j \in ToSet(b) : j \in Inputs /\ new[j] = new[i]
  <2>1. CASE \A j \in ToSet(b) : j \in Inputs /\ old[j].state = "pending" /\ old[j].reply = 0
    <3>1. ASSUME NEW j \in ToSet(b) PROVE new[j] = [state |-> state, batch |-> b, reply |-> reply]
      <4>1. j \in Inputs /\ old[j].state = "pending" /\ old[j].reply = 0
        BY <2>1
      <4>2. "pending" \notin Terminal \cup {"none"} /\ Marked(old[j], state) = state
        BY <4>1 DEF Marked, Terminal
      <4>3. new[j] = [state |-> Marked(old[j], state), batch |-> b,
                      reply |-> IF reply = 0 THEN old[j].reply ELSE reply]
        BY <1>1, <4>1, <4>2
      <4> QED  BY <4>1, <4>2, <4>3
    <3> QED  BY <1>2, <2>1, <3>1
  <2>2. CASE \A j \in ToSet(b) : /\ j \in Inputs /\ old[j].state \notin {"none", "pending"}
                                 /\ old[j].batch = b
    <3>1. \A j \in ToSet(b) : old[j] = old[i]
      BY <1>2, <2>2 DEF Together
    <3>2. ASSUME NEW j \in ToSet(b) PROVE new[j] = new[i] /\ new[j].batch = b
      <4>1. i \in Inputs /\ j \in Inputs /\ old[j] = old[i] /\ old[j].batch = b
        BY <1>2, <2>2, <3>1
      <4>2. CASE old[i].state \in Terminal \cup {"none"}
        <5>1. new[i] = old[i] /\ new[j] = old[j]
          BY <1>1, <1>2, <4>1, <4>2
        <5> QED  BY <4>1, <5>1
      <4>3. CASE old[i].state \notin Terminal \cup {"none"}
        <5>1. new[i] = [state |-> Marked(old[i], state), batch |-> b,
                        reply |-> IF reply = 0 THEN old[i].reply ELSE reply]
          BY <1>1, <1>2, <4>1, <4>3
        <5>2. new[j] = [state |-> Marked(old[j], state), batch |-> b,
                        reply |-> IF reply = 0 THEN old[j].reply ELSE reply]
          BY <1>1, <1>2, <4>1, <4>3
        <5>3. new[i].batch = b
          BY <5>1
        <5> QED  BY <4>1, <5>1, <5>2, <5>3
      <4> QED  BY <4>2, <4>3
    <3> QED  BY <1>2, <2>2, <3>2
  <2> QED  BY <1>2, <2>1, <2>2 DEF Alike
<1>3. ASSUME NEW i \in Inputs, \A b \in S : i \notin ToSet(b), old[i].state \notin {"none", "pending"},
             NEW j \in ToSet(old[i].batch)
      PROVE  \A b \in S : j \notin ToSet(b)
  <2>1. i \in ToSet(old[i].batch) /\ j \in Inputs /\ old[j] = old[i]
    BY <1>3 DEF Together
  <2>2. ASSUME NEW b \in S, j \in ToSet(b) PROVE FALSE
    <3>1. old[j].batch = b
      BY <1>3, <2>1, <2>2 DEF Alike
    <3> QED  BY <1>3, <2>1, <2>2, <3>1
  <2> QED  BY <2>2
<1>4. ASSUME NEW i \in Inputs, new[i].state \notin {"none", "pending"}
      PROVE  i \in ToSet(new[i].batch) /\ \A j \in ToSet(new[i].batch) : j \in Inputs /\ new[j] = new[i]
  <2>1. CASE \E b \in S : i \in ToSet(b)
    BY <1>2, <2>1
  <2>2. CASE \A b \in S : i \notin ToSet(b)
    <3>1. new[i] = old[i]
      BY <1>1, <2>2
    <3>2. i \in ToSet(old[i].batch) /\ \A j \in ToSet(old[i].batch) : j \in Inputs /\ old[j] = old[i]
      BY <1>4, <3>1 DEF Together
    <3>3. \A j \in ToSet(old[i].batch) : new[j] = old[j]
      BY <1>1, <1>3, <1>4, <2>2, <3>1, <3>2
    <3> QED  BY <3>1, <3>2, <3>3
  <2> QED  BY <2>1, <2>2
<1>5. Together(new)
  BY <1>4 DEF Together
<1> QED  BY <1>5 DEF new

\* A mark that names no reply keeps the batches of the runs apart.
LEMMA MarksReplies ==
  ASSUME NEW old \in [Inputs -> RowSet], Together(old), OneReply(old),
         \A i \in Inputs : old[i].reply # 0 => old[i].state \notin {"none", "pending"},
         NEW S, S \subseteq Seq(Inputs), Separate(S), \A b \in S : Alike(old, b),
         NEW state \in States
  PROVE  /\ OneReply(Mark(old, S, state, 0))
         /\ \A i \in Inputs : Mark(old, S, state, 0)[i].reply = old[i].reply
<1> DEFINE new == Mark(old, S, state, 0)
<1>1. /\ \A i \in Inputs : (\A b \in S : i \notin ToSet(b)) => new[i] = old[i]
      /\ \A b \in S : \A i \in Inputs : i \in ToSet(b) =>
           new[i] = IF old[i].state \in Terminal \cup {"none"} THEN old[i]
                    ELSE [state |-> Marked(old[i], state), batch |-> b, reply |-> old[i].reply]
  BY Marks
<1> HIDE DEF new
<1>2. ASSUME NEW i \in Inputs PROVE new[i].reply = old[i].reply
  <2>1. CASE new[i] = old[i]
    BY <2>1
  <2>2. CASE \E b : new[i] = [state |-> Marked(old[i], state), batch |-> b, reply |-> old[i].reply]
    BY <2>2
  <2> QED  BY <1>1, <2>1, <2>2
\* Two rows of one batch are marked alike.
<1>5. ASSUME NEW i \in Inputs, NEW j \in Inputs, old[i] = old[j], NEW b \in S, i \in ToSet(b), j \in ToSet(b)
      PROVE  new[i] = new[j]
  <2>1. CASE old[i].state \in Terminal \cup {"none"}
    <3>1. new[i] = old[i] /\ new[j] = old[j]
      BY <1>1, <1>5, <2>1
    <3> QED  BY <1>5, <3>1
  <2>2. CASE old[i].state \notin Terminal \cup {"none"}
    <3>1. \A k \in {i, j} : new[k] = [state |-> Marked(old[i], state), batch |-> b, reply |-> old[i].reply]
      BY <1>1, <1>5, <2>2
    <3> QED  BY <3>1
  <2> QED  BY <2>1, <2>2
<1>3. ASSUME NEW i \in Inputs, NEW j \in Inputs, old[i].reply # 0, old[i].reply = old[j].reply
      PROVE  new[i] = new[j]
  <2>1. old[i] = old[j] /\ old[i].state \notin {"none", "pending"} /\ i \in ToSet(old[i].batch)
        /\ j \in ToSet(old[i].batch)
    BY <1>3 DEF OneReply, Together
  <2>2. CASE \E b \in S : i \in ToSet(b)
    <3>1. PICK b \in S : i \in ToSet(b)
      BY <2>2
    <3>2. old[i].batch = b
      BY <2>1, <3>1 DEF Alike
    <3> QED  BY <1>5, <2>1, <3>1, <3>2
  <2>3. CASE \E b \in S : j \in ToSet(b)
    <3>1. PICK b \in S : j \in ToSet(b)
      BY <2>3
    <3>2. old[i].batch = b
      BY <2>1, <3>1 DEF Alike
    <3> QED  BY <1>5, <2>1, <3>1, <3>2
  <2>4. CASE \A b \in S : i \notin ToSet(b) /\ j \notin ToSet(b)
    BY <1>1, <2>1, <2>4
  <2> QED  BY <2>2, <2>3, <2>4
<1>4. OneReply(new)
  BY <1>2, <1>3 DEF OneReply
<1> QED  BY <1>2, <1>4 DEF new

-----------------------------------------------------------------------------
(***************************************************************************)
(* What the parts of the invariant depend on.                              *)
(***************************************************************************)
DropsStay == \A h \in Handlers : handlers'[h].drops = handlers[h].drops
SlotsStay ==
  /\ UNCHANGED <<burst, queue>> /\ recovery'.inputs = recovery.inputs
  /\ worker'.batch = worker.batch /\ DropsStay

LEMMA Slots ==
  ASSUME SlotsStay
  PROVE  /\ UNCHANGED <<Bursting, Queued, Recovering, Held, Dropping>>
         /\ PlacesInv => PlacesInv'
         /\ ApartInv => ApartInv'
<1>1. UNCHANGED <<Bursting, Queued, Recovering, Held>>
  BY DEF SlotsStay, Bursting, Queued, Recovering, Held
<1>2. UNCHANGED Dropping
  BY DEF SlotsStay, DropsStay, Dropping
<1>3. PlacesInv => PlacesInv'
  BY DEF SlotsStay, DropsStay, PlacesInv
<1>4. ApartInv => ApartInv'
  BY <1>1, <1>2 DEF ApartInv
<1> QED  BY <1>1, <1>2, <1>3, <1>4

LEMMA RunNumbers == Runs \subseteq Nat \ {0} /\ \A n \in 0 .. MaxRuns : n \in Nat
BY ThreadedAssumption DEF Runs

LEMMA RunIsNat == \A r \in {0} \cup Runs : r \in Nat
BY RunNumbers

LEMMA AccountsStay ==
  ASSUME Accounts, UNCHANGED <<disk, tool, wire, landed, runs, ran, sends, spoke, doomed,
                               reported>>,
         worker'.run \in {0, worker.run},
         worker'.at \in {"started", "running"} => worker.at \in {"started", "running"} /\ worker'.run = worker.run,
         MemoryTypes
  PROVE  Accounts'
<1>1. (DiskTypes /\ HistoryTypes)'
  BY DEF Accounts, DiskTypes, HistoryTypes, disk
<1>2. (RowInv /\ Together(rows) /\ OneReply(rows) /\ Distinct(admitted))'
  BY DEF Accounts, RowInv, Together, OneReply, Distinct, disk
<1>3. RunsInv'
  BY RunNumbers DEF Accounts, RunsInv, MemoryTypes, WorkerSet, HistoryTypes, disk
<1>4. SendInv' /\ FailureSticks'
  BY DEF Accounts, SendInv, FailureSticks, disk
<1>5. ToolInv'
  BY DEF Accounts, ToolInv, disk
<1> QED  BY <1>1, <1>2, <1>3, <1>4, <1>5 DEF Accounts

\* A handler moves on, and nothing else changes.
LEMMA HandlerMoves ==
  ASSUME IInv, UNCHANGED <<disk, gateway, burst, queue, worker, interrupting, recovery, tool,
                           wire, landed, runs, ran, sends, spoke, doomed, reported>>,
         handlers' \in [Handlers -> HandlerSet], posted' \in [Inputs -> 0 .. MaxDeliveries],
         DropsStay, HandlerInv', gateway \in {"down", "opening"} => handlers' = handlers,
         \A h \in Handlers : handlers[h].at \in {"interrupt", "reply"} => handlers'[h].at = handlers[h].at
  PROVE  IInv'
<1>1. /\ UNCHANGED <<Bursting, Queued, Recovering, Held, Dropping>> /\ PlacesInv' /\ ApartInv'
  BY Slots DEF SlotsStay, IInv
<1>2. Accounts'
  BY AccountsStay DEF IInv, disk
<1>3. MemoryTypes'
  BY DEF IInv, MemoryTypes
<1>4. DownInv'
  BY DEF IInv, DownInv
<1>5. WaitInv' /\ DoomedInv'
  BY <1>1 DEF IInv, WaitInv, DoomedInv, disk
<1>6. WorkerInv'
  BY <1>1 DEF IInv, WorkerInv, HeldRow, disk
<1>7. RecoveryInv'
  BY <1>1 DEF IInv, RecoveryInv, Distinct, disk
<1>8. OrphanInv'
  BY <1>1 DEF IInv, OrphanInv, disk
<1> QED  BY <1>1, <1>2, <1>3, <1>4, <1>5, <1>6, <1>7, <1>8 DEF IInv

-----------------------------------------------------------------------------
(***************************************************************************)
(* Webhooks.                                                               *)
(***************************************************************************)
LEMMA DeliverStep == ASSUME IInv, ~EarlyWebhooks, NEW i \in Inputs, Deliver(i) PROVE IInv'
<1>1. /\ handlers \in [Handlers -> HandlerSet] /\ posted \in [Inputs -> 0 .. MaxDeliveries]
      /\ MaxDeliveries \in Nat
  BY ThreadedAssumption DEF IInv, MemoryTypes
<1>2. posted[i] \in Nat /\ posted[i] < MaxDeliveries
      /\ posted' = [posted EXCEPT ![i] = posted[i] + 1]
  BY <1>1 DEF Deliver
<1>3. <<i, posted[i] + 1>> \in Handlers
  BY <1>1, <1>2 DEF Handlers
<1>4. PICK h \in Handlers : h = <<i, posted[i] + 1>>
  BY <1>3
<1>5. handlers[h].at = "absent" /\ handlers[h].drops = {}
  BY <1>2, <1>4 DEF IInv, HandlerInv
<1>6. handlers' = handlers \/ handlers' = [handlers EXCEPT ![h].at = "prepare"]
  BY <1>4 DEF Deliver
<1>7. /\ handlers' \in [Handlers -> HandlerSet] /\ \A g \in Handlers : g # h => handlers'[g] = handlers[g]
      /\ handlers'[h].drops = {} /\ handlers'[h].at \in {"absent", "prepare"}
  BY <1>1, <1>5, <1>6 DEF HandlerSet
<1>8. posted' \in [Inputs -> 0 .. MaxDeliveries] /\ \A k \in Inputs : posted'[k] >= posted[k]
  BY <1>1, <1>2
<1>9. HandlerInv'
  <2>1. ASSUME NEW g \in Handlers, g # h, handlers[g].at # "absent" PROVE g[2] <= posted'[g[1]]
    <3>1. g[2] \in Nat /\ g[1] \in Inputs
      BY <1>1 DEF Handlers
    <3> QED  BY <1>1, <1>8, <2>1, <3>1 DEF IInv, HandlerInv
  <2>2. h[2] <= posted'[h[1]]
    BY <1>1, <1>2, <1>4
  <2> QED  BY <1>7, <2>1, <2>2 DEF IInv, HandlerInv
<1>10. gateway \notin {"down", "opening"}
  BY DEF Deliver, Open
<1>11. DropsStay
  BY <1>5, <1>7 DEF DropsStay
<1> QED  BY <1>5, <1>7, <1>8, <1>9, <1>10, <1>11, HandlerMoves DEF Deliver

LEMMA ExpireStep == ASSUME IInv, NEW i \in Inputs, Expire(i) PROVE IInv'
<1>1. UNCHANGED <<handlers, posted>>
  BY DEF Expire, server
<1>2. handlers' \in [Handlers -> HandlerSet] /\ posted' \in [Inputs -> 0 .. MaxDeliveries]
      /\ DropsStay
  BY <1>1 DEF IInv, MemoryTypes, DropsStay
<1>3. HandlerInv'
  BY <1>1 DEF IInv, HandlerInv
<1> QED  BY <1>1, <1>2, <1>3, HandlerMoves DEF Expire, server

\* A handler that is preparing returns.
LEMMA Returns ==
  ASSUME IInv, NEW h \in Handlers, handlers[h].at \in {"prepare", "reply"},
         handlers' = [handlers EXCEPT ![h] = NoHandler]
  PROVE  /\ handlers' \in [Handlers -> HandlerSet] /\ DropsStay
         /\ \A g \in Handlers : g # h => handlers'[g] = handlers[g]
         /\ handlers'[h] = NoHandler /\ UNCHANGED posted => HandlerInv'
<1>1. handlers \in [Handlers -> HandlerSet] /\ handlers[h].drops = {} /\ NoHandler \in HandlerSet
  BY DEF IInv, MemoryTypes, HandlerInv, NoHandler, HandlerSet
<1>2. handlers'[h] = NoHandler /\ \A g \in Handlers : g # h => handlers'[g] = handlers[g]
  BY <1>1
<1>3. DropsStay
  BY <1>1, <1>2 DEF DropsStay, NoHandler
<1>4. UNCHANGED posted => HandlerInv'
  BY <1>2 DEF IInv, HandlerInv, NoHandler
<1> QED  BY <1>1, <1>2, <1>3, <1>4

LEMMA HandlerReturns ==
  ASSUME IInv, NEW h \in Handlers, HandlerFails(h) \/ Ignore(h) PROVE IInv'
<1>1. /\ handlers[h].at = "prepare" /\ handlers' = [handlers EXCEPT ![h] = NoHandler]
      /\ UNCHANGED <<disk, gateway, burst, queue, worker, interrupting, recovery, tool, posted,
                     wire, landed, runs, ran, sends, spoke, doomed, reported>>
  BY DEF HandlerFails, Ignore, Refused, Answered, history
<1>2. /\ handlers' \in [Handlers -> HandlerSet] /\ DropsStay /\ HandlerInv'
      /\ \A g \in Handlers : g # h => handlers'[g] = handlers[g]
  BY <1>1, Returns
<1>3. gateway \notin {"down", "opening"}
  BY <1>1 DEF IInv, DownInv, NoHandler
<1>4. posted' \in [Inputs -> 0 .. MaxDeliveries]
  BY <1>1 DEF IInv, MemoryTypes
<1> QED  BY <1>1, <1>2, <1>3, <1>4, HandlerMoves

-----------------------------------------------------------------------------
(***************************************************************************)
(* The worker and the tool, while the receipts stay as they are.           *)
(***************************************************************************)
LEMMA ReceiptsStay ==
  ASSUME IInv, Accounts',
         UNCHANGED <<rows, gateway, burst, queue, handlers, posted, recovery, doomed>>,
         worker'.batch = worker.batch, worker' \in WorkerSet, interrupting' \in BOOLEAN,
         tool' \in [at : {"idle", "checked", "accepted"}, run : {0} \cup Runs],
         WorkerInv', worker.at = "off" => worker' = worker,
         worker.at = "prepare" => worker'.at = "prepare"
  PROVE  IInv'
<1>1. /\ UNCHANGED <<Bursting, Queued, Recovering, Held, Dropping>> /\ PlacesInv' /\ ApartInv'
  BY Slots DEF SlotsStay, DropsStay, IInv
<1>2. MemoryTypes'
  BY DEF IInv, MemoryTypes
<1>3. DownInv'
  BY DEF IInv, DownInv, Idle
<1>4. WaitInv' /\ DoomedInv'
  BY <1>1 DEF IInv, WaitInv, DoomedInv
<1>5. RecoveryInv'
  BY <1>1 DEF IInv, RecoveryInv, Distinct
<1>6. OrphanInv'
  BY <1>1 DEF IInv, OrphanInv
<1>7. HandlerInv'
  BY DEF IInv, HandlerInv
<1> QED  BY <1>1, <1>2, <1>3, <1>4, <1>5, <1>6, <1>7 DEF IInv

\* How often an input is in a batch without repetition.
LEMMA Occurrences ==
  ASSUME NEW b \in Seq(Chats), Distinct(b), NEW i
  PROVE  Cardinality({k \in DOMAIN b : b[k] = i}) = IF i \in ToSet(b) THEN 1 ELSE 0
<1>1. CASE i \in ToSet(b)
  <2>1. PICK k \in DOMAIN b : b[k] = i
    BY <1>1 DEF ToSet
  <2>2. {l \in DOMAIN b : b[l] = i} = {k}
    BY <2>1 DEF Distinct
  <2> QED  BY <1>1, <2>2, FS_Singleton
<1>2. CASE i \notin ToSet(b)
  <2>1. {l \in DOMAIN b : b[l] = i} = {}
    BY <1>2 DEF ToSet
  <2> QED  BY <1>2, <2>1, FS_EmptySet
<1> QED  BY <1>1, <1>2

\* The rows of the worker's batch, by where the worker is.
LEMMA HeldRows ==
  ASSUME WorkerInv, NEW i \in Held
  PROVE  /\ worker.at = "prepare" => rows[i].state = "pending"
         /\ worker.at \in {"started", "running"} => rows[i].state = "running"
         /\ worker.at = "unwind" /\ worker.gave \in {"none", "failed"} => rows[i].state = "running"
         /\ worker.at = "unwind" /\ worker.gave = "silent" => rows[i].state = "done" /\ rows[i].reply = 0
         /\ worker.at = "sending" => rows[i].state = "sending" /\ rows[i].reply = worker.run
         /\ worker.at = "preflight" => rows[i].state = "reply_pending" /\ rows[i].reply = worker.run
         /\ worker.at = "unwind" /\ worker.gave = "reply" =>
              rows[i].state = "reply_pending" /\ rows[i].reply = worker.run
<1>1. HeldRow(rows[i])
  BY DEF WorkerInv
<1> QED  BY <1>1 DEF HeldRow

LEMMA SubmitStep == ASSUME IInv, Submit PROVE IInv'
<1>1. /\ UNCHANGED <<rows, gateway, burst, queue, handlers, posted, recovery, doomed, tool,
                     interrupting,
                     disk, wire, landed, runs, sends, spoke, reported>>
      /\ worker.at = "started" /\ worker \in WorkerSet /\ worker.batch \in Seq(Chats)
  BY DEF Submit, disk, server, IInv, MemoryTypes, WorkerSet
<1>2. /\ worker' \in WorkerSet /\ worker'.batch = worker.batch /\ worker'.run = worker.run
      /\ worker'.gave = worker.gave /\ worker'.at \in {"running", "unwind"}
  BY <1>1 DEF Submit, WorkerSet, Begun
<1>3. tool' \in [at : {"idle", "checked", "accepted"}, run : {0} \cup Runs]
      /\ interrupting' \in BOOLEAN
  BY <1>1 DEF IInv, MemoryTypes
<1>4. /\ ran' \in [Inputs -> Nat] /\ \A i \in Inputs : ran'[i] = ran[i] \/ (i \in Held /\ ran'[i] = ran[i] + 1)
  <2>1. ran \in [Inputs -> Nat]
    BY DEF IInv, Accounts, HistoryTypes
  <2>2. CASE ran' = ran
    BY <2>1, <2>2
  <2>3. CASE ran' = [i \in Inputs |-> ran[i] + Cardinality({k \in DOMAIN worker.batch : worker.batch[k] = i})]
    <3>1. ASSUME NEW i \in Inputs
          PROVE  Cardinality({k \in DOMAIN worker.batch : worker.batch[k] = i}) = IF i \in Held THEN 1 ELSE 0
      BY <1>1, Occurrences DEF IInv, PlacesInv, Held
    <3>2. ASSUME NEW i \in Inputs
          PROVE  ran'[i] \in Nat /\ (ran'[i] = ran[i] \/ (i \in Held /\ ran'[i] = ran[i] + 1))
      <4>1. ran[i] \in Nat /\ ran'[i] = ran[i] + IF i \in Held THEN 1 ELSE 0
        BY <2>1, <2>3, <3>1
      <4> QED  BY <4>1
    <3> QED  BY <2>3, <3>2
  <2> QED  BY <2>2, <2>3 DEF Submit
<1>5. \A i \in Held : i \in Inputs /\ rows[i].state = "running" /\ ran[i] = 0
  <2>1. Held \subseteq Inputs
    BY <1>1 DEF Held, ToSet, Inputs
  <2> QED  BY <1>1, <2>1, HeldRows DEF IInv, WorkerInv
<1>6. RowInv'
  BY <1>1, <1>4, <1>5 DEF IInv, Accounts, RowInv, disk, HistoryTypes
<1>7. Accounts'
  <2>1. (DiskTypes /\ HistoryTypes)'
    BY <1>1, <1>4 DEF IInv, Accounts, DiskTypes, HistoryTypes, disk
  <2>2. (Together(rows) /\ OneReply(rows) /\ Distinct(admitted))'
    BY <1>1 DEF IInv, Accounts, Together, OneReply, Distinct, disk
  <2>3. (RunsInv /\ SendInv /\ FailureSticks)'
    BY <1>1, <1>2 DEF IInv, Accounts, RunsInv, SendInv, FailureSticks, disk
  <2>4. ToolInv'
    BY <1>1, <1>2 DEF IInv, Accounts, ToolInv, disk
  <2> QED  BY <1>6, <2>1, <2>2, <2>3, <2>4 DEF Accounts
<1>8. WorkerInv'
  <2>1. Held' = Held
    BY <1>2 DEF Held
  <2>2. worker'.gave = "none"
    BY <1>1, <1>2 DEF IInv, WorkerInv
  <2>3. \A i \in Held' : HeldRow(rows[i])'
    BY <1>1, <1>2, <1>5, <2>1, <2>2 DEF HeldRow
  <2> QED  BY <1>1, <1>2, <1>5, <2>1, <2>2, <2>3 DEF IInv, WorkerInv, Begun
<1> QED  BY <1>1, <1>2, <1>3, <1>7, <1>8, ReceiptsStay

LEMMA TurnFailsStep == ASSUME IInv, TurnFails PROVE IInv'
<1>1. /\ UNCHANGED <<rows, gateway, burst, queue, handlers, posted, recovery, doomed, tool,
                     interrupting,
                     disk, wire, landed, runs, ran, sends, spoke, reported>>
      /\ worker.at \in {"started", "running"} /\ worker \in WorkerSet
  BY DEF TurnFails, disk, server, IInv, MemoryTypes
<1>2. /\ worker' \in WorkerSet /\ worker'.batch = worker.batch /\ worker'.run = worker.run
      /\ worker'.gave = "failed" /\ worker'.at = "unwind"
  BY <1>1 DEF TurnFails, WorkerSet, Begun
<1>3. tool' \in [at : {"idle", "checked", "accepted"}, run : {0} \cup Runs]
      /\ interrupting' \in BOOLEAN
  BY <1>1 DEF IInv, MemoryTypes
<1>4. Accounts'
  BY <1>1, <1>2, AccountsStay DEF IInv
<1>5. WorkerInv'
  <2>1. Held' = Held
    BY <1>2 DEF Held
  <2>2. \A i \in Held' : HeldRow(rows[i])'
    <3>1. \A i \in Held : rows[i].state = "running"
      BY <1>1, HeldRows DEF IInv
    <3> QED  BY <1>1, <1>2, <2>1, <3>1 DEF HeldRow
  <2> QED  BY <1>1, <1>2, <2>1, <2>2 DEF IInv, WorkerInv, Begun
<1> QED  BY <1>1, <1>2, <1>3, <1>4, <1>5, ReceiptsStay


LEMMA WorkerStays ==
  ASSUME IInv, UNCHANGED <<worker, interrupting, rows, ran>>
  PROVE  WorkerInv' /\ Held' = Held
<1>1. Held' = Held
  BY DEF Held
<1>2. \A i \in Held' : HeldRow(rows[i])'
  BY <1>1 DEF IInv, WorkerInv, HeldRow
<1> QED  BY <1>1, <1>2 DEF IInv, WorkerInv

LEMMA ToolSteps == ASSUME IInv, ToolChecks \/ ToolStep PROVE IInv'
<1> DEFINE Tools == [at : {"idle", "checked", "accepted"}, run : {0} \cup Runs]
<1>1. /\ UNCHANGED <<rows, admitted, outbound, memory, server, runs, ran, sends, doomed, reported>>
      /\ worker \in WorkerSet /\ tool \in Tools /\ interrupting' \in BOOLEAN
      /\ context \in [nonce : {0} \cup Runs, said : BOOLEAN]
  BY DEF ToolChecks, ToolStep, ToolSends, ToolRecords, disk, history, memory, IInv, MemoryTypes,
         Accounts,
         DiskTypes
<1>2. UNCHANGED <<worker, interrupting, gateway, burst, queue, handlers, posted, recovery, wire,
                  landed>>
  BY <1>1 DEF memory, server
<1>3. WorkerInv' /\ Held' = Held
  BY <1>1, <1>2, WorkerStays
<1>4. SUFFICES tool' \in Tools /\ Accounts'
  BY <1>1, <1>2, <1>3, ReceiptsStay
<1>5. (RowInv /\ Together(rows) /\ OneReply(rows) /\ Distinct(admitted) /\ FailureSticks)'
  BY <1>1 DEF IInv, Accounts, RowInv, Together, OneReply, Distinct, FailureSticks
<1>6. CASE ToolChecks
  <2>1. /\ worker.at = "running" /\ context.nonce = worker.run /\ UNCHANGED <<context, spoke>>
        /\ tool' = [at |-> "checked", run |-> worker.run]
    BY <1>6 DEF ToolChecks, disk, history
  <2>2. tool' \in Tools
    BY <1>1, <2>1 DEF WorkerSet
  <2>3. worker.run # 0 /\ sends[worker.run] = 0
    BY <2>1 DEF IInv, WorkerInv, Begun, Accounts, ToolInv
  <2>4. ASSUME NEW i \in Inputs PROVE rows[i].reply # worker.run
    <3>1. CASE i \in Held
      <4>1. rows[i].state = "running"
        BY <2>1, <3>1, HeldRows DEF IInv
      <4> QED  BY <2>3, <4>1 DEF IInv, Accounts, RowInv
    <3>2. CASE i \notin Held
      BY <2>3, <3>2 DEF IInv, WorkerInv
    <3> QED  BY <3>1, <3>2
  <2>5. (DiskTypes /\ HistoryTypes /\ RunsInv /\ SendInv)'
    BY <1>1, <1>2, <2>1 DEF IInv, Accounts, DiskTypes, HistoryTypes, RunsInv, SendInv
  <2>6. ToolInv'
    BY <1>1, <1>2, <2>1, <2>3, <2>4 DEF IInv, Accounts, ToolInv
  <2> QED  BY <1>5, <2>2, <2>5, <2>6 DEF Accounts
<1>7. CASE ToolSends
  <2>1. /\ UNCHANGED <<context,
                       spoke>> /\ tool.at = "checked" /\ tool'.run = tool.run /\ tool' \in Tools
    BY <1>1, <1>7 DEF ToolSends, disk, history
  <2>2. (DiskTypes /\ HistoryTypes /\ RunsInv /\ SendInv /\ ToolInv)'
    BY <1>1, <1>2, <2>1 DEF IInv, Accounts, DiskTypes, HistoryTypes, RunsInv, SendInv, ToolInv
  <2> QED  BY <1>5, <2>1, <2>2 DEF Accounts
<1>8. CASE ToolRecords
  <2>1. /\ tool.at = "accepted" /\ tool' = [at |-> "idle", run |-> tool.run]
    BY <1>1, <1>8 DEF ToolRecords
  <2>2. tool' \in Tools /\ tool.run \in Runs /\ sends[tool.run] = 0 /\ \A i \in Inputs : rows[i].reply # tool.run
    BY <1>1, <2>1 DEF IInv, Accounts, ToolInv
  <2>3. CASE UNCHANGED <<context, spoke>>
    <3>1. (DiskTypes /\ HistoryTypes /\ RunsInv /\ SendInv /\ ToolInv)'
      BY <1>1, <1>2, <2>1, <2>3
         DEF IInv, Accounts, DiskTypes, HistoryTypes, RunsInv, SendInv, ToolInv
    <3> QED  BY <1>5, <2>2, <3>1 DEF Accounts
  <2>4. CASE /\ context.nonce = tool.run /\ context' = [context EXCEPT !.said = TRUE]
             /\ spoke' = spoke \cup {tool.run}
    <3>1. context' = [nonce |-> tool.run, said |-> TRUE]
      BY <1>1, <2>4
    <3>2. (DiskTypes /\ HistoryTypes)'
      BY <1>1, <1>2, <2>2, <2>4, <3>1 DEF IInv, Accounts, DiskTypes, HistoryTypes
    <3>3. RunsInv'
      BY <1>1, <1>2, <2>1, <2>2, <2>4, <3>1, RunNumbers DEF IInv, Accounts, RunsInv, HistoryTypes
    <3>4. SendInv'
      BY <1>1, <1>2, <2>2, <2>4 DEF IInv, Accounts, SendInv
    <3>5. ToolInv'
      BY <1>1, <1>2, <2>1, <2>4, <3>1 DEF IInv, Accounts, ToolInv
    <3> QED  BY <1>5, <2>2, <3>2, <3>3, <3>4, <3>5 DEF Accounts
  <2> QED  BY <1>8, <2>3, <2>4 DEF ToolRecords
<1> QED  BY <1>6, <1>7, <1>8 DEF ToolStep

\* The server accepts an answer, or reports later that it failed.
LEMMA ServerSteps == ASSUME IInv, NEW r \in Runs, Land(r) \/ FailDelivery(r) PROVE IInv'
<1>1. /\ UNCHANGED <<disk, memory, tool, posted, runs, ran, sends, spoke, doomed, reported>>
      /\ UNCHANGED <<wire,
                     landed>> \/ (r \in wire /\ wire' = wire \ {r} /\ landed' = landed \cup {r})
  BY DEF Land, FailDelivery, history
<1>2. UNCHANGED <<rows, admitted, outbound, context, worker, interrupting, gateway, burst, queue,
                  handlers, recovery>>
  BY <1>1 DEF memory, disk
<1>3. WorkerInv' /\ Held' = Held
  BY <1>1, <1>2, WorkerStays
<1>4. (RowInv /\ Together(rows) /\ OneReply(rows) /\ Distinct(admitted) /\ FailureSticks /\ ToolInv /\ RunsInv)'
  BY <1>1, <1>2
     DEF IInv, Accounts, RowInv, Together, OneReply, Distinct, FailureSticks, ToolInv, RunsInv
<1>5. (DiskTypes /\ HistoryTypes /\ SendInv)'
  BY <1>1, <1>2 DEF IInv, Accounts, DiskTypes, HistoryTypes, SendInv
<1>6. Accounts'
  BY <1>4, <1>5 DEF Accounts
<1> QED  BY <1>1, <1>2, <1>3, <1>6, ReceiptsStay DEF IInv, MemoryTypes

-----------------------------------------------------------------------------
(***************************************************************************)
(* What waits, and how it moves.                                           *)
(***************************************************************************)
LEMMA Waits ==
  ASSUME IInv
  PROVE  /\ Waiting \in Seq(Seq(Chats)) /\ ToSet(Waiting) \subseteq Seq(Chats)
         /\ \A k \in DOMAIN Waiting : Waiting[k] # <<>> /\ Distinct(Waiting[k])
         /\ \A k, l \in DOMAIN Waiting : ToSet(Waiting[k]) \cap ToSet(Waiting[l]) # {} => k = l
         /\ UNION {ToSet(Waiting[k]) : k \in DOMAIN Waiting} = Bursting \cup Queued
         /\ InputsOf(ToSet(Waiting)) = Bursting \cup Queued
         /\ Separate(ToSet(Waiting)) /\ \A b \in ToSet(Waiting) : Alike(rows, b)
<1>1. burst \in Seq(Chats) /\ queue \in Seq(Seq(Chats)) /\ ToSet(burst) = Bursting
  BY DEF IInv, MemoryTypes, Bursting
<1>2. /\ Distinct(burst)
      /\ \A k \in DOMAIN queue : queue[k] # <<>> /\ Distinct(queue[k])
      /\ \A k, l \in DOMAIN queue : ToSet(queue[k]) \cap ToSet(queue[l]) # {} => k = l
      /\ \A k \in DOMAIN queue : ToSet(queue[k]) \subseteq Queued
      /\ Bursting \cap Queued = {}
  BY DEF IInv, PlacesInv, ApartInv, Queued
<1>3. /\ Waiting \in Seq(Seq(Chats))
      /\ \A k \in DOMAIN Waiting : Waiting[k] # <<>> /\ Distinct(Waiting[k])
      /\ \A k, l \in DOMAIN Waiting : ToSet(Waiting[k]) \cap ToSet(Waiting[l]) # {} => k = l
      /\ UNION {ToSet(Waiting[k]) : k \in DOMAIN Waiting} = Bursting \cup Queued
  <2>1. CASE burst = <<>>
    <3>1. Waiting = queue /\ Bursting = {}
      BY <2>1 DEF Waiting, Bursting, ToSet
    <3> QED  BY <1>1, <1>2, <3>1 DEF Queued
  <2>2. CASE burst # <<>>
    <3>1. Waiting = Append(queue, burst)
      BY <2>2 DEF Waiting
    <3>2. /\ Waiting \in Seq(Seq(Chats)) /\ Len(queue) \in Nat
          /\ DOMAIN queue = 1 .. Len(queue) /\ DOMAIN Waiting = 1 .. Len(queue) + 1
          /\ \A k \in DOMAIN queue : Waiting[k] = queue[k]
          /\ Waiting[Len(queue) + 1] = burst
      BY <1>1, <3>1
    <3>3. \A k \in DOMAIN Waiting : k = Len(queue) + 1 \/ k \in DOMAIN queue
      BY <3>2
    <3>4. \A k \in DOMAIN Waiting : Waiting[k] # <<>> /\ Distinct(Waiting[k])
      BY <1>2, <2>2, <3>2, <3>3
    <3>5. ASSUME NEW k \in DOMAIN Waiting, NEW l \in DOMAIN Waiting,
                 ToSet(Waiting[k]) \cap ToSet(Waiting[l]) # {}
          PROVE  k = l
      <4>1. CASE k \in DOMAIN queue /\ l \in DOMAIN queue
        BY <1>2, <3>2, <3>5, <4>1
      <4>2. CASE k \in DOMAIN queue /\ l = Len(queue) + 1
        BY <1>1, <1>2, <3>2, <3>5, <4>2
      <4>3. CASE l \in DOMAIN queue /\ k = Len(queue) + 1
        BY <1>1, <1>2, <3>2, <3>5, <4>3
      <4> QED  BY <3>3, <3>5, <4>1, <4>2, <4>3
    <3>6. UNION {ToSet(Waiting[k]) : k \in DOMAIN Waiting} = Bursting \cup Queued
      <4>1. ASSUME NEW x PROVE x \in Queued <=> \E k \in DOMAIN queue : x \in ToSet(queue[k])
        BY DEF Queued
      <4>2. \A k \in DOMAIN queue : k \in DOMAIN Waiting
        BY <3>2
      <4>3. Len(queue) + 1 \in DOMAIN Waiting
        BY <3>2
      <4> QED  BY <1>1, <3>2, <3>3, <4>1, <4>2, <4>3
    <3> QED  BY <3>2, <3>4, <3>5, <3>6
  <2> QED  BY <2>1, <2>2
<1>4. ToSet(Waiting) = {Waiting[k] : k \in DOMAIN Waiting}
  BY DEF ToSet
<1>5. \A k \in DOMAIN Waiting : Waiting[k] \in Seq(Chats)
  BY <1>3
<1>6. InputsOf(ToSet(Waiting)) = Bursting \cup Queued /\ Separate(ToSet(Waiting))
      /\ ToSet(Waiting) \subseteq Seq(Chats)
  BY <1>3, <1>4, <1>5 DEF InputsOf, Separate
<1>7. ASSUME NEW b \in ToSet(Waiting) PROVE Alike(rows, b)
  <2>1. \A i \in ToSet(b) : i \in Bursting \cup Queued
    BY <1>6 DEF InputsOf
  <2>2. ToSet(b) \subseteq Inputs
    BY <1>6 DEF ToSet, Inputs
  <2>3. \A i \in ToSet(b) : rows[i].state = "pending" /\ rows[i].reply = 0
    BY <2>1, <2>2 DEF IInv, WaitInv, Accounts, RowInv
  <2> QED  BY <2>2, <2>3 DEF Alike
<1> QED  BY <1>3, <1>6, <1>7

\* A restarted loop is as good as one that is off.
LEMMA WokenWorker ==
  ASSUME IInv, worker' = Woken, UNCHANGED <<rows, ran, interrupting>>
  PROVE  /\ worker' \in WorkerSet /\ worker'.batch = worker.batch /\ worker'.run = worker.run
         /\ worker'.at \in {"started", "running"} => worker' = worker
         /\ Held' = Held /\ WorkerInv' /\ (worker.at = "prepare" => worker' = worker)
<1>1. worker \in WorkerSet
  BY DEF IInv, MemoryTypes
<1>2. CASE worker.at = "off"
  <2>1. worker' = [at |-> "loop", batch |-> <<>>, run |-> 0, gave |-> "none", dead |-> FALSE]
    BY <1>2 DEF Woken, Looping, Idle
  <2>2. worker.batch = <<>> /\ worker.run = 0
    BY <1>1, <1>2 DEF IInv, WorkerInv, WorkerSet, Begun
  <2>3. worker' \in WorkerSet
    BY <2>1 DEF WorkerSet
  <2>4. Held' = Held /\ Held = {}
    BY <2>1, <2>2 DEF Held, ToSet
  <2>5. WorkerInv'
    BY <2>1, <2>4 DEF WorkerInv, Begun
  <2> QED  BY <1>2, <2>1, <2>2, <2>3, <2>4, <2>5
<1>3. CASE worker.at # "off"
  <2>1. worker' = worker
    BY <1>3 DEF Woken
  <2> QED  BY <1>1, <2>1, WorkerStays
<1> QED  BY <1>2, <1>3

LEMMA FlushStep ==
  ASSUME IInv, Accounts', queue' = Waiting, burst' = <<>>, worker' = Woken,
         gateway \notin {"down", "opening"},
         UNCHANGED <<rows, gateway, handlers, posted, interrupting, recovery, tool, doomed, ran>>
  PROVE  IInv'
<1>1. /\ Bursting' = {} /\ Queued' = Bursting \cup Queued /\ UNCHANGED <<Recovering, Dropping>>
  <2>1. Bursting' = {}
    BY DEF Bursting, ToSet
  <2>2. Queued' = Bursting \cup Queued
    <3>1. Queued' = UNION {ToSet(Waiting[k]) : k \in DOMAIN Waiting}
      BY DEF Queued
    <3> QED  BY <3>1, Waits
  <2>3. UNCHANGED <<Recovering, Dropping>>
    BY DEF Recovering, Dropping
  <2> QED  BY <2>1, <2>2, <2>3
<1>2. Held' = Held /\ worker' \in WorkerSet /\ worker'.batch = worker.batch /\ WorkerInv'
      /\ (worker.at = "prepare" => worker' = worker)
  BY WokenWorker
<1>3. MemoryTypes'
  BY <1>2, Waits DEF IInv, MemoryTypes
<1>4. DownInv'
  BY DEF DownInv
<1>5. PlacesInv'
  BY <1>2, Waits DEF IInv, PlacesInv, Distinct
<1>6. ApartInv' /\ WaitInv'
  BY <1>1, <1>2 DEF IInv, ApartInv, WaitInv
<1>7. HandlerInv' /\ DoomedInv'
  BY <1>1 DEF IInv, HandlerInv, DoomedInv
<1>8. RecoveryInv' /\ OrphanInv'
  BY <1>1, <1>2 DEF IInv, RecoveryInv, OrphanInv, Distinct
<1> QED  BY <1>2, <1>3, <1>4, <1>5, <1>6, <1>7, <1>8 DEF IInv

LEMMA FlushBurstStep == ASSUME IInv, FlushBurst PROVE IInv'
<1>1. /\ UNCHANGED <<disk, rows, gateway, handlers, posted, interrupting, recovery, tool, doomed,
                     ran, wire,
                     landed, runs, sends, spoke, reported>>
      /\ queue' = Waiting /\ burst' = <<>> /\ worker' = Woken /\ burst # <<>> /\ gateway # "down"
  BY DEF FlushBurst, disk, server, history, Waiting
<1>2. gateway \notin {"down", "opening"}
  BY <1>1 DEF IInv, DownInv
<1>3. Accounts'
  BY <1>1, WokenWorker, AccountsStay DEF IInv
<1> QED  BY <1>1, <1>2, <1>3, FlushStep

LEMMA HandleFailureStep == ASSUME IInv, ~EarlyWebhooks, NEW r \in Runs, HandleFailure(r) PROVE IInv'
<1>1. /\ UNCHANGED <<rows, admitted, context, gateway, handlers, posted, interrupting, recovery,
                     tool, doomed, ran,
                     wire, landed, runs, sends, spoke>>
      /\ gateway \notin {"down", "opening"}
  BY DEF HandleFailure, Open
<1>2. CASE UNCHANGED <<outbound, burst, queue, worker, reported>>
  <2>1. Accounts'
    BY <1>1, <1>2, AccountsStay DEF IInv, disk
  <2> QED  BY <1>1, <1>2, <2>1, WorkerStays, ReceiptsStay DEF IInv, MemoryTypes
<1>3. CASE /\ outbound' = FailureKept(r) /\ reported' = reported \cup {r}
           /\ queue' = Waiting /\ burst' = <<>> /\ worker' = Woken
  <2>1. worker'.run = worker.run /\ (worker'.at \in {"started", "running"} => worker' = worker)
    BY <1>1, <1>3, WokenWorker
  <2>2. outbound \in [Runs -> [known : BOOLEAN, status : {"none", "queued", "failed"}]]
    BY DEF IInv, Accounts, DiskTypes
  <2>3. /\ outbound' \in [Runs -> [known : BOOLEAN, status : {"none", "queued", "failed"}]]
        /\ outbound'[r].status = "failed" /\ \A q \in Runs : q # r => outbound'[q] = outbound[q]
    BY <1>3, <2>2 DEF FailureKept
  <2>4. (DiskTypes /\ HistoryTypes /\ FailureSticks)'
    BY <1>1, <1>3, <2>3 DEF IInv, Accounts, DiskTypes, HistoryTypes, FailureSticks
  <2>5. (RowInv /\ Together(rows) /\ OneReply(rows) /\ Distinct(admitted) /\ SendInv)'
    BY <1>1 DEF IInv, Accounts, RowInv, Together, OneReply, Distinct, SendInv
  <2>6. (RunsInv /\ ToolInv)'
    BY <1>1, <2>1 DEF IInv, Accounts, RunsInv, ToolInv
  <2>7. Accounts'
    BY <2>4, <2>5, <2>6 DEF Accounts
  <2> QED  BY <1>1, <1>3, <2>7, FlushStep
<1> QED  BY <1>2, <1>3 DEF HandleFailure

\* Work that is over leaves the worker idle, with no batch.
LEMMA TakeStep == ASSUME IInv, Take PROVE IInv'
<1>1. /\ UNCHANGED <<disk, rows, gateway, burst, handlers, posted, recovery, tool, doomed, ran,
                     wire,
                     landed, runs, sends, spoke, reported>>
      /\ worker.at = "loop" /\ worker.batch = <<>> /\ Held = {}
  BY DEF Take, disk, server, history, IInv, WorkerInv, Held, ToSet
<1>2. worker \in WorkerSet /\ queue \in Seq(Seq(Chats)) /\ interrupting \in BOOLEAN
  BY DEF IInv, MemoryTypes
<1>3. CASE worker' = Idle /\ UNCHANGED <<queue, interrupting>>
  <2>1. worker' = [at |-> "off", batch |-> <<>>, run |-> 0, gave |-> "none", dead |-> FALSE]
    BY <1>3 DEF Idle
  <2>2. worker' \in WorkerSet /\ worker'.batch = worker.batch
    BY <1>1, <2>1 DEF WorkerSet
  <2>3. WorkerInv'
    BY <1>1, <2>1 DEF WorkerInv, Held, ToSet, Begun
  <2>4. Accounts'
    BY <1>1, <2>1, AccountsStay DEF IInv
  <2> QED  BY <1>1, <1>2, <1>3, <2>2, <2>3, <2>4, ReceiptsStay DEF IInv, MemoryTypes
<1>4. CASE /\ queue # <<>> /\ gateway # "closing" /\ queue' = Tail(queue) /\ interrupting' = FALSE
           /\ worker' = [Looping EXCEPT !.at = "prepare", !.batch = Head(queue)]
  <2>1. worker' = [at |-> "prepare", batch |-> Head(queue), run |-> 0, gave |-> "none", dead |-> FALSE]
    BY <1>4 DEF Looping, Idle
  <2>2. /\ Head(queue) \in Seq(Chats) /\ Head(queue) = queue[1] /\ 1 \in DOMAIN queue
        /\ Tail(queue) \in Seq(Seq(Chats))
        /\ \A k \in DOMAIN Tail(queue) : Tail(queue)[k] = queue[k + 1] /\ k + 1 \in DOMAIN queue /\ k + 1 # 1
        /\ ToSet(queue) = ToSet(Tail(queue)) \cup {Head(queue)}
    BY <1>2, <1>4, Tailed
  <2>3. worker' \in WorkerSet /\ Held' = ToSet(Head(queue)) /\ Head(queue) # <<>> /\ Distinct(Head(queue))
    BY <2>1, <2>2 DEF WorkerSet, Held, IInv, PlacesInv
  <2>4. /\ Queued = Held' \cup Queued' /\ Held' \cap Queued' = {}
        /\ UNCHANGED <<Bursting, Recovering, Dropping>>
    <3>1. Queued = UNION {ToSet(b) : b \in ToSet(queue)}
          /\ Queued' = UNION {ToSet(b) : b \in ToSet(Tail(queue))}
      BY <1>4 DEF Queued, ToSet
    <3>2. Queued = Held' \cup Queued'
      BY <2>2, <2>3, <3>1
    <3>3. \A k \in DOMAIN Tail(queue) : ToSet(Tail(queue)[k]) \cap ToSet(queue[1]) = {}
      BY <2>2 DEF IInv, PlacesInv
    <3>4. ASSUME NEW b \in ToSet(Tail(queue)) PROVE ToSet(b) \cap Held' = {}
      <4>1. PICK k \in DOMAIN Tail(queue) : b = Tail(queue)[k]
        BY DEF ToSet
      <4> QED  BY <2>2, <2>3, <3>3, <4>1
    <3>5. UNCHANGED <<Bursting, Recovering, Dropping>>
      BY <1>1 DEF Bursting, Recovering, Dropping
    <3> QED  BY <3>1, <3>2, <3>4, <3>5
  <2>5. \A i \in Held' : i \in Inputs /\ rows[i].state = "pending" /\ rows[i].reply = 0
    <3>1. Held' \subseteq Inputs
      BY <2>2, <2>3 DEF ToSet, Inputs
    <3> QED  BY <2>4, <3>1 DEF IInv, WaitInv, Accounts, RowInv
  <2>6. MemoryTypes'
    BY <1>1, <1>4, <2>2, <2>3 DEF IInv, MemoryTypes
  <2>7. DownInv'
    BY <1>1, <1>4 DEF IInv, DownInv
  <2>8. PlacesInv'
    <3>1. /\ \A k \in DOMAIN queue' : queue'[k] # <<>> /\ Distinct(queue'[k])
      BY <1>4, <2>2 DEF IInv, PlacesInv
    <3>2. ASSUME NEW k \in DOMAIN queue', NEW l \in DOMAIN queue', ToSet(queue'[k]) \cap ToSet(queue'[l]) # {}
          PROVE  k = l
      <4>1. k + 1 = l + 1
        BY <1>4, <2>2, <3>2 DEF IInv, PlacesInv
      <4>2. k \in Nat /\ l \in Nat
        BY <1>4, <2>2
      <4> QED  BY <4>1, <4>2
    <3> QED  BY <1>1, <2>1, <2>3, <3>1, <3>2 DEF IInv, PlacesInv, Distinct
  <2>9. ApartInv' /\ WaitInv' /\ DoomedInv' /\ HandlerInv'
    BY <1>1, <2>4 DEF IInv, ApartInv, WaitInv, DoomedInv, HandlerInv
  <2>10. WorkerInv'
    <3>1. \A i \in Held' : HeldRow(rows[i])'
      BY <1>1, <2>1, <2>5 DEF HeldRow
    <3> QED  BY <2>1, <2>3, <3>1 DEF WorkerInv, Begun
  <2>11. RecoveryInv'
    <3>1. \A i \in Held' : rows[i].state = "pending"
      BY <2>5
    <3> QED  BY <1>1, <3>1 DEF IInv, RecoveryInv, Distinct
  <2>12. OrphanInv'
    BY <1>1, <2>1, <2>4 DEF IInv, OrphanInv
  <2>13. Accounts'
    BY <1>1, <2>1, AccountsStay DEF IInv
  <2> QED  BY <2>6, <2>7, <2>8, <2>9, <2>10, <2>11, <2>12, <2>13 DEF IInv
<1> QED  BY <1>1, <1>3, <1>4 DEF Take

LEMMA RecoverInputsStep == ASSUME IInv, RecoverInputs PROVE IInv'
<1>1. /\ UNCHANGED <<disk, rows, gateway, queue, handlers, posted, worker, interrupting, tool,
                     doomed, ran, wire,
                     landed, runs, sends, spoke, reported>>
      /\ burst' = burst \o recovery.inputs /\ recovery' = NoRecovery
      /\ recovery.at = "next" /\ recovery.replies = <<>>
  BY DEF RecoverInputs, disk, server, history
<1>2. burst \in Seq(Chats) /\ recovery.inputs \in Seq(Chats) /\ NoRecovery \in RecoverySet
  BY DEF IInv, MemoryTypes, RecoverySet, NoRecovery
<1>3. Distinct(burst) /\ Distinct(recovery.inputs) /\ ToSet(burst) \cap ToSet(recovery.inputs) = {}
  BY DEF IInv, PlacesInv, ApartInv, Bursting, Recovering
<1>4. burst' \in Seq(Chats) /\ ToSet(burst') = ToSet(burst) \cup ToSet(recovery.inputs)
      /\ Distinct(burst')
  BY <1>1, <1>2, <1>3, Joined
<1>5. /\ Bursting' = Bursting \cup Recovering /\ Recovering' = {}
      /\ UNCHANGED <<Queued, Held, Dropping>>
  <2>1. Bursting' = Bursting \cup Recovering
    BY <1>4 DEF Bursting, Recovering
  <2>2. Recovering' = {}
    BY <1>1 DEF Recovering, NoRecovery, ToSet
  <2>3. UNCHANGED <<Queued, Held, Dropping>>
    BY <1>1 DEF Queued, Held, Dropping
  <2> QED  BY <2>1, <2>2, <2>3
<1>6. MemoryTypes'
  BY <1>1, <1>2, <1>4 DEF IInv, MemoryTypes
<1>7. DownInv'
  <2>1. gateway \notin {"down", "opening"}
    BY <1>1 DEF IInv, DownInv, NoRecovery
  <2> QED  BY <1>1, <2>1 DEF DownInv
<1>8. PlacesInv'
  BY <1>1, <1>4 DEF IInv, PlacesInv, Distinct, NoRecovery
<1>9. ApartInv' /\ WaitInv' /\ DoomedInv' /\ HandlerInv'
  BY <1>1, <1>5 DEF IInv, ApartInv, WaitInv, DoomedInv, HandlerInv
<1>10. WorkerInv' /\ Accounts'
  BY <1>1, WorkerStays, AccountsStay DEF IInv
<1>11. RecoveryInv'
  BY <1>1 DEF RecoveryInv, NoRecovery, Distinct
<1>12. OrphanInv'
  BY <1>1, <1>5 DEF IInv, OrphanInv, NoRecovery
<1> QED  BY <1>6, <1>7, <1>8, <1>9, <1>10, <1>11, <1>12 DEF IInv

LEMMA CloseStep == ASSUME IInv, Close PROVE IInv'
<1>1. /\ UNCHANGED <<disk, rows, queue, handlers, posted, interrupting, recovery, tool, doomed,
                     ran, wire,
                     landed, runs, sends, spoke, reported>>
      /\ gateway = "up" /\ gateway' = "closing" /\ burst' = <<>>
      /\ worker' = [worker EXCEPT !.dead = worker.dead \/ worker.at \in {"prepare", "started", "running"}]
  BY DEF Close, disk, server
<1>2. /\ worker' \in WorkerSet /\ worker'.at = worker.at /\ worker'.batch = worker.batch
      /\ worker'.run = worker.run /\ worker'.gave = worker.gave
  BY <1>1 DEF IInv, MemoryTypes, WorkerSet
<1>3. Bursting' = {} /\ UNCHANGED <<Queued, Recovering, Held, Dropping>>
  BY <1>1, <1>2 DEF Bursting, Queued, Recovering, Held, Dropping, ToSet
<1>4. MemoryTypes'
  BY <1>1, <1>2 DEF IInv, MemoryTypes
<1>5. DownInv' /\ OrphanInv'
  BY <1>1 DEF DownInv, OrphanInv
<1>6. PlacesInv'
  BY <1>1, <1>2 DEF IInv, PlacesInv, Distinct
<1>7. ApartInv' /\ WaitInv' /\ DoomedInv' /\ HandlerInv'
  BY <1>1, <1>3 DEF IInv, ApartInv, WaitInv, DoomedInv, HandlerInv
<1>8. WorkerInv'
  <2>1. \A i \in Held' : HeldRow(rows[i])'
    BY <1>1, <1>2, <1>3 DEF IInv, WorkerInv, HeldRow
  <2> QED  BY <1>1, <1>2, <1>3, <2>1 DEF IInv, WorkerInv
<1>9. RecoveryInv'
  BY <1>1, <1>3 DEF IInv, RecoveryInv, Distinct
<1>10. Accounts'
  BY <1>1, <1>2, AccountsStay DEF IInv
<1> QED  BY <1>4, <1>5, <1>6, <1>7, <1>8, <1>9, <1>10 DEF IInv

\* A gateway that stops keeps what is on disk only.
LEMMA CrashStep == ASSUME IInv, Crash PROVE IInv'
<1>1. /\ UNCHANGED <<disk, rows, tool, posted, wire, landed, runs, ran, sends, spoke, reported>>
      /\ gateway' = "down" /\ handlers' = [h \in Handlers |-> NoHandler] /\ burst' = <<>> /\ queue' = <<>>
      /\ worker' = Idle /\ interrupting' = FALSE /\ recovery' = NoRecovery
      /\ doomed' = doomed \ UNION {InputsOf(handlers[h].drops) : h \in Handlers}
  BY DEF Crash, Lost, disk, server
<1>2. /\ worker' = [at |-> "off", batch |-> <<>>, run |-> 0, gave |-> "none", dead |-> FALSE]
      /\ recovery' = [at |-> "off", replies |-> <<>>, inputs |-> <<>>]
      /\ NoHandler = [at |-> "absent", drops |-> {}]
  BY <1>1 DEF Idle, NoRecovery, NoHandler
<1>3. \A h \in Handlers : handlers'[h].at = "absent" /\ handlers'[h].drops = {}
  BY <1>1, <1>2
<1>4. Bursting' = {} /\ Queued' = {} /\ Recovering' = {} /\ Held' = {} /\ Dropping' = {}
  <2>1. Dropping' = {}
    BY <1>3 DEF Dropping
  <2> QED  BY <1>1, <1>2, <2>1 DEF Bursting, Queued, Recovering, Held, ToSet
<1>5. MemoryTypes'
  <2>1. handlers' \in [Handlers -> HandlerSet]
    BY <1>1, <1>2 DEF HandlerSet
  <2>2. worker' \in WorkerSet /\ recovery' \in RecoverySet
    BY <1>2 DEF WorkerSet, RecoverySet
  <2>3. burst' \in Seq(Chats) /\ queue' \in Seq(Seq(Chats)) /\ interrupting' \in BOOLEAN
    <3>1. burst' \in Seq(Chats)
      BY <1>1, EmptySeq
    <3>2. queue' \in Seq(Seq(Chats))
      BY <1>1, EmptySeq
    <3>3. interrupting' \in BOOLEAN
      BY <1>1
    <3> QED  BY <3>1, <3>2, <3>3
  <2>4. gateway' \in {"up", "down", "opening", "closing"}
    BY <1>1
  <2> QED  BY <1>1, <2>1, <2>2, <2>3, <2>4 DEF IInv, MemoryTypes
<1>6. DownInv' /\ OrphanInv'
  BY <1>1 DEF DownInv, OrphanInv
<1>7. PlacesInv'
  BY <1>1, <1>2, <1>3 DEF PlacesInv, Distinct
<1>8. ApartInv' /\ WaitInv' /\ HandlerInv'
  BY <1>3, <1>4 DEF ApartInv, WaitInv, HandlerInv
<1>9. DoomedInv'
  BY <1>1 DEF IInv, DoomedInv, Dropping, InputsOf
<1>10. WorkerInv' /\ RecoveryInv'
  BY <1>1, <1>2, <1>4 DEF WorkerInv, RecoveryInv, Distinct, NoRecovery, Begun
<1>11. Accounts'
  <2>1. (RowInv /\ Together(rows) /\ OneReply(rows) /\ Distinct(admitted) /\ FailureSticks /\ SendInv)'
    BY <1>1 DEF IInv, Accounts, RowInv, Together, OneReply, Distinct, FailureSticks, SendInv, disk
  <2>2. (DiskTypes /\ HistoryTypes /\ ToolInv)'
    BY <1>1, <1>2 DEF IInv, Accounts, DiskTypes, HistoryTypes, ToolInv, disk
  <2>3. RunsInv'
    BY <1>1, <1>2, RunNumbers DEF IInv, Accounts, RunsInv, HistoryTypes, disk
  <2> QED  BY <2>1, <2>2, <2>3 DEF Accounts
<1> QED  BY <1>5, <1>6, <1>7, <1>8, <1>9, <1>10, <1>11 DEF IInv

LEMMA OpenGatewayStep == ASSUME IInv, OpenGateway PROVE IInv'
<1>1. /\ UNCHANGED <<rows, admitted, outbound, burst, queue, handlers, posted, worker,
                     interrupting, recovery, tool,
                     doomed, ran, wire, landed, runs, sends, spoke, reported>>
      /\ gateway = "down" /\ gateway' = "opening" /\ context' = [nonce |-> 0, said |-> FALSE]
  BY DEF OpenGateway, server, history, NoContext
<1>2. worker = Idle /\ worker.at = "off"
  BY <1>1 DEF IInv, DownInv, Idle
<1>3. UNCHANGED <<Bursting, Queued, Recovering, Held, Dropping>> /\ PlacesInv' /\ ApartInv'
  BY <1>1, Slots DEF SlotsStay, DropsStay, IInv
<1>4. MemoryTypes' /\ DownInv' /\ OrphanInv' /\ HandlerInv'
  BY <1>1 DEF IInv, MemoryTypes, DownInv, OrphanInv, HandlerInv
<1>5. WaitInv' /\ DoomedInv'
  BY <1>1, <1>3 DEF IInv, WaitInv, DoomedInv
<1>6. WorkerInv' /\ RecoveryInv'
  BY <1>1, <1>3, WorkerStays DEF IInv, RecoveryInv, Distinct
<1>7. Accounts'
  <2>1. (RowInv /\ Together(rows) /\ OneReply(rows) /\ Distinct(admitted) /\ FailureSticks /\ SendInv)'
    BY <1>1 DEF IInv, Accounts, RowInv, Together, OneReply, Distinct, FailureSticks, SendInv
  <2>2. (DiskTypes /\ HistoryTypes /\ ToolInv)'
    BY <1>1, <1>2 DEF IInv, Accounts, DiskTypes, HistoryTypes, ToolInv
  <2>3. RunsInv'
    BY <1>1, RunNumbers DEF IInv, Accounts, RunsInv, HistoryTypes
  <2> QED  BY <2>1, <2>2, <2>3 DEF Accounts
<1> QED  BY <1>3, <1>4, <1>5, <1>6, <1>7 DEF IInv

-----------------------------------------------------------------------------
(***************************************************************************)
(* The worker marks its batch.                                             *)
(***************************************************************************)
LEMMA HeldFacts ==
  ASSUME IInv
  PROVE  /\ worker \in WorkerSet /\ worker.batch \in Seq(Chats) /\ worker.batch \in Seq(Inputs)
         /\ Held \subseteq Chats /\ Held \subseteq Inputs /\ rows \in [Inputs -> RowSet]
         /\ worker.batch # <<>> => /\ Head(worker.batch) \in Held
                                   /\ gateway \notin {"down", "opening"}
         /\ Alike(rows, worker.batch) /\ Separate({worker.batch})
         /\ \A i \in Inputs : rows[i].reply # 0 => rows[i].state \notin {"none", "pending"}
<1>1. /\ worker \in WorkerSet /\ worker.batch \in Seq(Chats) /\ worker.batch \in Seq(Inputs)
      /\ rows \in [Inputs -> RowSet]
  BY DEF IInv, MemoryTypes, WorkerSet, Accounts, DiskTypes, Inputs
<1>2. Held \subseteq Chats /\ Held \subseteq Inputs
  BY <1>1 DEF Held, ToSet, Inputs
<1>3. worker.batch # <<>> => Head(worker.batch) \in Held /\ gateway \notin {"down", "opening"}
  BY <1>1, Tailed DEF Held, IInv, DownInv, Idle
<1>4. \A i \in Inputs : rows[i].reply # 0 => rows[i].state \notin {"none", "pending"}
  BY DEF IInv, Accounts, RowInv
<1>5. Alike(rows, worker.batch)
  <2>1. CASE worker.at \in Begun
    <3>1. ASSUME NEW i \in Held
          PROVE  rows[i].state \notin {"none", "pending"} /\ rows[i].batch = worker.batch
      BY <2>1, HeldRows DEF IInv, WorkerInv, Begun, MemoryTypes, WorkerSet
    <3> QED  BY <1>2, <3>1 DEF Alike, Held
  <2>2. CASE worker.at = "prepare"
    <3>1. ASSUME NEW i \in Held PROVE rows[i].state = "pending" /\ rows[i].reply = 0
      BY <1>2, <2>2, HeldRows DEF IInv, Accounts, RowInv
    <3> QED  BY <1>2, <3>1 DEF Alike, Held
  <2>3. CASE worker.at \in {"off", "loop"}
    <3>1. Held = {}
      BY <2>3 DEF IInv, WorkerInv, Held, ToSet
    <3> QED  BY <3>1 DEF Alike, Held
  <2> QED  BY <1>1, <2>1, <2>2, <2>3 DEF WorkerSet
<1> QED  BY <1>1, <1>2, <1>3, <1>4, <1>5 DEF Separate

\* What a mark of one batch that names no reply makes of the rows.
LEMMA OneMark ==
  ASSUME IInv, NEW b \in Seq(Inputs), Alike(rows, b), NEW state \in States \ {"none", "pending"}, Settle(b, state)
  PROVE  /\ rows' \in [Inputs -> RowSet] /\ Together(rows)' /\ OneReply(rows)'
         /\ \A i \in Inputs : i \notin ToSet(b) => rows'[i] = rows[i]
         /\ \A i \in ToSet(b) :
              /\ i \in Inputs
              /\ rows[i].state \in Terminal => rows'[i] = rows[i]
              /\ rows[i].state \notin Terminal =>
                   rows'[i] = [state |-> Marked(rows[i], state), batch |-> b, reply |-> rows[i].reply]
<1> DEFINE S == {b}
<1>1. rows' = Mark(rows, S, state, 0)
  BY DEF Settle
<1>2. /\ rows \in [Inputs -> RowSet] /\ Together(rows) /\ OneReply(rows)
      /\ \A i \in Inputs : rows[i].reply # 0 => rows[i].state \notin {"none", "pending"}
  BY DEF IInv, Accounts, DiskTypes, RowInv
<1>3. S \subseteq Seq(Inputs) /\ Separate(S) /\ (\A c \in S : Alike(rows, c)) /\ 0 \in {0} \cup Runs /\ state \in States
  BY DEF Separate
<1>4. \A c : c \in S <=> c = b
  OBVIOUS
<1> HIDE DEF S
<1>5. Together(Mark(rows, S, state, 0))
  BY <1>2, <1>3, MarksTogether
<1>6. OneReply(Mark(rows, S, state, 0))
  BY <1>2, <1>3, MarksReplies
<1>7. /\ Mark(rows, S, state, 0) \in [Inputs -> RowSet]
      /\ \A i \in Inputs : (\A c \in S : i \notin ToSet(c)) => Mark(rows, S, state, 0)[i] = rows[i]
      /\ \A c \in S : \A i \in Inputs : i \in ToSet(c) =>
           Mark(rows, S, state, 0)[i] = IF rows[i].state \in Terminal \cup {"none"} THEN rows[i]
             ELSE [state |-> Marked(rows[i], state), batch |-> c, reply |-> rows[i].reply]
  BY <1>2, <1>3, Marks
<1>8. \A i \in ToSet(b) : i \in Inputs /\ rows[i].state # "none"
  BY DEF Alike
<1>9. Together(rows)' /\ OneReply(rows)'
  BY <1>1, <1>5, <1>6 DEF Together, OneReply
<1> QED  BY <1>1, <1>4, <1>7, <1>8, <1>9

LEMMA WorkerMark ==
  ASSUME IInv, NEW state \in States \ {"none", "pending"}, Settle(worker.batch, state)
  PROVE  /\ rows' \in [Inputs -> RowSet] /\ Together(rows)' /\ OneReply(rows)'
         /\ \A i \in Inputs : i \notin Held => rows'[i] = rows[i]
         /\ \A i \in Held : rows[i].state \in Terminal => rows'[i] = rows[i]
         /\ \A i \in Held : rows[i].state \notin Terminal =>
              rows'[i] = [state |-> Marked(rows[i], state), batch |-> worker.batch, reply |-> rows[i].reply]
BY HeldFacts, OneMark DEF Held

\* What a step of the worker that marks its batch leaves as it was.
LEMMA WorkerFrame ==
  ASSUME IInv, worker.batch # <<>>, worker' \in WorkerSet, worker'.batch \in {worker.batch, <<>>},
         UNCHANGED <<gateway, burst, queue, handlers, posted, recovery, doomed, interrupting,
                     tool>>,
         \A i \in Inputs : i \notin Held => rows'[i] = rows[i],
         \A i \in Held : rows'[i].state \notin {"none", "pending"},
         worker'.batch = <<>> => \A i \in Held : rows'[i].state \notin {"running", "sending"}
  PROVE  /\ MemoryTypes' /\ DownInv' /\ PlacesInv' /\ ApartInv' /\ WaitInv' /\ HandlerInv'
         /\ RecoveryInv' /\ DoomedInv' /\ OrphanInv'
<1>1. UNCHANGED <<Bursting, Queued, Recovering, Dropping>> /\ Held' \subseteq Held
      /\ (worker'.batch = worker.batch => Held' = Held)
  BY DEF Bursting, Queued, Recovering, Dropping, Held, ToSet
<1>2. MemoryTypes' /\ HandlerInv'
  BY DEF IInv, MemoryTypes, HandlerInv
<1>3. DownInv'
  BY HeldFacts DEF DownInv
<1>4. Distinct(<<>>)
  BY DEF Distinct
<1>5. PlacesInv'
  <2>1. Distinct(worker.batch)'
    BY <1>4 DEF IInv, PlacesInv, Distinct
  <2>2. (Distinct(burst) /\ Distinct(recovery.inputs))'
    BY DEF IInv, PlacesInv, Distinct
  <2> QED  BY <2>1, <2>2 DEF IInv, PlacesInv, Distinct
<1>6. ApartInv'
  BY <1>1 DEF IInv, ApartInv
<1>7. WaitInv'
  <2>1. Bursting \cup Queued \cup Recovering \cup Dropping \subseteq Inputs
    <3>1. Bursting \subseteq Inputs
      BY DEF IInv, MemoryTypes, Bursting, ToSet, Inputs
    <3>2. Recovering \subseteq Inputs
      BY DEF IInv, MemoryTypes, RecoverySet, Recovering, ToSet, Inputs
    <3>3. Queued \subseteq Inputs
      BY DEF IInv, MemoryTypes, Queued, ToSet, Inputs
    <3>4. Dropping \subseteq Inputs
      BY DEF IInv, MemoryTypes, HandlerSet, Dropping, ToSet, Inputs
    <3> QED  BY <3>1, <3>2, <3>3, <3>4
  <2> QED  BY <1>1, <2>1 DEF IInv, WaitInv, ApartInv
<1>8. RecoveryInv'
  BY <1>1 DEF IInv, RecoveryInv, Distinct
<1>9. DoomedInv'
  <2>1. ASSUME NEW i \in Held PROVE rows[i].state # "cancelled"
    BY HeldRows DEF IInv, WorkerInv, MemoryTypes, WorkerSet, Begun
  <2>2. doomed \subseteq Inputs
    BY DEF IInv, Accounts, HistoryTypes, Inputs
  <2> QED  BY <1>1, <2>1, <2>2 DEF IInv, DoomedInv
<1>10. OrphanInv'
  <2>1. ASSUME gateway = "up", NEW i \in Inputs, i \notin Held
        PROVE  /\ rows'[i] = rows[i]
               /\ rows[i].state = "pending" => i \in Bursting \cup Queued \cup Recovering \cup Dropping
               /\ rows[i].state = "running" => \E h \in Handlers : h[1] = i /\ handlers[h].at \in {"interrupt", "reply"}
               /\ rows[i].state = "sending" => recovery.at = "sending" /\ i \in ToSet(Head(recovery.replies))
    BY <2>1 DEF IInv, OrphanInv
  <2>2. ASSUME NEW i \in Held
        PROVE  /\ rows'[i].state # "pending"
               /\ rows'[i].state \in {"running", "sending"} => i \in Held'
    BY <1>1
  <2> QED  BY <1>1, <2>1, <2>2 DEF OrphanInv
<1> QED  BY <1>2, <1>3, <1>5, <1>6, <1>7, <1>8, <1>9, <1>10

\* The batch of the worker is over.
LEMMA FinishStep ==
  ASSUME IInv, NEW outcome \in {"done", "cancelled", "uncertain"}, Finish(outcome), worker.batch # <<>>,
         UNCHANGED <<admitted, gateway, burst, queue, handlers, posted, recovery, doomed,
                     interrupting, tool,
                     wire, landed, runs, ran, sends, spoke, reported>>,
         outbound' \in [Runs -> [known : BOOLEAN, status : {"none", "queued", "failed"}]], FailureSticks',
         outcome = "done" => \/ worker.at = "sending" /\ worker.run \in landed
                             \/ worker.at = "unwind" /\ worker.gave # "reply",
         outcome = "cancelled" => worker.at # "sending"
  PROVE  IInv'
<1>1. /\ worker' = [at |-> "loop", batch |-> <<>>, run |-> 0, gave |-> "none", dead |-> FALSE]
      /\ Settle(worker.batch, outcome) /\ context' \in {context, NoContext}
  BY DEF Finish, Looping, Idle
<1>2. outcome \in States \ {"none", "pending"}
  BY DEF States, Terminal
<1>3. /\ rows' \in [Inputs -> RowSet] /\ Together(rows)' /\ OneReply(rows)'
      /\ \A i \in Inputs : i \notin Held => rows'[i] = rows[i]
      /\ \A i \in Held : rows[i].state \in Terminal => rows'[i] = rows[i]
      /\ \A i \in Held : rows[i].state \notin Terminal =>
           rows'[i] = [state |-> Marked(rows[i], outcome), batch |-> worker.batch, reply |-> rows[i].reply]
  BY <1>1, <1>2, WorkerMark
<1>4. /\ worker \in WorkerSet /\ Held \subseteq Chats /\ Held \subseteq Inputs
      /\ worker.batch \in Seq(Chats) /\ rows \in [Inputs -> RowSet]
  BY HeldFacts
\* A receipt that was marked here.
<1>5. ASSUME NEW i \in Held
      PROVE  /\ rows'[i].reply = rows[i].reply
             /\ rows'[i].state \in {outcome, "done", "reply_pending"}
             /\ rows'[i].state = "reply_pending" => rows[i].state = "reply_pending"
             /\ rows'[i].state = "done" => rows[i].reply = 0 \/ (worker.at = "sending" /\ rows[i].reply \in landed)
             /\ rows'[i].state = "cancelled" /\ rows[i].reply # 0 => rows[i].state = "reply_pending"
             /\ rows[i].state \notin {"none", "cancelled"}
  <2>1. /\ worker.at \in {"prepare"} \cup Begun
    BY <1>4 DEF IInv, WorkerInv, WorkerSet
  <2>2. CASE rows[i].state \in {"pending", "running"}
    <3>1. rows'[i] = [state |-> outcome, batch |-> worker.batch, reply |-> rows[i].reply]
          /\ rows[i].reply = 0
      BY <1>3, <1>4, <2>2 DEF Marked, Terminal, IInv, Accounts, RowInv
    <3> QED  BY <2>2, <3>1
  <2>3. CASE rows[i].state = "done" /\ rows[i].reply = 0
    <3>1. rows'[i] = rows[i]
      BY <1>3, <2>3 DEF Terminal
    <3> QED  BY <2>3, <3>1
  <2>4. CASE /\ rows[i].state = "reply_pending" /\ rows[i].reply = worker.run
             /\ worker.at = "preflight" \/ (worker.at = "unwind" /\ worker.gave = "reply")
    <3>1. /\ rows'[i] = [state |-> Marked(rows[i], outcome), batch |-> worker.batch, reply |-> rows[i].reply]
          /\ \/ Marked(rows[i], outcome) = "reply_pending"
             \/ Marked(rows[i], outcome) = outcome /\ outcome = "cancelled"
      BY <1>3, <1>4, <2>4 DEF Marked, Terminal
    <3> QED  BY <2>4, <3>1
  <2>5. CASE worker.at = "sending" /\ rows[i].state = "sending" /\ rows[i].reply = worker.run
    <3>1. /\ rows'[i] = [state |-> Marked(rows[i], outcome), batch |-> worker.batch, reply |-> rows[i].reply]
          /\ Marked(rows[i], outcome) = outcome /\ outcome # "cancelled"
      BY <1>3, <1>4, <2>5 DEF Marked, Terminal
    <3> QED  BY <2>5, <3>1
  <2>6. worker.at = "unwind" => worker.gave \in {"none", "reply", "silent", "failed"}
    BY <1>4 DEF WorkerSet
  <2> QED  BY <2>1, <2>2, <2>3, <2>4, <2>5, <2>6, HeldRows DEF IInv, Begun
<1>6. Held' = {} /\ worker' \in WorkerSet
  BY <1>1, EmptySeq DEF Held, ToSet, WorkerSet
<1>7. WorkerInv'
  BY <1>1, <1>6 DEF WorkerInv, Begun
<1>8. /\ MemoryTypes' /\ DownInv' /\ PlacesInv' /\ ApartInv' /\ WaitInv' /\ HandlerInv'
      /\ RecoveryInv' /\ DoomedInv' /\ OrphanInv'
  <2>1. \A i \in Held : rows'[i].state \notin {"none", "pending"} /\ rows'[i].state \notin {"running", "sending"}
    BY <1>5
  <2> QED  BY <1>1, <1>3, <1>6, <2>1, WorkerFrame
<1>9. RowInv'
  <2>1. ASSUME NEW i \in Held
        PROVE  /\ rows'[i].state \notin {"none", "pending", "running", "sending"}
               /\ rows'[i].state = "reply_pending" => rows'[i].reply # 0
               /\ rows[i].state # "none" /\ i \in Chats
    BY <1>4, <1>5 DEF IInv, Accounts, RowInv
  <2>2. ASSUME NEW i \in Inputs PROVE ran'[i] <= 1 /\ UNCHANGED <<ran, admitted>>
    BY DEF IInv, Accounts, RowInv
  <2> QED  BY <1>3, <2>1, <2>2 DEF IInv, Accounts, RowInv
<1>10. \A i \in Inputs : rows'[i].reply = rows[i].reply
  BY <1>3, <1>5
<1>11. context' \in [nonce : {0} \cup Runs, said : BOOLEAN] /\ context'.nonce \in {0, context.nonce}
  <2>1. NoContext \in [nonce : {0} \cup Runs, said : BOOLEAN] /\ NoContext.nonce = 0
    BY DEF NoContext
  <2> QED  BY <1>1, <2>1 DEF IInv, Accounts, DiskTypes
<1>12. (DiskTypes /\ HistoryTypes)'
  BY <1>3, <1>11 DEF IInv, Accounts, DiskTypes, HistoryTypes
<1>13. (RunsInv /\ ToolInv)'
  BY <1>1, <1>10, <1>11, RunNumbers DEF IInv, Accounts, RunsInv, ToolInv, HistoryTypes
<1>14. SendInv'
  <2>1. ASSUME NEW i \in Inputs, rows'[i].reply # 0
        PROVE  /\ rows'[i].reply \notin spoke
               /\ rows'[i].state \in {"reply_pending", "cancelled"} => sends[rows'[i].reply] = 0
               /\ rows'[i].state = "done" => rows'[i].reply \in landed
    <3>1. CASE i \in Held
      BY <1>5, <1>10, <2>1, <3>1 DEF IInv, Accounts, SendInv
    <3>2. CASE i \notin Held
      BY <1>3, <2>1, <3>2 DEF IInv, Accounts, SendInv
    <3> QED  BY <3>1, <3>2
  <2> QED  BY <2>1 DEF IInv, Accounts, SendInv
<1>15. Distinct(admitted)'
  BY DEF IInv, Accounts, Distinct
<1>16. Accounts'
  BY <1>3, <1>9, <1>12, <1>13, <1>14, <1>15 DEF Accounts
<1> QED  BY <1>7, <1>8, <1>16 DEF IInv

LEMMA PrepareFailsStep == ASSUME IInv, PrepareFails PROVE IInv'
<1>1. worker.at = "prepare" /\ worker.batch # <<>>
  BY DEF PrepareFails, IInv, WorkerInv
<1>2. outbound' \in [Runs -> [known : BOOLEAN, status : {"none", "queued", "failed"}]]
      /\ FailureSticks'
  BY DEF PrepareFails, IInv, Accounts, DiskTypes, FailureSticks
<1> QED  BY <1>1, <1>2, FinishStep DEF PrepareFails, server

LEMMA UnwindStep == ASSUME IInv, Unwind PROVE IInv'
<1>1. worker.at = "unwind" /\ worker.batch # <<>> /\ worker \in WorkerSet /\ worker.run # 0
  BY DEF Unwind, IInv, WorkerInv, MemoryTypes, Begun
<1>2. outbound' \in [Runs -> [known : BOOLEAN, status : {"none", "queued", "failed"}]]
      /\ FailureSticks'
  BY DEF Unwind, IInv, Accounts, DiskTypes, FailureSticks, history
<1>3. UNCHANGED <<admitted, outbound, gateway, burst, queue, handlers, posted, recovery, doomed,
                  interrupting, tool,
                  wire, landed, runs, ran, sends, spoke, reported>>
  BY DEF Unwind, server, history
<1>4. CASE Finish(IF worker.gave = "failed" \/ gateway # "closing" THEN Cut ELSE "uncertain")
  <2>1. (IF worker.gave = "failed" \/ gateway # "closing" THEN Cut ELSE "uncertain") \in {"cancelled", "uncertain"}
    BY DEF Cut
  <2>2. PICK outcome \in {"cancelled", "uncertain"} : Finish(outcome)
    BY <1>4, <2>1
  <2> QED  BY <1>1, <1>2, <1>3, <2>2, FinishStep
<1>5. CASE worker.gave # "reply" /\ Finish("done")
  BY <1>1, <1>2, <1>3, <1>5, FinishStep
<1>6. CASE /\ worker.gave = "reply" /\ ~ interrupting /\ UNCHANGED <<rows, context>>
           /\ worker' = [worker EXCEPT !.at = "preflight"]
  <2>1. /\ worker' \in WorkerSet /\ worker'.at = "preflight" /\ worker'.batch = worker.batch
        /\ worker'.run = worker.run /\ worker'.gave = "reply"
    BY <1>1, <1>6 DEF WorkerSet, Begun
  <2>2. Accounts'
    BY <1>3, <1>6, <2>1, AccountsStay DEF IInv, disk
  <2>3. Held' = Held
    BY <2>1 DEF Held
  <2>4. \A i \in Held' : HeldRow(rows[i])'
    <3>1. \A i \in Held : rows[i].state = "reply_pending" /\ rows[i].reply = worker.run
      BY <1>1, <1>6, HeldRows DEF IInv
    <3> QED  BY <1>6, <2>1, <2>3, <3>1 DEF HeldRow
  <2>5. WorkerInv'
    BY <1>1, <1>3, <1>6, <2>1, <2>3, <2>4 DEF IInv, WorkerInv, Begun
  <2>6. tool \in [at : {"idle", "checked", "accepted"}, run : {0} \cup Runs]
        /\ interrupting \in BOOLEAN
    BY DEF IInv, MemoryTypes
  <2> QED  BY <1>1, <1>3, <1>6, <2>1, <2>2, <2>5, <2>6, ReceiptsStay
<1> QED  BY <1>4, <1>5, <1>6 DEF Unwind

LEMMA WorkerSentStep == ASSUME IInv, WorkerSent PROVE IInv'
<1>1. worker.at = "sending" /\ worker.run \in landed /\ worker.batch # <<>> /\ worker.run \in Runs
  BY DEF WorkerSent, IInv, WorkerInv, Accounts, HistoryTypes
<1>2. outbound \in [Runs -> [known : BOOLEAN, status : {"none", "queued", "failed"}]]
      /\ outbound' = Recorded(worker.run)
  BY DEF WorkerSent, IInv, Accounts, DiskTypes
<1>3. /\ outbound' \in [Runs -> [known : BOOLEAN, status : {"none", "queued", "failed"}]]
      /\ \A r \in Runs : outbound[r].status = "failed" => outbound'[r].status = "failed"
  BY <1>1, <1>2 DEF Recorded
<1>4. FailureSticks' /\ UNCHANGED reported
  BY <1>3 DEF WorkerSent, history, IInv, Accounts, HistoryTypes, FailureSticks
<1> QED  BY <1>1, <1>3, <1>4, FinishStep DEF WorkerSent, server, history

LEMMA WorkerSendFailsStep == ASSUME IInv, WorkerSendFails PROVE IInv'
<1>1. worker.at \in {"preflight", "sending"} /\ worker.batch # <<>> /\ ~ interrupting
  BY DEF WorkerSendFails, IInv, WorkerInv
<1>2. outbound' \in [Runs -> [known : BOOLEAN, status : {"none", "queued", "failed"}]]
      /\ FailureSticks'
  BY DEF WorkerSendFails, IInv, Accounts, DiskTypes, FailureSticks
<1>3. Finish("uncertain")
  BY <1>1 DEF WorkerSendFails, Cut
<1> QED  BY <1>1, <1>2, <1>3, FinishStep DEF WorkerSendFails, server

LEMMA StartStep == ASSUME IInv, Start PROVE IInv'
<1>1. /\ worker.at = "prepare" /\ worker.batch # <<>>
      /\ UNCHANGED <<admitted, outbound, gateway, burst, queue, handlers, posted, recovery, doomed,
                     interrupting, tool,
                     wire, landed, ran, sends, spoke, reported>>
  BY DEF Start, IInv, WorkerInv, server
<1>2. CASE Finish("cancelled") /\ UNCHANGED runs
  <2>1. outbound' \in [Runs -> [known : BOOLEAN, status : {"none", "queued", "failed"}]]
        /\ FailureSticks'
    BY <1>1 DEF IInv, Accounts, DiskTypes, FailureSticks
  <2> QED  BY <1>1, <1>2, <2>1, FinishStep
<1>3. CASE /\ ~ interrupting /\ runs < MaxRuns /\ runs' = runs + 1
      /\ Settle(worker.batch, "running")
           /\ context' = [nonce |-> runs + 1, said |-> FALSE]
           /\ worker' = [worker EXCEPT !.at = "started", !.run = runs + 1]
  <2>1. runs \in Nat /\ runs + 1 \in Runs /\ MaxRuns \in Nat /\ runs' \in 0 .. MaxRuns
        /\ runs' = runs + 1
    BY <1>3, ThreadedAssumption DEF IInv, Accounts, HistoryTypes, Runs
  <2>2. /\ rows' \in [Inputs -> RowSet] /\ Together(rows)' /\ OneReply(rows)'
        /\ \A i \in Inputs : i \notin Held => rows'[i] = rows[i]
        /\ \A i \in Held : rows[i].state \notin Terminal =>
             rows'[i] = [state |-> Marked(rows[i], "running"), batch |-> worker.batch, reply |-> rows[i].reply]
    BY <1>3, WorkerMark DEF States, Terminal
  <2>3. /\ worker \in WorkerSet /\ Held \subseteq Chats /\ Held \subseteq Inputs
    BY HeldFacts
  <2>4. \A i \in Held : /\ rows[i].state = "pending" /\ rows[i].reply = 0 /\ ran[i] = 0
                        /\ rows'[i] = [state |-> "running", batch |-> worker.batch, reply |-> 0]
    BY <1>1, <2>2, <2>3, HeldRows DEF IInv, Accounts, RowInv, Marked, Terminal
  <2>5. /\ worker' \in WorkerSet /\ worker'.at = "started" /\ worker'.batch = worker.batch /\ worker'.run = runs + 1
        /\ worker'.gave = "none" /\ Held' = Held
    BY <1>1, <1>3, <2>1, <2>3 DEF WorkerSet, Begun, IInv, WorkerInv, Held
  <2>6. /\ MemoryTypes' /\ DownInv' /\ PlacesInv' /\ ApartInv' /\ WaitInv' /\ HandlerInv'
        /\ RecoveryInv' /\ DoomedInv' /\ OrphanInv'
    <3>1. worker'.batch = <<>> => \A i \in Held : rows'[i].state \notin {"running", "sending"}
      BY <1>1, <2>5
    <3> QED  BY <1>1, <2>2, <2>4, <2>5, <3>1, WorkerFrame
  <2>7. \A i \in Inputs : rows'[i].reply = rows[i].reply /\ rows[i].reply <= runs /\ rows[i].reply \in {0} \cup Runs
    BY <2>2, <2>4 DEF IInv, Accounts, RunsInv, DiskTypes, RowSet
  <2>8. WorkerInv'
    <3>1. \A i \in Held' : HeldRow(rows[i])'
      BY <2>4, <2>5 DEF HeldRow
    <3>2. \A i \in Inputs : rows'[i].reply # worker'.run
      BY <2>1, <2>5, <2>7, RunNumbers
    <3>3. worker'.run # 0
      BY <2>1, <2>5
    <3> QED  BY <1>1, <2>4, <2>5, <3>1, <3>2, <3>3 DEF WorkerInv, Begun
  <2>9. RowInv'
    BY <1>1, <2>2, <2>3, <2>4 DEF IInv, Accounts, RowInv
  <2>10. (DiskTypes /\ HistoryTypes /\ Distinct(admitted) /\ FailureSticks)'
    BY <1>1, <1>3, <2>1, <2>2 DEF IInv, Accounts, DiskTypes, HistoryTypes, Distinct, FailureSticks
  <2>11. RunsInv'
    <3>1. tool.run <= runs /\ tool.run \in Nat
      <4>1. tool.run <= runs /\ tool.run \in {0} \cup Runs
        BY DEF IInv, Accounts, RunsInv, MemoryTypes
      <4> QED  BY <4>1, RunIsNat
    <3>2. ASSUME NEW i \in Inputs PROVE rows'[i].reply <= runs'
      <4>1. rows[i].reply \in Nat
        BY <2>7, RunIsNat
      <4> QED  BY <2>1, <2>7, <4>1
    <3>3. tool'.run <= runs' /\ worker'.run <= runs' /\ context'.nonce <= runs'
      BY <1>1, <1>3, <2>1, <2>5, <3>1
    <3>4. \A r \in Runs : r > runs' => sends'[r] = 0 /\ r \notin spoke'
      BY <1>1, <2>1, RunNumbers DEF IInv, Accounts, RunsInv
    <3> QED  BY <3>2, <3>3, <3>4 DEF RunsInv
  <2>12. sends[runs + 1] = 0 /\ runs + 1 \notin spoke
    BY <2>1, RunNumbers DEF IInv, Accounts, RunsInv
  <2>13. (SendInv /\ ToolInv)'
    BY <1>1, <1>3, <2>2, <2>4, <2>5, <2>7, <2>12 DEF IInv, Accounts, SendInv, ToolInv
  <2>14. Accounts'
    BY <2>2, <2>9, <2>10, <2>11, <2>13 DEF Accounts
  <2> QED  BY <2>6, <2>8, <2>14 DEF IInv
<1> QED  BY <1>2, <1>3 DEF Start

\* A turn that returns leaves an answer, which carries the number of its run.
LEMMA AnswerMark ==
  ASSUME IInv, worker.at = "running", rows' = Mark(rows, {worker.batch}, "reply_pending", worker.run)
  PROVE  /\ rows' \in [Inputs -> RowSet] /\ Together(rows)' /\ OneReply(rows)'
         /\ \A i \in Inputs : i \notin Held => rows'[i] = rows[i] /\ rows[i].reply # worker.run
         /\ \A i \in Held : rows'[i] = [state |-> "reply_pending", batch |-> worker.batch, reply |-> worker.run]
<1> DEFINE S == {worker.batch}
<1>1. /\ worker.batch \in Seq(Inputs) /\ rows \in [Inputs -> RowSet] /\ Held \subseteq Inputs
      /\ Alike(rows, worker.batch) /\ worker \in WorkerSet
  BY HeldFacts
<1>2. Together(rows) /\ OneReply(rows) /\ worker.run \in {0} \cup Runs /\ worker.run # 0
  BY <1>1 DEF IInv, Accounts, WorkerSet, WorkerInv, Begun
<1>3. /\ S \subseteq Seq(Inputs) /\ Separate(S) /\ (\A c \in S : Alike(rows, c))
      /\ "reply_pending" \in States \ {"none", "pending"} /\ "reply_pending" \in States
  BY <1>1 DEF Separate, States, Terminal
<1>4. (\A c : c \in S <=> c = worker.batch) /\ rows' = Mark(rows, S, "reply_pending", worker.run)
  OBVIOUS
<1> HIDE DEF S
<1>5. Together(Mark(rows, S, "reply_pending", worker.run))
  BY <1>1, <1>2, <1>3, MarksTogether
<1>6. /\ Mark(rows, S, "reply_pending", worker.run) \in [Inputs -> RowSet]
      /\ \A i \in Inputs : (\A c \in S : i \notin ToSet(c)) => Mark(rows, S, "reply_pending", worker.run)[i] = rows[i]
      /\ \A c \in S : \A i \in Inputs : i \in ToSet(c) =>
           Mark(rows, S, "reply_pending", worker.run)[i] = IF rows[i].state \in Terminal \cup {"none"} THEN rows[i]
             ELSE [state |-> Marked(rows[i], "reply_pending"), batch |-> c,
                   reply |-> IF worker.run = 0 THEN rows[i].reply ELSE worker.run]
  BY <1>1, <1>2, <1>3, Marks
<1>7. \A i \in Held : rows[i].state = "running"
  BY HeldRows DEF IInv
<1>8. ASSUME NEW i \in Held
      PROVE  rows'[i] = [state |-> "reply_pending", batch |-> worker.batch, reply |-> worker.run]
  <2>1. i \in Inputs /\ i \in ToSet(worker.batch) /\ rows[i].state \notin Terminal \cup {"none"}
        /\ Marked(rows[i], "reply_pending") = "reply_pending"
    BY <1>1, <1>7, <1>8 DEF Held, Terminal, Marked
  <2> QED  BY <1>2, <1>4, <1>6, <2>1
<1>9. \A i \in Inputs : i \notin Held => rows'[i] = rows[i] /\ rows[i].reply # worker.run
  BY <1>2, <1>4, <1>6 DEF Held, IInv, WorkerInv
<1>10. OneReply(rows)'
  <2>1. ASSUME NEW i \in Inputs, NEW j \in Inputs, rows'[i].reply # 0, rows'[i].reply = rows'[j].reply
        PROVE  rows'[i] = rows'[j]
    <3>1. CASE i \in Held /\ j \in Held
      BY <1>8, <3>1
    <3>2. CASE i \in Held /\ j \notin Held
      <4>1. rows'[i].reply = worker.run
        BY <1>8, <3>2
      <4>2. rows'[j] = rows[j] /\ rows[j].reply # worker.run
        BY <1>9, <3>2
      <4> QED  BY <2>1, <4>1, <4>2
    <3>3. CASE i \notin Held /\ j \in Held
      <4>1. rows'[j].reply = worker.run
        BY <1>8, <3>3
      <4>2. rows'[i] = rows[i] /\ rows[i].reply # worker.run
        BY <1>9, <3>3
      <4> QED  BY <2>1, <4>1, <4>2
    <3>4. CASE i \notin Held /\ j \notin Held
      BY <1>2, <1>9, <2>1, <3>4 DEF OneReply
    <3> QED  BY <3>1, <3>2, <3>3, <3>4
  <2> QED  BY <2>1 DEF OneReply
<1>11. Together(rows)'
  <2>1. rows' = Mark(rows, S, "reply_pending", worker.run)
    BY <1>4
  <2> QED  BY <1>5, <2>1 DEF Together
<1>12. rows' \in [Inputs -> RowSet]
  BY <1>4, <1>6
<1> QED  BY <1>12, <1>8, <1>9, <1>10, <1>11

LEMMA TurnEndsStep == ASSUME IInv, TurnEnds PROVE IInv'
<1>1. /\ worker.at = "running" /\ worker.batch # <<>> /\ worker.run # 0 /\ worker.gave = "none"
      /\ UNCHANGED <<admitted, outbound, context, gateway, burst, queue, handlers, posted,
                     recovery, doomed,
                     interrupting, tool, wire, landed, runs, ran, sends, spoke, reported>>
      /\ (tool.run = worker.run /\ tool.at # "idle" => interrupting)
  BY DEF TurnEnds, IInv, WorkerInv, Begun, server, history
<1>2. /\ worker \in WorkerSet /\ Held \subseteq Chats /\ Held \subseteq Inputs
      /\ \A i \in Held : rows[i].state = "running" /\ rows[i].reply = 0
  BY <1>1, HeldFacts, HeldRows DEF IInv, Accounts, RowInv
<1>3. CASE UNCHANGED rows /\ worker' = [worker EXCEPT !.at = "unwind"]
  <2>1. /\ worker' \in WorkerSet /\ worker'.at = "unwind" /\ worker'.batch = worker.batch
        /\ worker'.run = worker.run /\ worker'.gave = "none"
    BY <1>1, <1>2, <1>3 DEF WorkerSet, Begun
  <2>2. Accounts'
    BY <1>1, <1>3, <2>1, AccountsStay DEF IInv, disk
  <2>3. Held' = Held
    BY <2>1 DEF Held
  <2>4. \A i \in Held' : HeldRow(rows[i])'
    BY <1>2, <1>3, <2>1, <2>3 DEF HeldRow
  <2>5. WorkerInv'
    BY <1>1, <1>3, <2>1, <2>3, <2>4 DEF IInv, WorkerInv, Begun
  <2>6. tool \in [at : {"idle", "checked", "accepted"}, run : {0} \cup Runs]
        /\ interrupting \in BOOLEAN
    BY DEF IInv, MemoryTypes
  <2> QED  BY <1>1, <1>3, <2>1, <2>2, <2>5, <2>6, ReceiptsStay
<1>4. CASE /\ rows' = Mark(rows, {worker.batch}, "done", 0) /\ ~ interrupting
           /\ worker' = [worker EXCEPT !.at = "unwind", !.gave = "silent"]
  <2>1. /\ worker' \in WorkerSet /\ worker'.at = "unwind" /\ worker'.batch = worker.batch
        /\ worker'.run = worker.run /\ worker'.gave = "silent"
    BY <1>1, <1>2, <1>4 DEF WorkerSet, Begun
  <2>2. /\ rows' \in [Inputs -> RowSet] /\ Together(rows)' /\ OneReply(rows)'
        /\ \A i \in Inputs : i \notin Held => rows'[i] = rows[i]
        /\ \A i \in Held : rows[i].state \notin Terminal =>
             rows'[i] = [state |-> Marked(rows[i], "done"), batch |-> worker.batch, reply |-> rows[i].reply]
    BY <1>4, WorkerMark DEF Settle, States, Terminal
  <2>3. \A i \in Held : rows'[i] = [state |-> "done", batch |-> worker.batch, reply |-> 0]
    BY <1>2, <2>2 DEF Terminal, Marked
  <2>4. Held' = Held
    BY <2>1 DEF Held
  <2>5. /\ MemoryTypes' /\ DownInv' /\ PlacesInv' /\ ApartInv' /\ WaitInv' /\ HandlerInv'
        /\ RecoveryInv' /\ DoomedInv' /\ OrphanInv'
    <3>1. worker'.batch = <<>> => \A i \in Held : rows'[i].state \notin {"running", "sending"}
      BY <1>1, <2>1
    <3> QED  BY <1>1, <2>1, <2>2, <2>3, <3>1, WorkerFrame
  <2>6. \A i \in Inputs : rows'[i].reply = rows[i].reply
    BY <1>2, <2>2, <2>3
  <2>7. WorkerInv'
    <3>1. \A i \in Held' : HeldRow(rows[i])'
      BY <2>1, <2>3, <2>4 DEF HeldRow
    <3> QED  BY <1>1, <2>1, <2>3, <2>4, <2>6, <3>1 DEF IInv, WorkerInv, Begun
  <2>8. RowInv'
    BY <1>1, <1>2, <2>2, <2>3 DEF IInv, Accounts, RowInv
  <2>9. (DiskTypes /\ HistoryTypes /\ Distinct(admitted) /\ FailureSticks)'
    BY <1>1, <2>2 DEF IInv, Accounts, DiskTypes, HistoryTypes, Distinct, FailureSticks
  <2>10. (RunsInv /\ ToolInv)'
    BY <1>1, <2>1, <2>6 DEF IInv, Accounts, RunsInv, ToolInv
  <2>11. SendInv'
    BY <1>1, <2>2, <2>3, <2>6 DEF IInv, Accounts, SendInv
  <2>12. Accounts'
    BY <2>2, <2>8, <2>9, <2>10, <2>11 DEF Accounts
  <2> QED  BY <2>5, <2>7, <2>12 DEF IInv
<1>5. CASE /\ rows' = Mark(rows, {worker.batch}, "reply_pending", worker.run) /\ ~ interrupting
           /\ worker' = [worker EXCEPT !.at = "unwind", !.gave = "reply"]
           /\ ~ (context.nonce = worker.run /\ context.said)
  <2>1. /\ worker' \in WorkerSet /\ worker'.at = "unwind" /\ worker'.batch = worker.batch
        /\ worker'.run = worker.run /\ worker'.gave = "reply"
    BY <1>1, <1>2, <1>5 DEF WorkerSet, Begun
  <2>2. /\ rows' \in [Inputs -> RowSet] /\ Together(rows)' /\ OneReply(rows)'
        /\ \A i \in Inputs : i \notin Held => rows'[i] = rows[i] /\ rows[i].reply # worker.run
        /\ \A i \in Held : rows'[i] = [state |-> "reply_pending", batch |-> worker.batch, reply |-> worker.run]
    BY <1>1, <1>5, AnswerMark
  <2>3. Held' = Held
    BY <2>1 DEF Held
  <2>4. /\ MemoryTypes' /\ DownInv' /\ PlacesInv' /\ ApartInv' /\ WaitInv' /\ HandlerInv'
        /\ RecoveryInv' /\ DoomedInv' /\ OrphanInv'
    <3>1. worker'.batch = <<>> => \A i \in Held : rows'[i].state \notin {"running", "sending"}
      BY <1>1, <2>1
    <3> QED  BY <1>1, <2>1, <2>2, <3>1, WorkerFrame
  <2>5. WorkerInv'
    <3>1. \A i \in Held' : HeldRow(rows[i])'
      BY <2>1, <2>2, <2>3 DEF HeldRow
    <3> QED  BY <1>1, <2>1, <2>2, <2>3, <3>1 DEF IInv, WorkerInv, Begun
  <2>6. RowInv'
    BY <1>1, <1>2, <2>2 DEF IInv, Accounts, RowInv
  <2>7. (DiskTypes /\ HistoryTypes /\ Distinct(admitted) /\ FailureSticks)'
    BY <1>1, <2>2 DEF IInv, Accounts, DiskTypes, HistoryTypes, Distinct, FailureSticks
  <2>8. RunsInv'
    BY <1>1, <2>1, <2>2 DEF IInv, Accounts, RunsInv
  <2>9. worker.run \notin spoke /\ sends[worker.run] = 0
    BY <1>1, <1>5 DEF IInv, Accounts, ToolInv
  <2>10. SendInv'
    BY <1>1, <2>2, <2>9 DEF IInv, Accounts, SendInv
  <2>11. ToolInv'
    <3>1. tool.at # "idle" => tool.run # worker.run
      BY <1>1, <1>5
    <3> QED  BY <1>1, <2>1, <2>2, <3>1 DEF IInv, Accounts, ToolInv
  <2>12. Accounts'
    BY <2>2, <2>6, <2>7, <2>8, <2>10, <2>11 DEF Accounts
  <2> QED  BY <2>4, <2>5, <2>12 DEF IInv
<1>6. PICK answers \in BOOLEAN :
        IF interrupting \/ gateway = "closing"
        THEN worker' = [worker EXCEPT !.at = "unwind"] /\ UNCHANGED rows
        ELSE /\ rows' = Mark(rows, {worker.batch}, Result(answers).state, Result(answers).reply)
             /\ worker' = [worker EXCEPT !.at = "unwind", !.gave = Result(answers).gave]
  BY DEF TurnEnds
<1>7. CASE (context.nonce = worker.run /\ context.said) \/ ~ answers
  <2>1. Result(answers) = [state |-> "done", reply |-> 0, gave |-> "silent"]
    BY <1>7 DEF Result
  <2> QED  BY <1>3, <1>4, <1>6, <2>1
<1>8. CASE ~ (context.nonce = worker.run /\ context.said) /\ answers
  <2>1. Result(answers) = [state |-> "reply_pending", reply |-> worker.run, gave |-> "reply"]
    BY <1>8 DEF Result
  <2>2. CASE interrupting \/ gateway = "closing"
    BY <1>3, <1>6, <2>2
  <2>3. CASE ~ interrupting /\ gateway # "closing"
    <3>1. /\ rows' = Mark(rows, {worker.batch}, "reply_pending", worker.run)
          /\ worker' = [worker EXCEPT !.at = "unwind", !.gave = "reply"]
      BY <1>6, <2>1, <2>3
    <3> QED  BY <1>5, <1>8, <2>3, <3>1, Zenon
  <2> QED  BY <2>2, <2>3
<1> QED  BY <1>7, <1>8

LEMMA WorkerSendsStep == ASSUME IInv, WorkerSends PROVE IInv'
<1>1. /\ worker.at = "preflight" /\ worker.batch # <<>> /\ worker.run # 0 /\ worker.gave = "reply" /\ ~ interrupting
      /\ UNCHANGED <<admitted, outbound, context, gateway, burst, queue, handlers, posted,
                     recovery, doomed,
                     interrupting, tool, landed, runs, ran, spoke, reported>>
      /\ Settle(worker.batch, "sending") /\ wire' = wire \cup {worker.run}
      /\ worker' = [worker EXCEPT !.at = "sending"]
  BY DEF WorkerSends, IInv, WorkerInv, Begun
<1>2. /\ worker \in WorkerSet /\ Held \subseteq Chats /\ Held \subseteq Inputs /\ Head(worker.batch) \in Held
      /\ \A i \in Held : rows[i].state = "reply_pending" /\ rows[i].reply = worker.run
  BY <1>1, HeldFacts, HeldRows DEF IInv
<1>3. worker.run \in Runs /\ sends[worker.run] = 0 /\ worker.run \notin spoke /\ worker.run <= runs
  BY <1>1, <1>2 DEF WorkerSet, IInv, Accounts, SendInv, RunsInv
<1>4. sends \in [Runs -> Nat] /\ sends' = [sends EXCEPT ![worker.run] = 1]
  <2>1. sends \in [Runs -> Nat] /\ sends' = [sends EXCEPT ![worker.run] = sends[worker.run] + 1]
    BY DEF WorkerSends, IInv, Accounts, HistoryTypes
  <2> QED  BY <1>3, <2>1
<1>5. /\ worker' \in WorkerSet /\ worker'.at = "sending" /\ worker'.batch = worker.batch
      /\ worker'.run = worker.run /\ worker'.gave = "reply"
  BY <1>1, <1>2 DEF WorkerSet, Begun
<1>6. /\ rows' \in [Inputs -> RowSet] /\ Together(rows)' /\ OneReply(rows)'
      /\ \A i \in Inputs : i \notin Held => rows'[i] = rows[i]
      /\ \A i \in Held : rows[i].state \notin Terminal =>
           rows'[i] = [state |-> Marked(rows[i], "sending"), batch |-> worker.batch, reply |-> rows[i].reply]
  BY <1>1, WorkerMark DEF States, Terminal
<1>7. \A i \in Held : rows'[i] = [state |-> "sending", batch |-> worker.batch, reply |-> worker.run]
  BY <1>2, <1>6 DEF Terminal, Marked
<1>8. Held' = Held
  BY <1>5 DEF Held
<1>9. /\ MemoryTypes' /\ DownInv' /\ PlacesInv' /\ ApartInv' /\ WaitInv' /\ HandlerInv'
      /\ RecoveryInv' /\ DoomedInv' /\ OrphanInv'
  <2>1. worker'.batch = <<>> => \A i \in Held : rows'[i].state \notin {"running", "sending"}
    BY <1>1, <1>5
  <2> QED  BY <1>1, <1>5, <1>6, <1>7, <2>1, WorkerFrame
<1>10. \A i \in Inputs : rows'[i].reply = rows[i].reply
  BY <1>2, <1>6, <1>7
<1>11. WorkerInv'
  <2>1. \A i \in Held' : HeldRow(rows[i])'
    BY <1>5, <1>7, <1>8 DEF HeldRow
  <2> QED  BY <1>1, <1>5, <1>7, <1>8, <1>10, <2>1 DEF IInv, WorkerInv, Begun
<1>12. RowInv'
  BY <1>1, <1>2, <1>6, <1>7 DEF IInv, Accounts, RowInv
<1>13. (DiskTypes /\ HistoryTypes /\ Distinct(admitted) /\ FailureSticks)'
  BY <1>1, <1>3, <1>4, <1>6 DEF IInv, Accounts, DiskTypes, HistoryTypes, Distinct, FailureSticks
<1>14. RunsInv'
  <2>1. \A r \in Runs : r > runs => r # worker.run
    BY <1>3, RunNumbers DEF IInv, Accounts, HistoryTypes
  <2> QED  BY <1>1, <1>4, <1>5, <1>10, <2>1 DEF IInv, Accounts, RunsInv
<1>15. SendInv'
  <2>1. ASSUME NEW i \in Inputs, i \notin Held PROVE rows[i].reply # worker.run
    BY <1>1, <2>1 DEF IInv, WorkerInv
  <2>2. \A r \in Runs : r # worker.run => sends'[r] = sends[r]
    BY <1>4
  <2>3. sends'[worker.run] = 1
    BY <1>3, <1>4
  <2>4. ASSUME NEW i \in Inputs, rows'[i].reply # 0
        PROVE  /\ rows'[i].reply \notin spoke'
               /\ rows'[i].state \in {"reply_pending", "cancelled"} => sends'[rows'[i].reply] = 0
               /\ rows'[i].state = "done" => rows'[i].reply \in landed'
    <3>1. CASE i \in Held
      BY <1>1, <1>3, <1>7, <3>1
    <3>2. CASE i \notin Held
      <4>1. rows[i].reply \in Runs /\ rows'[i] = rows[i]
        BY <1>6, <2>4, <3>2 DEF IInv, Accounts, DiskTypes, RowSet
      <4> QED  BY <1>1, <2>1, <2>2, <2>4, <3>2, <4>1 DEF IInv, Accounts, SendInv
    <3> QED  BY <3>1, <3>2
  <2>5. wire \cup landed \subseteq Runs
    BY DEF IInv, Accounts, HistoryTypes
  <2>6. \A r \in Runs : sends'[r] <= 1
    BY <2>2, <2>3 DEF IInv, Accounts, SendInv
  <2>7. \A r \in wire' \cup landed' : sends'[r] # 0
    BY <1>1, <2>2, <2>3, <2>5 DEF IInv, Accounts, SendInv
  <2>8. \A r \in spoke' : sends'[r] = 0
    BY <1>1, <1>3, <2>2 DEF IInv, Accounts, SendInv, HistoryTypes
  <2> QED  BY <2>4, <2>6, <2>7, <2>8 DEF SendInv
<1>16. ToolInv'
  <2>1. tool.at # "idle" => tool.run # worker.run /\ tool.run \in Runs
    BY <1>2 DEF IInv, Accounts, ToolInv, MemoryTypes
  <2> QED  BY <1>1, <1>4, <1>5, <1>10, <2>1 DEF IInv, Accounts, ToolInv
<1>17. Accounts'
  BY <1>6, <1>12, <1>13, <1>14, <1>15, <1>16 DEF Accounts
<1> QED  BY <1>9, <1>11, <1>17 DEF IInv

-----------------------------------------------------------------------------
(***************************************************************************)
(* Recovery sends the answers that were saved.                             *)
(***************************************************************************)
Saved == Head(recovery.replies)

LEMMA SavedFacts ==
  ASSUME IInv, recovery.replies # <<>>
  PROVE  /\ Saved \in Seq(Inputs) /\ Saved # <<>> /\ Head(Saved) \in Inputs /\ Head(Saved) \in ToSet(Saved)
         /\ Alike(rows, Saved) /\ gateway \notin {"down", "opening"}
         /\ \A i \in ToSet(Saved) : i \in Chats /\ i \in Inputs /\ i \notin Held /\ rows[i] = rows[Head(Saved)]
         /\ rows[Head(Saved)].batch = Saved
         /\ rows[Head(Saved)].state = IF recovery.at = "sending" THEN "sending" ELSE "reply_pending"
         /\ rows[Head(Saved)].reply \in Runs /\ ReplyOf(Saved) = rows[Head(Saved)].reply
         /\ \A i \in Inputs : rows[i].reply = ReplyOf(Saved) => i \in ToSet(Saved)
         /\ worker.run # ReplyOf(Saved)
         /\ Tail(recovery.replies) \in Seq(Seq(Inputs))
         /\ \A k \in DOMAIN Tail(recovery.replies) :
              /\ Tail(recovery.replies)[k] = recovery.replies[k + 1] /\ k + 1 \in DOMAIN recovery.replies /\ k + 1 # 1
              /\ Head(Tail(recovery.replies)[k]) \notin ToSet(Saved)
         /\ Distinct(Tail(recovery.replies))
<1>1. recovery.replies \in Seq(Seq(Inputs)) /\ rows \in [Inputs -> RowSet]
  BY DEF IInv, MemoryTypes, RecoverySet, Accounts, DiskTypes
<1>2. /\ Saved \in Seq(Inputs) /\ Saved = recovery.replies[1] /\ 1 \in DOMAIN recovery.replies
      /\ Tail(recovery.replies) \in Seq(Seq(Inputs))
      /\ \A k \in DOMAIN Tail(recovery.replies) :
           Tail(recovery.replies)[k] = recovery.replies[k + 1] /\ k + 1 \in DOMAIN recovery.replies /\ k + 1 # 1
      /\ Distinct(recovery.replies) => Distinct(Tail(recovery.replies))
  BY <1>1, Tailed DEF Saved
<1>3. /\ Saved # <<>> /\ Head(Saved) \in Inputs /\ rows[Head(Saved)].batch = Saved /\ Head(Saved) \notin Held
      /\ rows[Head(Saved)].state = IF recovery.at = "sending" THEN "sending" ELSE "reply_pending"
  BY <1>2 DEF IInv, RecoveryInv
<1>4. Head(Saved) \in ToSet(Saved)
  BY <1>2, <1>3, Tailed
<1>5. rows[Head(Saved)].state \in {"sending", "reply_pending"}
  BY <1>3
<1>6. \A i \in ToSet(Saved) : i \in Inputs /\ rows[i] = rows[Head(Saved)]
  BY <1>3, <1>5 DEF IInv, Accounts, Together
<1>7. Alike(rows, Saved)
  BY <1>3, <1>5, <1>6 DEF Alike
<1>8. ASSUME NEW i \in ToSet(Saved) PROVE i \in Chats /\ i \notin Held
  <2>1. i \in Chats
    BY <1>5, <1>6 DEF IInv, Accounts, RowInv
  <2>2. ASSUME i \in Held PROVE FALSE
    <3>1. worker \in WorkerSet /\ rows[i].state \in {"sending", "reply_pending"}
      BY <1>5, <1>6, HeldFacts
    <3>2. worker.at \in Begun
      BY <2>2, <3>1, HeldRows DEF IInv, WorkerInv, WorkerSet, Held, ToSet
    <3>3. rows[i].batch = worker.batch
      BY <2>2, <3>2 DEF IInv, WorkerInv
    <3>4. worker.batch = Saved
      BY <1>3, <1>6, <3>3
    <3> QED  BY <1>3, <1>4, <3>4 DEF Held
  <2> QED  BY <2>1, <2>2
<1>9. rows[Head(Saved)].reply \in Runs
  BY <1>1, <1>3, <1>5 DEF RowSet, IInv, Accounts, RowInv
<1>10. ReplyOf(Saved) = rows[Head(Saved)].reply
  BY <1>9 DEF ReplyOf
<1>11. ASSUME NEW i \in Inputs, rows[i].reply = ReplyOf(Saved) PROVE i \in ToSet(Saved)
  <2>1. rows[i] = rows[Head(Saved)]
    BY <1>3, <1>9, <1>10, <1>11, RunNumbers DEF IInv, Accounts, OneReply
  <2>2. i \in ToSet(rows[i].batch)
    BY <1>5, <2>1 DEF IInv, Accounts, Together
  <2> QED  BY <1>3, <2>1, <2>2
<1>12. worker.run # ReplyOf(Saved)
  BY <1>3, <1>9, <1>10, RunNumbers DEF IInv, WorkerInv
<1>13. ASSUME NEW k \in DOMAIN Tail(recovery.replies)
       PROVE  Head(Tail(recovery.replies)[k]) \notin ToSet(Saved)
  <2>1. /\ Tail(recovery.replies)[k] = recovery.replies[k + 1] /\ k + 1 \in DOMAIN recovery.replies /\ k + 1 # 1
    BY <1>2
  <2>2. recovery.replies[k + 1] # Saved
    BY <1>2, <2>1 DEF IInv, RecoveryInv, Distinct
  <2>3. rows[Head(recovery.replies[k + 1])].batch = recovery.replies[k + 1]
    BY <2>1 DEF IInv, RecoveryInv
  <2> QED  BY <1>3, <1>6, <2>1, <2>2, <2>3
<1>14. gateway \notin {"down", "opening"}
  BY DEF IInv, DownInv, NoRecovery
<1>15. Distinct(recovery.replies)
  BY DEF IInv, RecoveryInv
<1> QED  BY <1>2, <1>3, <1>4, <1>6, <1>7, <1>8, <1>9, <1>10, <1>11, <1>12, <1>13, <1>14, <1>15

\* What a step of recovery that marks a saved batch leaves as it was.
LEMMA RecoveryFrame ==
  ASSUME IInv, recovery.replies # <<>>,
         UNCHANGED <<gateway, burst, queue, handlers, posted, worker, doomed, interrupting, tool,
                     ran>>,
         \A i \in Inputs : i \notin ToSet(Saved) => rows'[i] = rows[i],
         \A i \in Inputs : rows'[i].reply = rows[i].reply,
         \/ /\ recovery' = [recovery EXCEPT !.at = "next", !.replies = Tail(recovery.replies)]
            /\ \A i \in ToSet(Saved) : rows'[i].state \in {"done", "cancelled", "uncertain", "reply_pending"}
         \/ /\ recovery' = [recovery EXCEPT !.at = "sending"] /\ recovery.at # "off"
            /\ \A i \in ToSet(Saved) : rows'[i].state = "sending" /\ rows'[i].batch = Saved
  PROVE  /\ MemoryTypes' /\ DownInv' /\ PlacesInv' /\ ApartInv' /\ WaitInv' /\ HandlerInv'
         /\ WorkerInv' /\ RecoveryInv' /\ DoomedInv' /\ OrphanInv'
<1> USE SavedFacts
<1>1. recovery \in RecoverySet /\ recovery' \in RecoverySet /\ recovery'.inputs = recovery.inputs
  BY DEF IInv, MemoryTypes, RecoverySet
<1>2. UNCHANGED <<Bursting, Queued, Recovering, Held, Dropping>> /\ PlacesInv' /\ ApartInv'
  BY <1>1, Slots DEF SlotsStay, DropsStay, IInv
<1>3. MemoryTypes' /\ HandlerInv' /\ DownInv'
  BY <1>1 DEF IInv, MemoryTypes, HandlerInv, DownInv
<1>4. Bursting \cup Queued \cup Recovering \cup Dropping \cup Held \subseteq Inputs
  <2>1. Bursting \subseteq Inputs
    BY DEF IInv, MemoryTypes, Bursting, ToSet, Inputs
  <2>2. Recovering \subseteq Inputs
    BY DEF IInv, MemoryTypes, RecoverySet, Recovering, ToSet, Inputs
  <2>3. Queued \subseteq Inputs
    BY DEF IInv, MemoryTypes, Queued, ToSet, Inputs
  <2>4. Dropping \subseteq Inputs
    BY DEF IInv, MemoryTypes, HandlerSet, Dropping, ToSet, Inputs
  <2> QED  BY <2>1, <2>2, <2>3, <2>4, HeldFacts
<1>5. \A i \in ToSet(Saved) : rows[i].state \in {"sending", "reply_pending"}
  OBVIOUS
<1>6. WaitInv'
  BY <1>2, <1>4, <1>5 DEF IInv, WaitInv
<1>7. DoomedInv'
  <2>1. doomed \subseteq Inputs
    BY DEF IInv, Accounts, HistoryTypes, Inputs
  <2> QED  BY <1>2, <1>5, <2>1 DEF IInv, DoomedInv
<1>8. WorkerInv'
  <2>1. \A i \in Held : rows'[i] = rows[i]
    BY <1>4
  <2>2. \A i \in Held' : HeldRow(rows[i])'
    BY <1>2, <2>1 DEF IInv, WorkerInv, HeldRow
  <2> QED  BY <1>2, <2>1, <2>2 DEF IInv, WorkerInv
<1>9. RecoveryInv'
  <2>1. CASE recovery' = [recovery EXCEPT !.at = "next", !.replies = Tail(recovery.replies)]
    <3>1. recovery'.at = "next" /\ recovery'.replies = Tail(recovery.replies)
      BY <1>1, <2>1 DEF RecoverySet
    <3>2. ASSUME NEW k \in DOMAIN Tail(recovery.replies)
          PROVE  LET c == Tail(recovery.replies)[k] IN
                 /\ c # <<>> /\ Head(c) \in Inputs /\ rows'[Head(c)].batch = c /\ Head(c) \notin Held'
                 /\ rows'[Head(c)].state = "reply_pending"
      <4>1. /\ Tail(recovery.replies)[k] = recovery.replies[k + 1] /\ k + 1 \in DOMAIN recovery.replies /\ k + 1 # 1
            /\ Head(recovery.replies[k + 1]) \notin ToSet(Saved)
        OBVIOUS
      <4>2. /\ recovery.replies[k + 1] # <<>> /\ Head(recovery.replies[k + 1]) \in Inputs
            /\ rows[Head(recovery.replies[k + 1])].batch = recovery.replies[k + 1]
            /\ Head(recovery.replies[k + 1]) \notin Held
            /\ rows[Head(recovery.replies[k + 1])].state = "reply_pending"
        BY <4>1 DEF IInv, RecoveryInv
      <4> QED  BY <1>2, <4>1, <4>2
    <3> QED  BY <3>1, <3>2 DEF RecoveryInv
  <2>2. CASE /\ recovery' = [recovery EXCEPT !.at = "sending"] /\ recovery.at # "off"
             /\ \A i \in ToSet(Saved) : rows'[i].state = "sending" /\ rows'[i].batch = Saved
    <3>1. recovery'.at = "sending" /\ recovery'.replies = recovery.replies
      BY <1>1, <2>2 DEF RecoverySet
    <3>2. ASSUME NEW k \in DOMAIN recovery.replies
          PROVE  LET c == recovery.replies[k] IN
                 /\ c # <<>> /\ Head(c) \in Inputs /\ rows'[Head(c)].batch = c /\ Head(c) \notin Held'
                 /\ rows'[Head(c)].state = IF k = 1 THEN "sending" ELSE "reply_pending"
      <4>1. /\ recovery.replies[k] # <<>> /\ Head(recovery.replies[k]) \in Inputs
            /\ rows[Head(recovery.replies[k])].batch = recovery.replies[k]
            /\ Head(recovery.replies[k]) \notin Held
            /\ k # 1 => rows[Head(recovery.replies[k])].state = "reply_pending"
        BY DEF IInv, RecoveryInv
      <4>2. CASE k = 1
        <5>1. recovery.replies[k] = Saved
          BY <1>1, <4>2 DEF Saved, RecoverySet
        <5> QED  BY <1>2, <2>2, <4>1, <4>2, <5>1
      <4>3. CASE k # 1
        <5>1. Saved = recovery.replies[1] /\ 1 \in DOMAIN recovery.replies
          BY <1>1, Tailed DEF Saved, RecoverySet
        <5>2. recovery.replies[k] # Saved
          BY <4>3, <5>1 DEF IInv, RecoveryInv, Distinct
        <5>3. Head(recovery.replies[k]) \notin ToSet(Saved)
          BY <4>1, <5>2
        <5> QED  BY <1>2, <4>1, <4>3, <5>3
      <4> QED  BY <4>2, <4>3
    <3> QED  BY <3>1, <3>2 DEF IInv, RecoveryInv, Distinct
  <2> QED  BY <2>1, <2>2
<1>10. OrphanInv'
  <2>1. ASSUME gateway = "up", NEW i \in Inputs, i \notin ToSet(Saved)
        PROVE  /\ rows'[i] = rows[i]
               /\ rows[i].state = "pending" => \/ i \in Bursting \cup Queued \cup Recovering \cup Dropping
                                               \/ worker.at = "prepare" /\ i \in Held
               /\ rows[i].state = "running" =>
                    i \in Held \/ \E h \in Handlers : h[1] = i /\ handlers[h].at \in {"interrupt", "reply"}
               /\ rows[i].state = "sending" => i \in Held
    BY <2>1 DEF IInv, OrphanInv, Saved
  <2>2. ASSUME NEW i \in ToSet(Saved)
        PROVE  /\ rows'[i].state \notin {"pending", "running"}
               /\ rows'[i].state = "sending" => recovery'.at = "sending" /\ recovery'.replies = recovery.replies
    BY <1>1 DEF RecoverySet
  <2> QED  BY <1>2, <2>1, <2>2 DEF OrphanInv, Saved
<1> QED  BY <1>2, <1>3, <1>6, <1>7, <1>8, <1>9, <1>10

LEMMA SavedMark ==
  ASSUME IInv, recovery.replies # <<>>, NEW state \in States \ {"none", "pending"},
         Settle(Saved, state)
  PROVE  /\ rows' \in [Inputs -> RowSet] /\ Together(rows)' /\ OneReply(rows)'
         /\ \A i \in Inputs : i \notin ToSet(Saved) => rows'[i] = rows[i]
         /\ \A i \in ToSet(Saved) :
              rows'[i] = [state |-> Marked(rows[i], state), batch |-> Saved, reply |-> rows[i].reply]
<1>1. Saved \in Seq(Inputs) /\ Alike(rows, Saved) /\ \A i \in ToSet(Saved) : rows[i].state \notin Terminal
  BY SavedFacts DEF Terminal
<1> QED  BY <1>1, OneMark

\* A saved answer is settled, and recovery goes on to the next.
LEMMA RecoverySettles ==
  ASSUME IInv, recovery.replies # <<>>, NEW outcome \in {"done", "cancelled", "uncertain"},
         Settle(Saved, outcome),
         recovery' = NextReply,
         UNCHANGED <<admitted, context, gateway, burst, queue, handlers, posted, worker, doomed,
                     interrupting, tool,
                     wire, landed, runs, ran, sends, spoke, reported>>,
         outbound' \in [Runs -> [known : BOOLEAN, status : {"none", "queued", "failed"}]], FailureSticks',
         outcome = "done" => ReplyOf(Saved) \in landed,
         outcome = "cancelled" => recovery.at # "sending"
  PROVE  IInv'
<1>1. outcome \in States \ {"none", "pending"}
  BY DEF States, Terminal
<1>2. /\ rows' \in [Inputs -> RowSet] /\ Together(rows)' /\ OneReply(rows)'
      /\ \A i \in Inputs : i \notin ToSet(Saved) => rows'[i] = rows[i]
      /\ \A i \in ToSet(Saved) :
           rows'[i] = [state |-> Marked(rows[i], outcome), batch |-> Saved, reply |-> rows[i].reply]
  BY <1>1, SavedMark
<1>3. /\ \A i \in ToSet(Saved) : /\ i \in Chats /\ i \in Inputs /\ rows[i].reply = ReplyOf(Saved)
                                 /\ rows[i].state = IF recovery.at = "sending" THEN "sending" ELSE "reply_pending"
      /\ ReplyOf(Saved) \in Runs
  BY SavedFacts
<1>4. ASSUME NEW i \in ToSet(Saved)
      PROVE  /\ rows'[i].state \in {"done", "cancelled", "uncertain", "reply_pending"}
             /\ rows'[i].reply = rows[i].reply
             /\ rows'[i].state = "done" => rows'[i].reply \in landed
             /\ rows'[i].state \in {"reply_pending", "cancelled"} => rows[i].state = "reply_pending"
             /\ rows[i].state # "none" /\ rows[i].reply \in Runs
  <2>0. rows[i].reply = ReplyOf(Saved) /\ ReplyOf(Saved) \in Runs
    BY <1>3
  <2>9. rows'[i] = [state |-> Marked(rows[i], outcome), batch |-> Saved, reply |-> rows[i].reply]
    BY <1>2
  <2>1. CASE rows[i].state = "reply_pending"
    <3>1. Marked(rows[i], outcome) \in {outcome, "reply_pending"}
      BY DEF Marked
    <3>2. /\ rows'[i].state = Marked(rows[i], outcome) /\ rows'[i].reply = ReplyOf(Saved)
          /\ rows[i].reply = ReplyOf(Saved) /\ ReplyOf(Saved) \in Runs
      BY <2>0, <2>9
    <3> QED  BY <2>1, <3>1, <3>2
  <2>2. CASE rows[i].state = "sending" /\ recovery.at = "sending"
    <3>1. Marked(rows[i], outcome) = outcome /\ outcome # "cancelled"
      BY <2>2 DEF Marked
    <3>2. /\ rows'[i].state = outcome /\ rows'[i].reply = ReplyOf(Saved)
          /\ rows[i].reply = ReplyOf(Saved) /\ ReplyOf(Saved) \in Runs
      BY <2>0, <2>9, <3>1
    <3> QED  BY <2>2, <3>1, <3>2
  <2> QED  BY <1>3, <2>1, <2>2
<1>5. \A i \in Inputs : rows'[i].reply = rows[i].reply
  BY <1>2, <1>4
<1>6. /\ MemoryTypes' /\ DownInv' /\ PlacesInv' /\ ApartInv' /\ WaitInv' /\ HandlerInv'
      /\ WorkerInv' /\ RecoveryInv' /\ DoomedInv' /\ OrphanInv'
  <2>1. recovery' = [recovery EXCEPT !.at = "next", !.replies = Tail(recovery.replies)]
    BY DEF NextReply, IInv, MemoryTypes, RecoverySet
  <2> QED  BY <1>2, <1>4, <1>5, <2>1, RecoveryFrame
<1>7. RowInv'
  <2>1. ASSUME NEW i \in ToSet(Saved)
        PROVE  /\ i \in Chats /\ rows[i].state # "none" /\ rows'[i].reply # 0
               /\ rows'[i].state \notin {"none", "pending", "running"}
    BY <1>3, <1>4, RunNumbers
  <2> QED  BY <1>2, <2>1 DEF IInv, Accounts, RowInv
<1>8. (DiskTypes /\ HistoryTypes /\ Distinct(admitted))'
  BY <1>2 DEF IInv, Accounts, DiskTypes, HistoryTypes, Distinct
<1>9. (RunsInv /\ ToolInv)'
  BY <1>5 DEF IInv, Accounts, RunsInv, ToolInv
<1>10. SendInv'
  <2>1. ASSUME NEW i \in Inputs, rows'[i].reply # 0
        PROVE  /\ rows'[i].reply \notin spoke
               /\ rows'[i].state \in {"reply_pending", "cancelled"} => sends[rows'[i].reply] = 0
               /\ rows'[i].state = "done" => rows'[i].reply \in landed
    <3>1. CASE i \in ToSet(Saved)
      BY <1>3, <1>4, <1>5, <2>1, <3>1 DEF IInv, Accounts, SendInv
    <3>2. CASE i \notin ToSet(Saved)
      BY <1>2, <2>1, <3>2 DEF IInv, Accounts, SendInv
    <3> QED  BY <3>1, <3>2
  <2> QED  BY <2>1 DEF IInv, Accounts, SendInv
<1>11. Accounts'
  BY <1>2, <1>7, <1>8, <1>9, <1>10 DEF Accounts
<1> QED  BY <1>6, <1>11 DEF IInv

LEMMA RecoverReplyStep == ASSUME IInv, RecoverReply PROVE IInv'
<1>1. recovery.at = "next" /\ recovery.replies # <<>>
  BY DEF RecoverReply
<1>2. /\ UNCHANGED <<admitted, outbound, context, gateway, burst, queue, handlers, posted, worker,
                     doomed,
                     interrupting, tool, wire, landed, runs, ran, sends, spoke, reported>>
  BY DEF RecoverReply, server
<1>3. CASE Settle(Saved, "cancelled") /\ recovery' = NextReply
  <2>1. outbound' \in [Runs -> [known : BOOLEAN, status : {"none", "queued", "failed"}]]
        /\ FailureSticks'
    BY <1>2 DEF IInv, Accounts, DiskTypes, FailureSticks
  <2> QED  BY <1>1, <1>2, <1>3, <2>1, RecoverySettles
<1>4. CASE recovery' = [recovery EXCEPT !.at = "preflight"] /\ UNCHANGED rows
  <2>1. /\ recovery' \in RecoverySet /\ recovery'.at = "preflight" /\ recovery'.replies = recovery.replies
        /\ recovery'.inputs = recovery.inputs
    BY <1>4 DEF IInv, MemoryTypes, RecoverySet
  <2>2. UNCHANGED <<Bursting, Queued, Recovering, Held, Dropping>> /\ PlacesInv' /\ ApartInv'
    BY <1>2, <2>1, Slots DEF SlotsStay, DropsStay, IInv
  <2>3. MemoryTypes' /\ HandlerInv'
    BY <1>2, <2>1 DEF IInv, MemoryTypes, HandlerInv
  <2>4. DownInv'
    BY <1>1, <1>2, SavedFacts DEF DownInv
  <2>5. WaitInv' /\ DoomedInv'
    BY <1>2, <1>4, <2>2 DEF IInv, WaitInv, DoomedInv
  <2>6. WorkerInv' /\ Accounts'
    BY <1>2, <1>4, WorkerStays, AccountsStay DEF IInv, disk
  <2>7. RecoveryInv'
    BY <1>1, <1>2, <1>4, <2>1, <2>2 DEF IInv, RecoveryInv, Distinct
  <2>8. OrphanInv'
    BY <1>1, <1>2, <1>4, <2>1, <2>2 DEF IInv, OrphanInv
  <2> QED  BY <2>2, <2>3, <2>4, <2>5, <2>6, <2>7, <2>8 DEF IInv
<1> QED  BY <1>3, <1>4 DEF RecoverReply, Saved

LEMMA RecoverySentStep == ASSUME IInv, RecoverySent \/ RecoverySendFails PROVE IInv'
<1>1. /\ recovery.at \in {"preflight", "sending"} /\ recovery.replies # <<>> /\ recovery' = NextReply
      /\ UNCHANGED <<admitted, context, gateway, burst, queue, handlers, posted, worker, doomed,
                     interrupting, tool, wire, landed, runs, ran, sends, spoke, reported>>
  BY DEF RecoverySent, RecoverySendFails, server, history, IInv, RecoveryInv
<1>2. outbound \in [Runs -> [known : BOOLEAN, status : {"none", "queued", "failed"}]]
      /\ reported \subseteq Runs
  BY DEF IInv, Accounts, DiskTypes, HistoryTypes
<1>3. CASE Settle(Saved, "done") /\ ReplyOf(Saved) \in landed
      /\ outbound' = Recorded(ReplyOf(Saved))
  <2>1. /\ outbound' \in [Runs -> [known : BOOLEAN, status : {"none", "queued", "failed"}]]
        /\ \A r \in Runs : outbound[r].status = "failed" => outbound'[r].status = "failed"
    BY <1>2, <1>3 DEF Recorded
  <2>2. FailureSticks'
    BY <1>1, <1>2, <2>1 DEF IInv, Accounts, FailureSticks
  <2> QED  BY <1>1, <1>3, <2>1, <2>2, RecoverySettles
<1>4. CASE Settle(Saved, "uncertain") /\ UNCHANGED outbound
  <2>1. FailureSticks'
    BY <1>1, <1>4 DEF IInv, Accounts, FailureSticks
  <2> QED  BY <1>1, <1>2, <1>4, <2>1, RecoverySettles
<1> QED  BY <1>3, <1>4 DEF RecoverySent, RecoverySendFails, Saved

LEMMA RecoverySendsStep == ASSUME IInv, RecoverySends PROVE IInv'
<1>1. /\ recovery.at = "preflight" /\ recovery.replies # <<>>
      /\ UNCHANGED <<admitted, outbound, context, gateway, burst, queue, handlers, posted, worker,
                     doomed,
                     interrupting, tool, landed, runs, ran, spoke, reported>>
      /\ Settle(Saved, "sending") /\ wire' = wire \cup {ReplyOf(Saved)}
      /\ recovery' = [recovery EXCEPT !.at = "sending"]
      /\ sends' = [sends EXCEPT ![ReplyOf(Saved)] = @ + 1]
  BY DEF RecoverySends, IInv, RecoveryInv, Saved
<1>2. /\ \A i \in ToSet(Saved) : /\ i \in Chats /\ i \in Inputs /\ rows[i].reply = ReplyOf(Saved)
                                 /\ rows[i].state = "reply_pending"
      /\ ReplyOf(Saved) \in Runs /\ Head(Saved) \in ToSet(Saved)
      /\ \A i \in Inputs : rows[i].reply = ReplyOf(Saved) => i \in ToSet(Saved)
      /\ worker.run # ReplyOf(Saved)
  BY <1>1, SavedFacts
<1>3. PICK q \in Runs : q = ReplyOf(Saved)
  BY <1>2
<1>4. sends[q] = 0 /\ q \notin spoke /\ q <= runs
  BY <1>2, <1>3, RunNumbers DEF IInv, Accounts, SendInv, RunsInv
<1>5. sends \in [Runs -> Nat] /\ sends' = [sends EXCEPT ![q] = 1]
  <2>1. sends \in [Runs -> Nat] /\ sends' = [sends EXCEPT ![q] = sends[q] + 1]
    BY <1>1, <1>3 DEF IInv, Accounts, HistoryTypes
  <2> QED  BY <1>3, <1>4, <2>1
<1>6. /\ rows' \in [Inputs -> RowSet] /\ Together(rows)' /\ OneReply(rows)'
      /\ \A i \in Inputs : i \notin ToSet(Saved) => rows'[i] = rows[i]
      /\ \A i \in ToSet(Saved) :
           rows'[i] = [state |-> Marked(rows[i], "sending"), batch |-> Saved, reply |-> rows[i].reply]
  BY <1>1, SavedMark DEF States, Terminal
<1>7. \A i \in ToSet(Saved) : rows'[i] = [state |-> "sending", batch |-> Saved, reply |-> q]
  BY <1>2, <1>3, <1>6 DEF Marked
<1>8. \A i \in Inputs : rows'[i].reply = rows[i].reply
  BY <1>2, <1>3, <1>6, <1>7
<1>9. /\ MemoryTypes' /\ DownInv' /\ PlacesInv' /\ ApartInv' /\ WaitInv' /\ HandlerInv'
      /\ WorkerInv' /\ RecoveryInv' /\ DoomedInv' /\ OrphanInv'
  BY <1>1, <1>6, <1>7, <1>8, RecoveryFrame
<1>10. RowInv'
  <2>1. ASSUME NEW i \in ToSet(Saved)
        PROVE  /\ i \in Chats /\ rows[i].state # "none" /\ rows'[i].reply # 0
               /\ rows'[i].state = "sending"
    BY <1>2, <1>3, <1>7, RunNumbers
  <2> QED  BY <1>1, <1>6, <2>1 DEF IInv, Accounts, RowInv
<1>11. (DiskTypes /\ HistoryTypes /\ Distinct(admitted) /\ FailureSticks)'
  BY <1>1, <1>3, <1>5, <1>6 DEF IInv, Accounts, DiskTypes, HistoryTypes, Distinct, FailureSticks
<1>12. RunsInv'
  <2>1. \A r \in Runs : r > runs => r # q
    BY <1>4, RunNumbers DEF IInv, Accounts, HistoryTypes
  <2> QED  BY <1>1, <1>5, <1>8, <2>1 DEF IInv, Accounts, RunsInv
<1>13. SendInv'
  <2>2. \A r \in Runs : r # q => sends'[r] = sends[r]
    BY <1>5
  <2>3. sends'[q] = 1
    BY <1>5
  <2>4. ASSUME NEW i \in Inputs, rows'[i].reply # 0
        PROVE  /\ rows'[i].reply \notin spoke'
               /\ rows'[i].state \in {"reply_pending", "cancelled"} => sends'[rows'[i].reply] = 0
               /\ rows'[i].state = "done" => rows'[i].reply \in landed'
    <3>1. CASE i \in ToSet(Saved)
      BY <1>1, <1>4, <1>7, <3>1
    <3>2. CASE i \notin ToSet(Saved)
      <4>1. rows[i].reply \in Runs /\ rows'[i] = rows[i] /\ rows[i].reply # q
        BY <1>2, <1>3, <1>6, <2>4, <3>2 DEF IInv, Accounts, DiskTypes, RowSet
      <4> QED  BY <1>1, <2>2, <2>4, <3>2, <4>1 DEF IInv, Accounts, SendInv
    <3> QED  BY <3>1, <3>2
  <2>5. wire \cup landed \subseteq Runs
    BY DEF IInv, Accounts, HistoryTypes
  <2>6. \A r \in Runs : sends'[r] <= 1
    BY <2>2, <2>3 DEF IInv, Accounts, SendInv
  <2>7. \A r \in wire' \cup landed' : sends'[r] # 0
    BY <1>1, <1>3, <2>2, <2>3, <2>5 DEF IInv, Accounts, SendInv
  <2>8. \A r \in spoke' : sends'[r] = 0
    BY <1>1, <1>4, <2>2 DEF IInv, Accounts, SendInv, HistoryTypes
  <2> QED  BY <2>4, <2>6, <2>7, <2>8 DEF SendInv
<1>14. ToolInv'
  <2>1. tool.at # "idle" => tool.run # q /\ tool.run \in Runs
    BY <1>2, <1>3 DEF IInv, Accounts, ToolInv, MemoryTypes
  <2>2. worker.at \in {"started", "running"} => worker.run # q /\ worker.run \in Runs
    BY <1>2, <1>3 DEF IInv, WorkerInv, MemoryTypes, WorkerSet, Begun
  <2> QED  BY <1>1, <1>5, <1>8, <2>1, <2>2 DEF IInv, Accounts, ToolInv
<1>15. Accounts'
  BY <1>6, <1>10, <1>11, <1>12, <1>13, <1>14 DEF Accounts
<1> QED  BY <1>9, <1>15 DEF IInv

-----------------------------------------------------------------------------
(***************************************************************************)
(* New receipts, and commands that drop what waits.                        *)
(***************************************************************************)
Places == Bursting \cup Queued \cup Recovering \cup Held \cup Dropping

LEMMA PlacesAreInputs ==
  ASSUME IInv
  PROVE  Bursting \subseteq Chats /\ Queued \subseteq Chats /\ Recovering \subseteq Chats
         /\ Held \subseteq Chats
         /\ Dropping \subseteq Chats /\ Places \subseteq Inputs
<1>1. Bursting \subseteq Chats
  BY DEF IInv, MemoryTypes, Bursting, ToSet
<1>2. Recovering \subseteq Chats
  BY DEF IInv, MemoryTypes, RecoverySet, Recovering, ToSet
<1>3. Queued \subseteq Chats
  BY DEF IInv, MemoryTypes, Queued, ToSet
<1>4. Dropping \subseteq Chats
  BY DEF IInv, MemoryTypes, HandlerSet, Dropping, ToSet
<1> QED  BY <1>1, <1>2, <1>3, <1>4, HeldFacts DEF Places, Inputs

\* An input without a receipt is nowhere, and no batch that was marked names it.
LEMMA Unseen ==
  ASSUME IInv, NEW i \in Inputs, rows[i].state = "none"
  PROVE  /\ i \notin Places /\ ran[i] = 0 /\ i \notin ToSet(admitted)
         /\ \A j \in Inputs : rows[j].state \notin {"none", "pending"} => i \notin ToSet(rows[j].batch)
         /\ \A k \in DOMAIN recovery.replies : Head(recovery.replies[k]) # i
<1>1. i \notin Held
  <2>1. ASSUME NEW j \in Held PROVE rows[j].state # "none"
    <3>1. worker.batch # <<>>
      BY DEF Held, ToSet
    <3> QED  BY <3>1, HeldRows DEF IInv, WorkerInv, MemoryTypes, WorkerSet, Begun
  <2> QED  BY <2>1
<1>2. i \notin Places
  BY <1>1 DEF IInv, WaitInv, Places
<1>3. ran[i] = 0 /\ i \notin ToSet(admitted)
  BY DEF IInv, Accounts, RowInv
<1>4. \A j \in Inputs : rows[j].state \notin {"none", "pending"} => i \notin ToSet(rows[j].batch)
  BY DEF IInv, Accounts, Together
<1>5. \A k \in DOMAIN recovery.replies : Head(recovery.replies[k]) # i
  BY DEF IInv, RecoveryInv
<1> QED  BY <1>2, <1>3, <1>4, <1>5

LEMMA NewReceipt ==
  ASSUME IInv, NEW i \in Inputs, rows[i].state = "none", NEW state \in {"pending", "running"},
         i \in Chats <=> state = "pending"
  PROVE  LET table == Receipt(i, state) IN
         /\ table \in [Inputs -> RowSet]
         /\ table[i] = [state |-> state, batch |-> <<i>>, reply |-> 0]
         /\ \A j \in Inputs : j # i => table[j] = rows[j]
         /\ Together(table) /\ OneReply(table)
         /\ \A j \in Inputs : table[j].reply = rows[j].reply
<1> DEFINE table == Receipt(i, state)
<1>1. rows \in [Inputs -> RowSet] /\ Together(rows) /\ OneReply(rows) /\ rows[i].reply = 0
  BY DEF IInv, Accounts, DiskTypes, RowInv
<1>2. /\ table[i] = [state |-> state, batch |-> <<i>>, reply |-> 0]
      /\ \A j \in Inputs : j # i => table[j] = rows[j]
  BY <1>1 DEF Receipt
<1>3. <<i>> \in Seq(Inputs) /\ ToSet(<<i>>) = {i}
  BY DEF ToSet
<1>4. table \in [Inputs -> RowSet]
  <2>1. [state |-> state, batch |-> <<i>>, reply |-> 0] \in RowSet
    BY <1>3 DEF RowSet, States
  <2> QED  BY <1>1, <2>1 DEF Receipt
<1> HIDE DEF table
<1>5. Together(table)
  <2>1. ASSUME NEW j \in Inputs, table[j].state \notin {"none", "pending"}
        PROVE  j \in ToSet(table[j].batch) /\ \A k \in ToSet(table[j].batch) : k \in Inputs /\ table[k] = table[j]
    <3>1. CASE j = i
      BY <1>2, <1>3, <3>1
    <3>2. CASE j # i
      <4>1. /\ table[j] = rows[j] /\ i \notin ToSet(rows[j].batch) /\ j \in ToSet(rows[j].batch)
            /\ \A k \in ToSet(rows[j].batch) : k \in Inputs /\ rows[k] = rows[j]
        BY <1>1, <1>2, <2>1, <3>2, Unseen DEF Together
      <4> QED  BY <1>2, <4>1
    <3> QED  BY <3>1, <3>2
  <2> QED  BY <2>1 DEF Together
<1>6. \A j \in Inputs : table[j].reply = rows[j].reply
  BY <1>1, <1>2
<1>7. OneReply(table)
  <2>1. ASSUME NEW j \in Inputs, NEW k \in Inputs, table[j].reply # 0, table[j].reply = table[k].reply
        PROVE  table[j] = table[k]
    <3>1. j # i /\ k # i
      BY <1>2, <2>1
    <3> QED  BY <1>1, <1>2, <2>1, <3>1 DEF OneReply
  <2> QED  BY <2>1 DEF OneReply
<1> QED  BY <1>2, <1>4, <1>5, <1>6, <1>7 DEF table

\* Batches that wait are cancelled together.
LEMMA DropMark ==
  ASSUME NEW old \in [Inputs -> RowSet], Together(old), OneReply(old),
         \A i \in Inputs : old[i].reply # 0 => old[i].state \notin {"none", "pending"},
         NEW S, S \subseteq Seq(Chats), Separate(S),
         \A i \in InputsOf(S) : i \in Inputs /\ old[i].state = "pending" /\ old[i].reply = 0
  PROVE  LET new == Mark(old, S, "cancelled", 0) IN
         /\ new \in [Inputs -> RowSet] /\ Together(new) /\ OneReply(new)
         /\ \A i \in Inputs : new[i].reply = old[i].reply
         /\ \A i \in Inputs : i \notin InputsOf(S) => new[i] = old[i]
         /\ \A i \in InputsOf(S) : new[i].state = "cancelled"
<1> DEFINE new == Mark(old, S, "cancelled", 0)
<1>1. /\ S \subseteq Seq(Inputs) /\ "cancelled" \in States \ {"none", "pending"} /\ "cancelled" \in States
      /\ 0 \in {0} \cup Runs
  BY DEF States, Terminal, Inputs
<1>2. \A b \in S : \A i \in ToSet(b) : i \in InputsOf(S)
  BY DEF InputsOf
<1>3. \A b \in S : Alike(old, b)
  BY <1>2 DEF Alike
<1>4. Together(new)
  BY <1>1, <1>3, MarksTogether
<1>5. OneReply(new) /\ \A i \in Inputs : new[i].reply = old[i].reply
  BY <1>1, <1>3, MarksReplies
<1>6. /\ new \in [Inputs -> RowSet]
      /\ \A i \in Inputs : (\A b \in S : i \notin ToSet(b)) => new[i] = old[i]
      /\ \A b \in S : \A i \in Inputs : i \in ToSet(b) =>
           new[i] = IF old[i].state \in Terminal \cup {"none"} THEN old[i]
                    ELSE [state |-> Marked(old[i], "cancelled"), batch |-> b, reply |-> old[i].reply]
  BY <1>1, Marks
<1> HIDE DEF new
<1>7. \A i \in Inputs : i \notin InputsOf(S) => new[i] = old[i]
  BY <1>2, <1>6
<1>8. ASSUME NEW i \in InputsOf(S) PROVE new[i].state = "cancelled"
  <2>1. PICK b \in S : i \in ToSet(b)
    BY DEF InputsOf
  <2>2. i \in Inputs /\ old[i].state \notin Terminal \cup {"none"}
        /\ Marked(old[i], "cancelled") = "cancelled"
    BY DEF Terminal, Marked
  <2> QED  BY <1>6, <2>1, <2>2
<1> QED  BY <1>4, <1>5, <1>6, <1>7, <1>8 DEF new

LEMMA CollectStep == ASSUME IInv, NEW h \in Handlers, Collect(h) PROVE IInv'
<1> DEFINE i == h[1]
<1>1. /\ handlers[h].at = "prepare" /\ i \in Chats /\ i \in Inputs /\ rows[i].state = "none"
      /\ UNCHANGED <<outbound, context, gateway, queue, worker, interrupting, recovery, tool,
                     posted,
                     wire, landed, runs, ran, sends, spoke, doomed, reported>>
      /\ rows' = Receipt(i, "pending") /\ admitted' = Append(admitted, i) /\ burst' = Append(burst, i)
      /\ handlers' = [handlers EXCEPT ![h] = NoHandler]
  BY DEF Collect, Answered, history, Inputs
<1>2. /\ i \notin Places /\ ran[i] = 0 /\ i \notin ToSet(admitted)
      /\ \A k \in DOMAIN recovery.replies : Head(recovery.replies[k]) # i
  BY <1>1, Unseen
<1> HIDE DEF i
<1>3. /\ rows' \in [Inputs -> RowSet]
      /\ rows'[i] = [state |-> "pending", batch |-> <<i>>, reply |-> 0]
      /\ \A j \in Inputs : j # i => rows'[j] = rows[j]
      /\ Together(rows)' /\ OneReply(rows)'
      /\ \A j \in Inputs : rows'[j].reply = rows[j].reply
  <2> DEFINE table == Receipt(i, "pending")
  <2>1. /\ table \in [Inputs -> RowSet]
        /\ table[i] = [state |-> "pending", batch |-> <<i>>, reply |-> 0]
        /\ \A j \in Inputs : j # i => table[j] = rows[j]
        /\ Together(table) /\ OneReply(table)
        /\ \A j \in Inputs : table[j].reply = rows[j].reply
    BY <1>1, NewReceipt
  <2>2. rows' = table
    BY <1>1
  <2> HIDE DEF table
  <2>3. Together(rows)' /\ OneReply(rows)'
    BY <2>1, <2>2 DEF Together, OneReply
  <2> QED  BY <2>1, <2>2, <2>3
<1>4. /\ handlers' \in [Handlers -> HandlerSet] /\ DropsStay /\ HandlerInv'
      /\ \A g \in Handlers : g # h => handlers'[g] = handlers[g]
  BY <1>1, Returns
<1>5. /\ burst \in Seq(Chats) /\ Distinct(burst) /\ admitted \in Seq(Inputs) /\ Distinct(admitted)
      /\ i \notin ToSet(burst)
  BY <1>2 DEF IInv, MemoryTypes, PlacesInv, Accounts, DiskTypes, Places, Bursting
<1>6. /\ burst' \in Seq(Chats) /\ Distinct(burst') /\ ToSet(burst') = ToSet(burst) \cup {i}
  BY <1>1, <1>5, Appended
<1>7. admitted' \in Seq(Inputs) /\ Distinct(admitted')
      /\ ToSet(admitted') = ToSet(admitted) \cup {i}
  BY <1>1, <1>2, <1>5, Appended
<1>8. Bursting' = Bursting \cup {i} /\ UNCHANGED <<Queued, Recovering, Held, Dropping>>
  <2>1. Bursting' = Bursting \cup {i}
    BY <1>6 DEF Bursting
  <2>2. UNCHANGED <<Queued, Recovering, Held>>
    BY <1>1 DEF Queued, Recovering, Held
  <2>3. UNCHANGED Dropping
    BY <1>4 DEF DropsStay, Dropping
  <2> QED  BY <2>1, <2>2, <2>3
<1>9. MemoryTypes'
  BY <1>1, <1>4, <1>6 DEF IInv, MemoryTypes
<1>10. gateway \notin {"down", "opening"}
  BY <1>1 DEF IInv, DownInv, NoHandler
<1>11. DownInv'
  BY <1>1, <1>10 DEF DownInv
<1>12. PlacesInv'
  <2>1. (Distinct(recovery.inputs) /\ Distinct(worker.batch))'
    BY <1>1 DEF IInv, PlacesInv, Distinct
  <2>2. Distinct(burst)'
    BY <1>6 DEF Distinct
  <2>3. /\ \A k \in DOMAIN queue' : queue'[k] # <<>> /\ Distinct(queue'[k])
        /\ \A k, l \in DOMAIN queue' : ToSet(queue'[k]) \cap ToSet(queue'[l]) # {} => k = l
    BY <1>1 DEF IInv, PlacesInv
  <2>4. \A g, f \in Handlers : \A b \in handlers'[g].drops, c \in handlers'[f].drops :
          ToSet(b) \cap ToSet(c) # {} => g = f /\ b = c
    BY <1>4 DEF IInv, PlacesInv, DropsStay
  <2> QED  BY <2>1, <2>2, <2>3, <2>4 DEF PlacesInv, Distinct
<1>13. ApartInv'
  BY <1>2, <1>8 DEF IInv, ApartInv, Places
<1>14. WaitInv'
  BY <1>2, <1>3, <1>8, PlacesAreInputs DEF IInv, WaitInv, Places
<1>15. WorkerInv'
  <2>1. \A j \in Held : rows'[j] = rows[j]
    BY <1>2, <1>3, PlacesAreInputs DEF Places
  <2>2. \A j \in Held' : HeldRow(rows[j])'
    BY <1>1, <1>8, <2>1 DEF IInv, WorkerInv, HeldRow
  <2> QED  BY <1>1, <1>3, <1>8, <2>1, <2>2 DEF IInv, WorkerInv
<1>16. RecoveryInv'
  BY <1>1, <1>2, <1>3, <1>8 DEF IInv, RecoveryInv, Distinct
<1>17. DoomedInv'
  BY <1>1, <1>3, <1>8 DEF IInv, DoomedInv, Accounts, HistoryTypes, Inputs
<1>18. OrphanInv'
  <2>1. ASSUME gateway = "up", NEW j \in Inputs, j # i
        PROVE  /\ rows'[j] = rows[j]
               /\ rows[j].state = "pending" =>
                    \/ j \in Bursting \cup Queued \cup Recovering \cup Dropping
                    \/ worker.at = "prepare" /\ j \in Held
               /\ rows[j].state = "running" =>
                    \/ j \in Held
                    \/ \E g \in Handlers : g[1] = j /\ handlers[g].at \in {"interrupt", "reply"}
               /\ rows[j].state = "sending" =>
                    j \in Held \/ (recovery.at = "sending" /\ j \in ToSet(Head(recovery.replies)))
    BY <1>3, <2>1 DEF IInv, OrphanInv
  <2>2. \A g \in Handlers : handlers[g].at \in {"interrupt", "reply"} => handlers'[g] = handlers[g]
    BY <1>1, <1>4
  <2> QED  BY <1>1, <1>3, <1>8, <2>1, <2>2 DEF OrphanInv
<1>19. RowInv'
  BY <1>1, <1>2, <1>3, <1>7 DEF IInv, Accounts, RowInv
<1>20. (DiskTypes /\ HistoryTypes /\ FailureSticks)'
  BY <1>1, <1>3, <1>7 DEF IInv, Accounts, DiskTypes, HistoryTypes, FailureSticks
<1>21. (RunsInv /\ ToolInv /\ SendInv)'
  BY <1>1, <1>3 DEF IInv, Accounts, RunsInv, ToolInv, SendInv
<1>22. Accounts'
  BY <1>3, <1>7, <1>19, <1>20, <1>21 DEF Accounts, Distinct
<1> QED  BY <1>4, <1>9, <1>11, <1>12, <1>13, <1>14, <1>15, <1>16, <1>17, <1>18, <1>22 DEF IInv

-----------------------------------------------------------------------------
(***************************************************************************)
(* Commands.                                                               *)
(***************************************************************************)
\* A handler of a command moves on: it may take over the batches that wait, or let go of its own.
\* The rows of what was dropped are cancelled, and a receipt of the command may be new.
LEMMA CommandFrame ==
  ASSUME IInv, NEW h \in Handlers, handlers[h].at \in {"prepare", "interrupt"}, h[1] \notin Chats,
         handlers' \in [Handlers -> HandlerSet], HandlerInv',
         \A g \in Handlers : g # h => handlers'[g] = handlers[g],
         handlers'[h].at \in {"interrupt", "reply"},
         UNCHANGED <<gateway, posted, recovery, tool, ran>>,
         \/ UNCHANGED <<burst, queue>>
         \/ burst' = <<>> /\ queue' = <<>>,
         \/ handlers'[h].drops = {}
         \/ handlers'[h].drops = ToSet(Waiting) /\ handlers[h].drops = {} /\ burst' = <<>> /\ queue' = <<>>,
         NEW gone \in SUBSET Chats,
         gone = (Bursting \cup Queued \cup Dropping) \ (Bursting' \cup Queued' \cup Dropping'),
         \A i \in Inputs : i \notin gone /\ i # h[1] => rows'[i] = rows[i],
         \A i \in gone : rows'[i].state = "cancelled",
         h[1] \notin Held, rows'[h[1]].state \notin {"pending", "sending"},
         \A k \in DOMAIN recovery.replies : Head(recovery.replies[k]) # h[1],
         worker' \in WorkerSet, worker'.at = worker.at, worker'.batch = worker.batch, worker'.run = worker.run,
         worker'.gave = worker.gave, interrupting' \in BOOLEAN,
         worker.at \in {"preflight", "sending"} => UNCHANGED interrupting,
         \A i \in Inputs : rows'[i].reply = rows[i].reply,
         doomed' \subseteq Chats, \A i \in doomed' : i \in doomed \/ rows'[i].state = "cancelled" \/ i \in Dropping'
  PROVE  /\ MemoryTypes' /\ DownInv' /\ PlacesInv' /\ ApartInv' /\ WaitInv' /\ HandlerInv'
         /\ WorkerInv' /\ RecoveryInv' /\ DoomedInv' /\ OrphanInv'
<1>1. /\ UNCHANGED <<Recovering, Held>>
      /\ (UNCHANGED <<Bursting, Queued>>) \/ (Bursting' = {} /\ Queued' = {})
  <2>1. UNCHANGED <<Recovering, Held>>
    BY DEF Recovering, Held
  <2>2. CASE UNCHANGED <<burst, queue>>
    BY <2>1, <2>2 DEF Bursting, Queued
  <2>3. CASE burst' = <<>> /\ queue' = <<>>
    BY <2>1, <2>3 DEF Bursting, Queued, ToSet
  <2> QED  BY <2>2, <2>3
<1>2. handlers \in [Handlers -> HandlerSet]
  BY DEF IInv, MemoryTypes
<1>3. \/ Dropping' \subseteq Dropping /\ handlers'[h].drops = {}
      \/ /\ Dropping' = Dropping \cup Bursting \cup Queued /\ Bursting' = {} /\ Queued' = {}
         /\ handlers'[h].drops = ToSet(Waiting) /\ handlers[h].drops = {}
  <2>1. CASE handlers'[h].drops = {}
    <3>1. \A g \in Handlers : handlers'[g].drops \subseteq handlers[g].drops
      BY <2>1
    <3>2. Dropping' \subseteq Dropping
      BY <3>1 DEF Dropping
    <3> QED  BY <2>1, <3>2
  <2>2. CASE handlers'[h].drops = ToSet(Waiting) /\ handlers[h].drops = {} /\ burst' = <<>> /\ queue' = <<>>
    <3>1. UNION {ToSet(b) : b \in ToSet(Waiting)} = Bursting \cup Queued
      BY Waits DEF InputsOf
    <3>2. ASSUME NEW x PROVE x \in Dropping' <=> x \in Dropping \cup Bursting \cup Queued
      <4>1. x \in Dropping <=> \E g \in Handlers : x \in UNION {ToSet(b) : b \in handlers[g].drops}
        BY DEF Dropping
      <4>2. x \in Dropping' <=> \E g \in Handlers : x \in UNION {ToSet(b) : b \in handlers'[g].drops}
        BY DEF Dropping
      <4>3. x \notin UNION {ToSet(b) : b \in handlers[h].drops}
        BY <2>2
      <4>4. x \in UNION {ToSet(b) : b \in handlers'[h].drops} <=> x \in Bursting \cup Queued
        BY <2>2, <3>1
      <4>5. \A g \in Handlers : g # h =>
              (x \in UNION {ToSet(b) : b \in handlers'[g].drops} <=> x \in UNION {ToSet(b) : b \in handlers[g].drops})
        OBVIOUS
      <4> QED  BY <4>1, <4>2, <4>3, <4>4, <4>5
    <3>3. Bursting' = {} /\ Queued' = {}
      BY <2>2 DEF Bursting, Queued, ToSet
    <3>4. Dropping' = Dropping \cup Bursting \cup Queued
      BY <3>2
    <3> QED  BY <2>2, <3>3, <3>4
  <2> QED  BY <2>1, <2>2
<1>4. /\ Places' \subseteq Places /\ Held' = Held
      /\ Bursting \subseteq Chats /\ Queued \subseteq Chats /\ Recovering \subseteq Chats /\ Held \subseteq Chats
      /\ Dropping \subseteq Chats
  BY <1>1, <1>3, PlacesAreInputs DEF Places
<1>5. burst' \in Seq(Chats) /\ queue' \in Seq(Seq(Chats))
  <2>1. burst \in Seq(Chats) /\ queue \in Seq(Seq(Chats)) /\ <<>> \in Seq(Chats) /\ <<>> \in Seq(Seq(Chats))
    BY EmptySeq DEF IInv, MemoryTypes
  <2> QED  BY <2>1
<1>6. MemoryTypes'
  BY <1>5 DEF IInv, MemoryTypes
<1>7. gateway \notin {"down", "opening"} /\ DownInv'
  BY DEF IInv, DownInv, NoHandler
<1>8. PlacesInv'
  <2>1. (Distinct(recovery.inputs) /\ Distinct(worker.batch))'
    BY DEF IInv, PlacesInv, Distinct
  <2>2. /\ Distinct(burst)'
        /\ \A k \in DOMAIN queue' : queue'[k] # <<>> /\ Distinct(queue'[k])
        /\ \A k, l \in DOMAIN queue' : ToSet(queue'[k]) \cap ToSet(queue'[l]) # {} => k = l
    <3>1. CASE UNCHANGED <<burst, queue>>
      BY <3>1 DEF IInv, PlacesInv, Distinct
    <3>2. CASE burst' = <<>> /\ queue' = <<>>
      BY <3>2 DEF Distinct
    <3> QED  BY <3>1, <3>2
  <2>3. ASSUME NEW g \in Handlers, NEW f \in Handlers, NEW b \in handlers'[g].drops, NEW c \in handlers'[f].drops,
               ToSet(b) \cap ToSet(c) # {}
        PROVE  g = f /\ b = c
    <3>1. CASE handlers'[h].drops = {}
      BY <2>3, <3>1 DEF IInv, PlacesInv
    <3>2. CASE handlers'[h].drops = ToSet(Waiting) /\ handlers[h].drops = {}
      <4>1. \A q \in Handlers : q # h => \A d \in handlers'[q].drops : ToSet(d) \subseteq Dropping
        BY DEF Dropping
      <4>2. \A d \in ToSet(Waiting) : ToSet(d) \subseteq Bursting \cup Queued
        BY Waits DEF InputsOf
      <4>3. Dropping \cap (Bursting \cup Queued) = {}
        BY DEF IInv, ApartInv
      <4>4. CASE g = h /\ f = h
        BY <2>3, <3>2, <4>4, Waits DEF Separate
      <4>5. CASE g = h /\ f # h
        BY <2>3, <3>2, <4>1, <4>2, <4>3, <4>5
      <4>6. CASE g # h /\ f = h
        BY <2>3, <3>2, <4>1, <4>2, <4>3, <4>6
      <4>7. CASE g # h /\ f # h
        BY <2>3, <4>7 DEF IInv, PlacesInv
      <4> QED  BY <4>4, <4>5, <4>6, <4>7
    <3> QED  BY <1>3, <3>1, <3>2
  <2> QED  BY <2>1, <2>2, <2>3 DEF PlacesInv, Distinct
<1>9. ApartInv'
  BY <1>1, <1>3 DEF IInv, ApartInv
<1>10. WaitInv'
  <2>1. ASSUME NEW i \in Bursting' \cup Queued' \cup Recovering' \cup Dropping'
        PROVE  rows'[i].state = "pending"
    <3>1. i \in Bursting \cup Queued \cup Recovering \cup Dropping /\ i \in Chats
      BY <1>1, <1>3, <1>4
    <3>2. i \notin gone
      BY <1>1, <3>1 DEF IInv, ApartInv
    <3> QED  BY <3>1, <3>2 DEF IInv, WaitInv, Inputs
  <2> QED  BY <2>1 DEF WaitInv
<1>11. \A i \in Held : rows'[i] = rows[i]
  BY <1>4 DEF IInv, ApartInv, Inputs
<1>12. WorkerInv'
  <2>2. \A i \in Held' : HeldRow(rows[i])'
    BY <1>1, <1>11 DEF IInv, WorkerInv, HeldRow
  <2> QED  BY <1>1, <1>11, <2>2 DEF IInv, WorkerInv
<1>13. RecoveryInv'
  <2>1. ASSUME NEW k \in DOMAIN recovery.replies
        PROVE  rows'[Head(recovery.replies[k])] = rows[Head(recovery.replies[k])]
    <3>1. Head(recovery.replies[k]) \in Inputs /\ rows[Head(recovery.replies[k])].state # "pending"
      BY DEF IInv, RecoveryInv
    <3>2. Head(recovery.replies[k]) \notin gone
      BY <3>1 DEF IInv, WaitInv
    <3> QED  BY <3>1, <3>2
  <2> QED  BY <1>1, <2>1 DEF IInv, RecoveryInv, Distinct
<1>14. DoomedInv'
  <2>1. ASSUME NEW i \in doomed, rows'[i].state # "cancelled" PROVE i \in Dropping'
    <3>1. i \in Chats /\ i \in Inputs
      BY DEF IInv, Accounts, HistoryTypes, Inputs
    <3>2. i \notin gone /\ rows'[i] = rows[i]
      BY <2>1, <3>1
    <3>3. i \in Dropping
      BY <2>1, <3>2 DEF IInv, DoomedInv
    <3>4. i \notin Bursting' /\ i \notin Queued'
      BY <1>1, <3>3 DEF IInv, ApartInv
    <3> QED  BY <3>2, <3>3, <3>4
  <2> QED  BY <2>1 DEF DoomedInv
<1>15. OrphanInv'
  <2>1. ASSUME gateway = "up", NEW i \in Inputs, i # h[1], i \notin gone
        PROVE  /\ rows'[i] = rows[i]
               /\ rows[i].state = "pending" =>
                    \/ i \in Bursting \cup Queued \cup Recovering \cup Dropping
                    \/ worker.at = "prepare" /\ i \in Held
               /\ rows[i].state = "running" =>
                    \/ i \in Held
                    \/ \E g \in Handlers : g[1] = i /\ handlers[g].at \in {"interrupt", "reply"}
               /\ rows[i].state = "sending" =>
                    i \in Held \/ (recovery.at = "sending" /\ i \in ToSet(Head(recovery.replies)))
    BY <2>1 DEF IInv, OrphanInv
  <2>2. \A i \in Inputs : i \notin gone /\ i \in Bursting \cup Queued \cup Recovering \cup Dropping =>
          i \in Bursting' \cup Queued' \cup Recovering' \cup Dropping'
    BY <1>1
  <2>3. \A i \in Inputs : (\E g \in Handlers : g[1] = i /\ handlers[g].at \in {"interrupt", "reply"}) =>
          \E g \in Handlers : g[1] = i /\ handlers'[g].at \in {"interrupt", "reply"}
    OBVIOUS
  <2>4. h[1] \in Inputs
    BY DEF Handlers
  <2> QED  BY <1>1, <2>1, <2>2, <2>3, <2>4 DEF OrphanInv
<1> QED  BY <1>6, <1>7, <1>8, <1>9, <1>10, <1>12, <1>13, <1>14, <1>15

\* What the accounts need of a command's rows.
LEMMA CommandAccounts ==
  ASSUME IInv, NEW i \in Inputs, i \notin Chats, NEW gone \in SUBSET Chats,
         UNCHANGED <<outbound, context, tool, wire, landed, runs, ran, sends, spoke, reported>>,
         rows' \in [Inputs -> RowSet], Together(rows)', OneReply(rows)',
         \A j \in Inputs : rows'[j].reply = rows[j].reply,
         \A j \in Inputs : j \notin gone /\ j # i => rows'[j] = rows[j],
         \A j \in gone : rows'[j].state = "cancelled" /\ rows[j].state # "none" /\ rows[j].reply = 0,
         rows'[i].state \in {"none", "running", "uncertain", "done"},
         rows'[i].state = "none" => rows'[i].batch = <<>>,
         rows'[i].state # "none" => rows'[i].batch = <<i>>,
         rows'[i].state = "none" => ran[i] = 0,
         \/ UNCHANGED admitted /\ (rows[i].state # "none" <=> rows'[i].state # "none")
         \/ admitted' = Append(admitted, i) /\ rows[i].state = "none" /\ rows'[i].state # "none",
         doomed' \subseteq Chats, worker'.run = worker.run, worker'.at = worker.at
  PROVE  Accounts'
<1>1. admitted \in Seq(Inputs) /\ Distinct(admitted) /\ (rows[i].state = "none" => i \notin ToSet(admitted))
  BY DEF IInv, Accounts, DiskTypes, RowInv
<1>2. /\ admitted' \in Seq(Inputs) /\ Distinct(admitted')
      /\ \A j \in Inputs : j # i => (j \in ToSet(admitted') <=> j \in ToSet(admitted))
      /\ i \in ToSet(admitted') <=> rows'[i].state # "none"
  <2>1. CASE UNCHANGED admitted /\ (rows[i].state # "none" <=> rows'[i].state # "none")
    BY <1>1, <2>1 DEF IInv, Accounts, RowInv
  <2>2. CASE admitted' = Append(admitted, i) /\ rows[i].state = "none" /\ rows'[i].state # "none"
    <3>1. admitted' \in Seq(Inputs) /\ Distinct(admitted')
          /\ ToSet(admitted') = ToSet(admitted) \cup {i}
      BY <1>1, <2>2, Appended
    <3> QED  BY <2>2, <3>1
  <2> QED  BY <2>1, <2>2
<1>3. RowInv'
  <2>1. ASSUME NEW j \in Inputs, j # i, j \notin gone
        PROVE  /\ rows'[j].state = "none" => rows'[j].batch = <<>>
               /\ rows'[j].state \in {"none", "pending"} => ran'[j] = 0
               /\ rows'[j].state \in {"none", "pending", "running"} => rows'[j].reply = 0
               /\ rows'[j].state \in {"reply_pending", "sending"} => rows'[j].reply # 0
               /\ j \notin Chats => /\ rows'[j].state \in {"none", "running", "uncertain", "done"}
                                    /\ rows'[j].reply = 0
                                    /\ rows'[j].state # "none" => rows'[j].batch = <<j>>
               /\ rows'[j].state # "none" <=> j \in ToSet(admitted')
               /\ ran'[j] <= 1
    BY <1>2, <2>1 DEF IInv, Accounts, RowInv
  <2>2. ASSUME NEW j \in gone
        PROVE  /\ j \in Inputs /\ j # i /\ rows'[j].state = "cancelled" /\ j \in ToSet(admitted') /\ ran'[j] <= 1
    <3>1. j \in Inputs /\ j # i
      BY DEF Inputs
    <3> QED  BY <1>2, <3>1 DEF IInv, Accounts, RowInv
  <2>3. rows'[i].reply = 0 /\ ran'[i] <= 1
    BY DEF IInv, Accounts, RowInv
  <2>4. ASSUME NEW j \in Inputs
        PROVE  /\ rows'[j].state = "none" => rows'[j].batch = <<>>
               /\ rows'[j].state \in {"none", "pending"} => ran'[j] = 0
               /\ rows'[j].state \in {"none", "pending", "running"} => rows'[j].reply = 0
               /\ rows'[j].state \in {"reply_pending", "sending"} => rows'[j].reply # 0
               /\ j \notin Chats => /\ rows'[j].state \in {"none", "running", "uncertain", "done"}
                                    /\ rows'[j].reply = 0
                                    /\ rows'[j].state # "none" => rows'[j].batch = <<j>>
               /\ rows'[j].state # "none" <=> j \in ToSet(admitted')
               /\ ran'[j] <= 1
    <3>1. CASE j = i
      BY <1>2, <2>3, <3>1
    <3>2. CASE j \in gone
      BY <2>2, <3>2
    <3>3. CASE j # i /\ j \notin gone
      BY <2>1, <3>3
    <3> QED  BY <3>1, <3>2, <3>3
  <2> QED  BY <2>4 DEF RowInv
<1>4. (DiskTypes /\ HistoryTypes /\ FailureSticks)'
  BY <1>2 DEF IInv, Accounts, DiskTypes, HistoryTypes, FailureSticks
<1>5. (RunsInv /\ ToolInv)'
  BY DEF IInv, Accounts, RunsInv, ToolInv
<1>6. SendInv'
  <2>1. rows[i].reply = 0
    BY DEF IInv, Accounts, RowInv
  <2>2. ASSUME NEW j \in Inputs, rows'[j].reply # 0 PROVE rows'[j] = rows[j]
    BY <2>1, <2>2
  <2> QED  BY <2>2 DEF IInv, Accounts, SendInv
<1>7. Distinct(admitted)'
  BY <1>2 DEF Distinct
<1> QED  BY <1>3, <1>4, <1>5, <1>6, <1>7 DEF Accounts

\* The rows after a command that arrives: its receipt is new, and what it drops is cancelled.
LEMMA CommandRows ==
  ASSUME IInv, NEW i \in Inputs, i \notin Chats, rows[i].state = "none",
         NEW S \in {{}, ToSet(Waiting)}, rows' = Mark(Receipt(i, "running"), S, "cancelled", 0)
  PROVE  /\ rows' \in [Inputs -> RowSet] /\ Together(rows)' /\ OneReply(rows)'
         /\ \A j \in Inputs : rows'[j].reply = rows[j].reply
         /\ rows'[i] = [state |-> "running", batch |-> <<i>>, reply |-> 0]
         /\ \A j \in Inputs : j \notin InputsOf(S) /\ j # i => rows'[j] = rows[j]
         /\ \A j \in InputsOf(S) : rows'[j].state = "cancelled" /\ rows[j].state # "none" /\ rows[j].reply = 0
<1> DEFINE old == Receipt(i, "running")
<1>1. /\ old \in [Inputs -> RowSet] /\ old[i] = [state |-> "running", batch |-> <<i>>, reply |-> 0]
      /\ \A j \in Inputs : j # i => old[j] = rows[j]
      /\ Together(old) /\ OneReply(old)
      /\ \A j \in Inputs : old[j].reply = rows[j].reply
  BY NewReceipt
<1>2. rows' = Mark(old, S, "cancelled", 0)
  OBVIOUS
<1> HIDE DEF old
<1>3. S \subseteq Seq(Chats) /\ Separate(S) /\ InputsOf(S) \subseteq Bursting \cup Queued
  <2>1. CASE S = {}
    BY <2>1 DEF Separate, InputsOf
  <2>2. CASE S = ToSet(Waiting)
    BY <2>2, Waits
  <2> QED  BY <2>1, <2>2
<1>4. \A j \in InputsOf(S) : j \in Inputs /\ j # i /\ rows[j].state = "pending" /\ rows[j].reply = 0
  BY <1>3, PlacesAreInputs DEF IInv, WaitInv, Accounts, RowInv, Inputs
<1>5. \A j \in InputsOf(S) : j \in Inputs /\ old[j].state = "pending" /\ old[j].reply = 0
  BY <1>1, <1>4
<1>6. \A j \in Inputs : old[j].reply # 0 => old[j].state \notin {"none", "pending"}
  BY <1>1 DEF IInv, Accounts, RowInv
<1> DEFINE new == Mark(old, S, "cancelled", 0)
<1>7. /\ new \in [Inputs -> RowSet] /\ Together(new) /\ OneReply(new)
      /\ \A j \in Inputs : new[j].reply = old[j].reply
      /\ \A j \in Inputs : j \notin InputsOf(S) => new[j] = old[j]
      /\ \A j \in InputsOf(S) : new[j].state = "cancelled"
  BY <1>1, <1>3, <1>5, <1>6, DropMark
<1>8. rows' = new
  BY <1>2
<1> HIDE DEF new
<1>9. Together(rows)' /\ OneReply(rows)'
  BY <1>7, <1>8 DEF Together, OneReply
<1> QED  BY <1>1, <1>4, <1>7, <1>8, <1>9

\* What the handlers hold after one of them moved.
LEMMA DropsMove ==
  ASSUME IInv, NEW h \in Handlers, \A g \in Handlers : g # h => handlers'[g] = handlers[g]
  PROVE  Dropping' = (Dropping \ InputsOf(handlers[h].drops)) \cup InputsOf(handlers'[h].drops)
<1>1. ASSUME NEW x
      PROVE  x \in Dropping' <=> x \in (Dropping \ InputsOf(handlers[h].drops)) \cup InputsOf(handlers'[h].drops)
  <2>1. x \in Dropping <=> \E g \in Handlers : x \in InputsOf(handlers[g].drops)
    BY DEF Dropping, InputsOf
  <2>2. x \in Dropping' <=> \E g \in Handlers : x \in InputsOf(handlers'[g].drops)
    BY DEF Dropping, InputsOf
  <2>3. \A g \in Handlers : g # h => ~ (x \in InputsOf(handlers[g].drops) /\ x \in InputsOf(handlers[h].drops))
    BY DEF IInv, PlacesInv, InputsOf
  <2>4. \A g \in Handlers : g # h => (x \in InputsOf(handlers'[g].drops) <=> x \in InputsOf(handlers[g].drops))
    OBVIOUS
  <2> QED  BY <2>1, <2>2, <2>3, <2>4
<1> QED  BY <1>1

LEMMA Moved ==
  ASSUME NEW record \in HandlerSet, NEW place
  PROVE  [record EXCEPT !.at = place] = [at |-> place, drops |-> record.drops]
BY DEF HandlerSet

LEMMA CommandArrives ==
  ASSUME IInv, NEW h \in Handlers, handlers[h].at = "prepare", h[1] \notin Chats, rows[h[1]].state = "none",
         NEW S \in {{}, ToSet(Waiting)}, rows' = Mark(Receipt(h[1], "running"), S, "cancelled", 0),
         admitted' = Append(admitted, h[1]), interrupting' = (interrupting \/ Current),
         UNCHANGED <<outbound, context, gateway, posted, recovery, tool, wire, landed, runs, ran,
                     sends, spoke,
                     reported>>,
         NEW d, handlers' = [handlers EXCEPT ![h] = d],
         \/ /\ S = {} /\ d = [at |-> "interrupt", drops |-> ToSet(Waiting)] /\ h[1] \in Stops
            /\ burst' = <<>> /\ queue' = <<>>
         \/ /\ S = {} /\ d = [at |-> "interrupt", drops |-> {}]
            /\ UNCHANGED <<burst, queue, doomed>>
         \/ S = ToSet(Waiting) /\ d = [at |-> "reply", drops |-> {}] /\ burst' = <<>> /\ queue' = <<>>,
         doomed' \in {doomed, doomed \cup InputsOf(ToSet(Waiting))},
         worker' \in WorkerSet, worker'.at = worker.at, worker'.batch = worker.batch, worker'.run = worker.run,
         worker'.gave = worker.gave
  PROVE  IInv'
<1> DEFINE i == h[1]
           gone == InputsOf(S)
<1>1. /\ i \in Inputs /\ i \notin Chats /\ rows[i].state = "none"
      /\ rows' = Mark(Receipt(i, "running"), S, "cancelled", 0)
  BY DEF Handlers
<1>2. /\ i \notin Held /\ ran[i] = 0 /\ i \notin ToSet(admitted)
      /\ \A k \in DOMAIN recovery.replies : Head(recovery.replies[k]) # i
  BY <1>1, Unseen DEF Places
<1>3. /\ rows' \in [Inputs -> RowSet] /\ Together(rows)' /\ OneReply(rows)'
      /\ \A j \in Inputs : rows'[j].reply = rows[j].reply
      /\ rows'[i] = [state |-> "running", batch |-> <<i>>, reply |-> 0]
      /\ \A j \in Inputs : j \notin gone /\ j # i => rows'[j] = rows[j]
      /\ \A j \in gone : rows'[j].state = "cancelled" /\ rows[j].state # "none" /\ rows[j].reply = 0
  BY <1>1, CommandRows
<1>4. /\ handlers \in [Handlers -> HandlerSet] /\ handlers[h].drops = {} /\ handlers'[h] = d
      /\ \A g \in Handlers : g # h => handlers'[g] = handlers[g]
      /\ ToSet(Waiting) \subseteq Seq(Chats) /\ InputsOf(ToSet(Waiting)) = Bursting \cup Queued
      /\ Bursting \subseteq Chats /\ Queued \subseteq Chats
      /\ InputsOf({}) = {}
  BY Waits, PlacesAreInputs DEF IInv, MemoryTypes, HandlerInv, InputsOf
<1>5. /\ d \in HandlerSet /\ d.at \in {"interrupt", "reply"} /\ (d.drops # {} => d.at = "interrupt" /\ i \in Stops)
      /\ d.drops = {} \/ (d.drops = ToSet(Waiting) /\ burst' = <<>> /\ queue' = <<>>)
  BY <1>4 DEF HandlerSet
<1>6. handlers' \in [Handlers -> HandlerSet]
  BY <1>4, <1>5
<1>7. HandlerInv'
  <2>1. ASSUME NEW g \in Handlers
        PROVE  /\ handlers'[g].at # "absent" => g[2] <= posted'[g[1]]
               /\ handlers'[g].drops # {} => handlers'[g].at = "interrupt" /\ g[1] \in Stops
               /\ handlers'[g].at \in {"interrupt", "reply"} => g[1] \notin Chats
    <3>1. CASE g = h
      BY <1>4, <1>5, <3>1 DEF IInv, HandlerInv
    <3>2. CASE g # h
      BY <1>4, <3>2 DEF IInv, HandlerInv
    <3> QED  BY <3>1, <3>2
  <2> QED  BY <2>1 DEF HandlerInv
<1>8. Dropping' = Dropping \cup InputsOf(d.drops)
  BY <1>4, DropsMove
<1>9. burst' = <<>> /\ queue' = <<>> => Bursting' = {} /\ Queued' = {}
  BY DEF Bursting, Queued, ToSet
<1>10. UNCHANGED <<burst, queue>> => UNCHANGED <<Bursting, Queued>>
  BY DEF Bursting, Queued
<1>11. /\ gone \in SUBSET Chats
       /\ gone = (Bursting \cup Queued \cup Dropping) \ (Bursting' \cup Queued' \cup Dropping')
       /\ Bursting \cup Queued \subseteq Bursting' \cup Queued' \cup Dropping' \cup gone
  <2>1. CASE S = {} /\ d = [at |-> "interrupt", drops |-> ToSet(Waiting)] /\ burst' = <<>> /\ queue' = <<>>
    BY <1>4, <1>8, <1>9, <2>1
  <2>2. CASE S = {} /\ d = [at |-> "interrupt", drops |-> {}] /\ UNCHANGED <<burst, queue>>
    BY <1>4, <1>8, <1>10, <2>2
  <2>3. CASE S = ToSet(Waiting) /\ d = [at |-> "reply", drops |-> {}] /\ burst' = <<>> /\ queue' = <<>>
    <3>1. Dropping' = Dropping /\ gone = Bursting \cup Queued
      BY <1>4, <1>8, <2>3
    <3>2. Dropping \cap (Bursting \cup Queued) = {}
      BY DEF IInv, ApartInv
    <3> QED  BY <1>4, <1>9, <2>3, <3>1, <3>2
  <2> QED  BY <2>1, <2>2, <2>3
<1>12. /\ doomed' \subseteq Chats
       /\ \A j \in doomed' : j \in doomed \/ rows'[j].state = "cancelled" \/ j \in Dropping'
  <2>1. CASE doomed' = doomed
    BY <2>1 DEF IInv, Accounts, HistoryTypes
  <2>2. CASE doomed' = doomed \cup InputsOf(ToSet(Waiting)) /\ burst' = <<>> /\ queue' = <<>>
    <3>1. doomed \subseteq Chats
      BY DEF IInv, Accounts, HistoryTypes
    <3>2. \A j \in Bursting \cup Queued : j \in Dropping' \cup gone
      BY <1>9, <1>11, <2>2
    <3> QED  BY <1>3, <1>4, <2>2, <3>1, <3>2
  <2> QED  BY <2>1, <2>2
<1>13. interrupting' \in BOOLEAN /\ (worker.at \in {"preflight", "sending"} => UNCHANGED interrupting)
  BY DEF IInv, MemoryTypes, Current
<1>14. Accounts'
  <2>1. /\ admitted' = Append(admitted, i) /\ rows'[i].state # "none" /\ rows'[i].batch = <<i>>
        /\ rows'[i].state \in {"none", "running", "uncertain", "done"}
    BY <1>3
  <2>2. UNCHANGED <<outbound, context, tool, wire, landed, runs, ran, sends, spoke, reported>>
    OBVIOUS
  <2>3. /\ rows'[i].state = "none" => rows'[i].batch = <<>>
        /\ rows'[i].state # "none" => rows'[i].batch = <<i>>
        /\ rows'[i].state = "none" => ran[i] = 0
        /\ admitted' = Append(admitted, i) /\ rows[i].state = "none" /\ rows'[i].state # "none"
    BY <1>1, <2>1
  <2> HIDE DEF i, gone
  <2>4. /\ i \in Inputs /\ i \notin Chats /\ gone \in SUBSET Chats
        /\ rows' \in [Inputs -> RowSet] /\ Together(rows)' /\ OneReply(rows)'
        /\ \A j \in Inputs : rows'[j].reply = rows[j].reply
        /\ \A j \in Inputs : j \notin gone /\ j # i => rows'[j] = rows[j]
        /\ \A j \in gone : rows'[j].state = "cancelled" /\ rows[j].state # "none" /\ rows[j].reply = 0
        /\ rows'[i].state \in {"none", "running", "uncertain", "done"}
        /\ doomed' \subseteq Chats /\ worker'.run = worker.run /\ worker'.at = worker.at
    BY <1>1, <1>3, <1>11, <1>12, <2>1
  <2> QED  BY <2>2, <2>3, <2>4, CommandAccounts
<1>15. rows'[h[1]].state \notin {"pending", "sending"}
  BY <1>3
<1> HIDE DEF gone
<1>16. /\ MemoryTypes' /\ DownInv' /\ PlacesInv' /\ ApartInv' /\ WaitInv' /\ HandlerInv'
       /\ WorkerInv' /\ RecoveryInv' /\ DoomedInv' /\ OrphanInv'
  <2>1. handlers'[h].at \in {"interrupt", "reply"}
    BY <1>4, <1>5
  <2>2. \/ UNCHANGED <<burst, queue>>
        \/ burst' = <<>> /\ queue' = <<>>
    OBVIOUS
  <2>3. \/ handlers'[h].drops = {}
        \/ handlers'[h].drops = ToSet(Waiting) /\ handlers[h].drops = {} /\ burst' = <<>> /\ queue' = <<>>
    BY <1>4, <1>5
  <2>4. UNCHANGED <<gateway, posted, recovery, tool, ran>>
    OBVIOUS
  <2>5. /\ \A j \in Inputs : j \notin gone /\ j # h[1] => rows'[j] = rows[j]
        /\ \A j \in gone : rows'[j].state = "cancelled"
        /\ \A j \in Inputs : rows'[j].reply = rows[j].reply
        /\ h[1] \notin Held /\ \A k \in DOMAIN recovery.replies : Head(recovery.replies[k]) # h[1]
    BY <1>2, <1>3
  <2>6. /\ gone \in SUBSET Chats
        /\ gone = (Bursting \cup Queued \cup Dropping) \ (Bursting' \cup Queued' \cup Dropping')
        /\ handlers' \in [Handlers -> HandlerSet] /\ HandlerInv'
        /\ \A g \in Handlers : g # h => handlers'[g] = handlers[g]
        /\ doomed' \subseteq Chats
        /\ \A j \in doomed' : j \in doomed \/ rows'[j].state = "cancelled" \/ j \in Dropping'
        /\ handlers[h].at \in {"prepare", "interrupt"} /\ h[1] \notin Chats
    BY <1>4, <1>6, <1>7, <1>11, <1>12
  <2>7. /\ worker' \in WorkerSet /\ worker'.at = worker.at /\ worker'.batch = worker.batch
        /\ worker'.run = worker.run /\ worker'.gave = worker.gave
    OBVIOUS
  <2> HIDE DEF i
  <2> QED  BY <1>13, <1>15, <2>1, <2>2, <2>3, <2>4, <2>5, <2>6, <2>7, CommandFrame
<1> QED  BY <1>14, <1>16 DEF IInv

\* A receipt alone is a mark of no batch.
LEMMA NoMark ==
  ASSUME IInv, NEW i \in Inputs, NEW state
  PROVE  Receipt(i, state) = Mark(Receipt(i, state), {}, "cancelled", 0)
<1>1. rows \in [Inputs -> RowSet]
  BY DEF IInv, Accounts, DiskTypes
<1>2. Receipt(i, state) = [j \in Inputs |-> Receipt(i, state)[j]]
  BY <1>1 DEF Receipt
<1>3. \A j \in Inputs : ~ \E b \in {} : j \in ToSet(b)
  OBVIOUS
<1> QED  BY <1>2, <1>3 DEF Mark

LEMMA StopArrivesStep == ASSUME IInv, NEW h \in Handlers, StopArrives(h) PROVE IInv'
<1>1. /\ handlers[h].at = "prepare" /\ h[1] \in Stops /\ h[1] \in Inputs /\ h[1] \notin Chats
      /\ rows[h[1]].state = "none" /\ admitted' = Append(admitted, h[1])
      /\ burst' = <<>> /\ queue' = <<>> /\ interrupting' = (interrupting \/ Current)
      /\ doomed' = doomed \cup InputsOf(ToSet(Waiting))
      /\ UNCHANGED <<outbound, context, gateway, posted, worker, recovery, tool, wire, landed,
                     runs, ran, sends,
                     spoke, reported>>
  BY ThreadedAssumption DEF StopArrives, server, Inputs
<1>2. /\ worker' \in WorkerSet /\ worker'.at = worker.at /\ worker'.batch = worker.batch /\ worker'.run = worker.run
      /\ worker'.gave = worker.gave
  BY <1>1 DEF IInv, MemoryTypes
<1>3. handlers \in [Handlers -> HandlerSet] /\ handlers[h].drops = {}
  BY <1>1 DEF IInv, MemoryTypes, HandlerInv
<1>4. CASE TurnActive
  <2> DEFINE d == [at |-> "interrupt", drops |-> ToSet(Waiting)]
  <2>1. rows' = Mark(Receipt(h[1], "running"), {}, "cancelled", 0)
        /\ handlers' = [handlers EXCEPT ![h] = d]
    BY <1>1, <1>4, NoMark DEF StopArrives
  <2> QED  BY <1>1, <1>2, <2>1, CommandArrives
<1>5. CASE ~ TurnActive
  <2> DEFINE d == [at |-> "reply", drops |-> {}]
  <2>1. rows' = Mark(Receipt(h[1], "running"), ToSet(Waiting), "cancelled", 0)
        /\ handlers' = [handlers EXCEPT ![h].at = "reply"]
    BY <1>5 DEF StopArrives
  <2>2. handlers' = [handlers EXCEPT ![h] = d]
    <3> DEFINE old == handlers[h]
    <3>1. [old EXCEPT !.at = "reply"] = [at |-> "reply", drops |-> old.drops]
      <4>1. old \in HandlerSet
        BY <1>3
      <4> HIDE DEF old
      <4> QED  BY <4>1, Moved
    <3> QED  BY <1>3, <2>1, <3>1
  <2> QED  BY <1>1, <1>2, <2>1, <2>2, CommandArrives
<1> QED  BY <1>4, <1>5

LEMMA ClearArrivesStep == ASSUME IInv, NEW h \in Handlers, ClearArrives(h) PROVE IInv'
<1>1. /\ handlers[h].at = "prepare" /\ h[1] \in Inputs /\ h[1] \notin Chats
      /\ rows[h[1]].state = "none" /\ admitted' = Append(admitted, h[1])
      /\ interrupting' = (interrupting \/ Current) /\ UNCHANGED doomed
      /\ UNCHANGED <<outbound, context, gateway, posted, recovery, tool, wire, landed, runs, ran,
                     sends,
                     spoke, reported>>
  BY ThreadedAssumption DEF ClearArrives, server, Inputs
<1>2. handlers \in [Handlers -> HandlerSet] /\ handlers[h].drops = {} /\ worker \in WorkerSet
  BY <1>1 DEF IInv, MemoryTypes, HandlerInv
<1>3. /\ worker' \in WorkerSet /\ worker'.at = worker.at /\ worker'.batch = worker.batch /\ worker'.run = worker.run
      /\ worker'.gave = worker.gave
  <2>1. CASE TurnActive
    BY <1>2, <2>1 DEF ClearArrives
  <2>2. CASE ~ TurnActive
    BY <1>2, <2>2 DEF ClearArrives, WorkerSet
  <2> QED  BY <2>1, <2>2
<1>4. CASE TurnActive
  <2> DEFINE d == [at |-> "interrupt", drops |-> {}]
  <2>1. /\ rows' = Mark(Receipt(h[1], "running"), {}, "cancelled", 0) /\ UNCHANGED <<burst, queue>>
        /\ handlers' = [handlers EXCEPT ![h].at = "interrupt"]
    BY <1>1, <1>4, NoMark DEF ClearArrives
  <2>2. handlers' = [handlers EXCEPT ![h] = d]
    <3> DEFINE old == handlers[h]
    <3>1. [old EXCEPT !.at = "interrupt"] = [at |-> "interrupt", drops |-> old.drops]
      <4>1. old \in HandlerSet
        BY <1>2
      <4> HIDE DEF old
      <4> QED  BY <4>1, Moved
    <3> QED  BY <1>2, <2>1, <3>1
  <2> QED  BY <1>1, <1>3, <2>1, <2>2, CommandArrives
<1>5. CASE ~ TurnActive
  <2> DEFINE d == [at |-> "reply", drops |-> {}]
  <2>1. /\ rows' = Mark(Receipt(h[1], "running"), ToSet(Waiting), "cancelled", 0) /\ burst' = <<>> /\ queue' = <<>>
        /\ handlers' = [handlers EXCEPT ![h].at = "reply"]
    BY <1>5 DEF ClearArrives
  <2>2. handlers' = [handlers EXCEPT ![h] = d]
    <3> DEFINE old == handlers[h]
    <3>1. [old EXCEPT !.at = "reply"] = [at |-> "reply", drops |-> old.drops]
      <4>1. old \in HandlerSet
        BY <1>2
      <4> HIDE DEF old
      <4> QED  BY <4>1, Moved
    <3> QED  BY <1>2, <2>1, <3>1
  <2> QED  BY <1>1, <1>3, <2>1, <2>2, CommandArrives
<1> QED  BY <1>4, <1>5

\* A command's own receipt is not that of a message.
LEMMA CommandReceipt ==
  ASSUME IInv, NEW i \in Inputs, i \notin Chats
  PROVE  /\ i \notin Places /\ rows[i].state \in {"none", "running", "uncertain", "done"} /\ rows[i].reply = 0
         /\ (rows[i].state = "none" => rows[i].batch = <<>> /\ ran[i] = 0)
         /\ (rows[i].state # "none" => rows[i].batch = <<i>>)
         /\ \A k \in DOMAIN recovery.replies : Head(recovery.replies[k]) # i
<1>1. i \notin Places
  BY PlacesAreInputs DEF Places
<1>2. /\ rows[i].state \in {"none", "running", "uncertain", "done"} /\ rows[i].reply = 0
      /\ (rows[i].state = "none" => rows[i].batch = <<>> /\ ran[i] = 0)
      /\ (rows[i].state # "none" => rows[i].batch = <<i>>)
  BY DEF IInv, Accounts, RowInv
<1>3. \A k \in DOMAIN recovery.replies : Head(recovery.replies[k]) # i
  BY <1>2 DEF IInv, RecoveryInv
<1> QED  BY <1>1, <1>2, <1>3

LEMMA CommandGoesOnStep == ASSUME IInv, NEW h \in Handlers, CommandGoesOn(h) PROVE IInv'
<1> DEFINE i == h[1]
           S == Dropped(h)
           gone == InputsOf(S)
<1>1. /\ handlers[h].at = "interrupt" /\ i \in Inputs /\ rows' = Mark(rows, S, "cancelled", 0)
      /\ handlers' = [handlers EXCEPT ![h] = [at |-> "reply", drops |-> {}]]
      /\ UNCHANGED <<admitted, outbound, context, gateway, posted, interrupting, recovery, tool,
                     wire, landed, runs,
                     ran, sends, spoke, doomed, reported>>
  BY DEF CommandGoesOn, server, history, Handlers
<1>2. /\ handlers \in [Handlers -> HandlerSet] /\ i \notin Chats /\ (i \notin Stops => handlers[h].drops = {})
      /\ rows \in [Inputs -> RowSet] /\ Together(rows) /\ OneReply(rows) /\ worker \in WorkerSet
      /\ \A j \in Inputs : rows[j].reply # 0 => rows[j].state \notin {"none", "pending"}
      /\ h[2] <= posted[i]
  BY <1>1, HeldFacts DEF IInv, MemoryTypes, HandlerInv, Accounts
<1>3. /\ i \notin Places /\ rows[i].state \in {"none", "running", "uncertain", "done"} /\ rows[i].reply = 0
      /\ (rows[i].state = "none" => rows[i].batch = <<>> /\ ran[i] = 0)
      /\ (rows[i].state # "none" => rows[i].batch = <<i>>)
      /\ \A k \in DOMAIN recovery.replies : Head(recovery.replies[k]) # i
  BY <1>1, <1>2, CommandReceipt
<1>4. /\ handlers'[h] = [at |-> "reply", drops |-> {}]
      /\ \A g \in Handlers : g # h => handlers'[g] = handlers[g]
  BY <1>1, <1>2
<1>5. handlers' \in [Handlers -> HandlerSet] /\ HandlerInv'
  <2>1. [at |-> "reply", drops |-> {}] \in HandlerSet
    BY DEF HandlerSet
  <2>2. handlers' \in [Handlers -> HandlerSet]
    BY <1>1, <1>2, <2>1
  <2>3. ASSUME NEW g \in Handlers
        PROVE  /\ handlers'[g].at # "absent" => g[2] <= posted'[g[1]]
               /\ handlers'[g].drops # {} => handlers'[g].at = "interrupt" /\ g[1] \in Stops
               /\ handlers'[g].at \in {"interrupt", "reply"} => g[1] \notin Chats
    <3>1. CASE g = h
      BY <1>1, <1>2, <1>4, <3>1
    <3>2. CASE g # h
      BY <1>1, <1>4, <3>2 DEF IInv, HandlerInv
    <3> QED  BY <3>1, <3>2
  <2> QED  BY <2>2, <2>3 DEF HandlerInv
<1>6. Dropping' = Dropping \ InputsOf(handlers[h].drops) /\ InputsOf({}) = {}
  <2>1. InputsOf({}) = {} /\ InputsOf(handlers'[h].drops) = {}
    BY <1>4 DEF InputsOf
  <2> QED  BY <1>4, <2>1, DropsMove
<1>7. InputsOf(handlers[h].drops) \subseteq Dropping
  BY DEF InputsOf, Dropping
<1>8. /\ S \subseteq Seq(Chats) /\ Separate(S) /\ gone \subseteq Bursting \cup Queued \cup Dropping
      /\ gone \in SUBSET Chats
      /\ gone = (Bursting \cup Queued \cup Dropping) \ (Bursting' \cup Queued' \cup Dropping')
      /\ \/ UNCHANGED <<burst, queue>>
         \/ burst' = <<>> /\ queue' = <<>>
  <2>1. Bursting \subseteq Chats /\ Queued \subseteq Chats /\ Dropping \subseteq Chats
    BY PlacesAreInputs
  <2>2. Dropping \cap (Bursting \cup Queued) = {}
    BY DEF IInv, ApartInv
  <2>3. CASE i \in Stops
    <3>1. S = handlers[h].drops /\ UNCHANGED <<burst, queue>>
      BY <1>1, <2>3 DEF Dropped, CommandGoesOn
    <3>2. S \subseteq Seq(Chats)
      BY <1>2, <3>1 DEF HandlerSet
    <3>3. Separate(S)
      BY <3>1 DEF IInv, PlacesInv, Separate
    <3>4. UNCHANGED <<Bursting, Queued>>
      BY <3>1 DEF Bursting, Queued
    <3>5. gone = InputsOf(handlers[h].drops)
      BY <3>1
    <3> HIDE DEF S, gone
    <3>6. gone = (Bursting \cup Queued \cup Dropping) \ (Bursting' \cup Queued' \cup Dropping')
      BY <1>6, <1>7, <2>2, <3>4, <3>5
    <3> QED  BY <1>7, <2>1, <3>1, <3>2, <3>3, <3>5, <3>6
  <2>4. CASE i \notin Stops
    <3>1. S = ToSet(Waiting) /\ burst' = <<>> /\ queue' = <<>> /\ handlers[h].drops = {}
      BY <1>1, <1>2, <2>4 DEF Dropped, CommandGoesOn
    <3>2. S \subseteq Seq(Chats) /\ Separate(S) /\ gone = Bursting \cup Queued
      BY <3>1, Waits
    <3>3. Bursting' = {} /\ Queued' = {}
      BY <3>1 DEF Bursting, Queued, ToSet
    <3> HIDE DEF S, gone
    <3>4. Dropping' = Dropping
      BY <1>6, <3>1
    <3> QED  BY <2>1, <2>2, <3>1, <3>2, <3>3, <3>4
  <2> QED  BY <2>3, <2>4
<1>9. \A j \in gone : j \in Inputs /\ rows[j].state = "pending" /\ rows[j].reply = 0
  BY <1>8 DEF IInv, WaitInv, Accounts, RowInv, Inputs
<1>10. worker' \in WorkerSet /\ worker'.at = worker.at /\ worker'.batch = worker.batch
       /\ worker'.run = worker.run
       /\ worker'.gave = worker.gave
  <2>1. CASE i \in Stops
    BY <1>2, <2>1 DEF CommandGoesOn
  <2>2. CASE i \notin Stops
    <3>1. worker.dead \in BOOLEAN
      BY <1>2 DEF WorkerSet
    <3>2. PICK dead \in BOOLEAN : worker' = [worker EXCEPT !.dead = dead]
      BY <2>2, <3>1 DEF CommandGoesOn
    <3> QED  BY <1>2, <3>2 DEF WorkerSet
  <2> QED  BY <2>1, <2>2
<1> HIDE DEF S
<1>11. /\ rows' \in [Inputs -> RowSet] /\ Together(rows)' /\ OneReply(rows)'
       /\ \A j \in Inputs : rows'[j].reply = rows[j].reply
       /\ \A j \in Inputs : j \notin gone => rows'[j] = rows[j]
       /\ \A j \in gone : rows'[j].state = "cancelled"
  <2> DEFINE new == Mark(rows, S, "cancelled", 0)
  <2>1. /\ new \in [Inputs -> RowSet] /\ Together(new) /\ OneReply(new)
        /\ \A j \in Inputs : new[j].reply = rows[j].reply
        /\ \A j \in Inputs : j \notin gone => new[j] = rows[j]
        /\ \A j \in gone : new[j].state = "cancelled"
    BY <1>2, <1>8, <1>9, DropMark
  <2>2. rows' = new
    BY <1>1
  <2> HIDE DEF new, gone
  <2>3. Together(rows)' /\ OneReply(rows)'
    BY <2>1, <2>2 DEF Together, OneReply
  <2> QED  BY <2>1, <2>2, <2>3
<1> HIDE DEF gone
<1>12. rows'[i] = rows[i] /\ i \notin Held
  <2>1. i \notin gone /\ i \notin Held
    BY <1>3, <1>8 DEF Places
  <2> QED  BY <1>1, <1>11, <2>1
<1>13. doomed' \subseteq Chats /\ \A j \in doomed' : j \in doomed \/ rows'[j].state = "cancelled" \/ j \in Dropping'
  BY <1>1 DEF IInv, Accounts, HistoryTypes
<1>14. Accounts'
  <2>1. /\ rows'[i].state \in {"none", "running", "uncertain", "done"}
        /\ rows'[i].state = "none" => rows'[i].batch = <<>>
        /\ rows'[i].state # "none" => rows'[i].batch = <<i>>
        /\ rows'[i].state = "none" => ran[i] = 0
        /\ UNCHANGED admitted /\ (rows[i].state # "none" <=> rows'[i].state # "none")
    BY <1>1, <1>3, <1>12
  <2>2. UNCHANGED <<outbound, context, tool, wire, landed, runs, ran, sends, spoke, reported>>
    BY <1>1
  <2>3. /\ i \in Inputs /\ i \notin Chats /\ gone \in SUBSET Chats
        /\ rows' \in [Inputs -> RowSet] /\ Together(rows)' /\ OneReply(rows)'
        /\ \A j \in Inputs : rows'[j].reply = rows[j].reply
        /\ \A j \in Inputs : j \notin gone /\ j # i => rows'[j] = rows[j]
        /\ \A j \in gone : rows'[j].state = "cancelled" /\ rows[j].state # "none" /\ rows[j].reply = 0
        /\ doomed' \subseteq Chats /\ worker'.run = worker.run /\ worker'.at = worker.at
    BY <1>1, <1>2, <1>8, <1>9, <1>10, <1>11, <1>13
  <2> HIDE DEF i
  <2> QED  BY <2>1, <2>2, <2>3, CommandAccounts
<1>15. /\ MemoryTypes' /\ DownInv' /\ PlacesInv' /\ ApartInv' /\ WaitInv' /\ HandlerInv'
       /\ WorkerInv' /\ RecoveryInv' /\ DoomedInv' /\ OrphanInv'
  <2>1. /\ handlers'[h].at \in {"interrupt", "reply"} /\ handlers'[h].drops = {}
        /\ handlers[h].at \in {"prepare", "interrupt"}
    BY <1>1, <1>4
  <2>2. UNCHANGED <<gateway, posted, recovery, tool, ran>>
    BY <1>1
  <2>3. /\ \A j \in Inputs : j \notin gone /\ j # h[1] => rows'[j] = rows[j]
        /\ \A j \in gone : rows'[j].state = "cancelled"
        /\ \A j \in Inputs : rows'[j].reply = rows[j].reply
        /\ h[1] \notin Held /\ \A k \in DOMAIN recovery.replies : Head(recovery.replies[k]) # h[1]
        /\ rows'[h[1]].state \notin {"pending", "sending"} /\ h[1] \notin Chats
    BY <1>2, <1>3, <1>11, <1>12
  <2>4. interrupting' \in BOOLEAN /\ (worker.at \in {"preflight", "sending"} => UNCHANGED interrupting)
    BY <1>1 DEF IInv, MemoryTypes
  <2> HIDE DEF i
  <2> QED  BY <1>4, <1>5, <1>8, <1>10, <1>13, <2>1, <2>2, <2>3, <2>4, CommandFrame
<1> QED  BY <1>14, <1>15 DEF IInv

LEMMA CommandEndsStep == ASSUME IInv, NEW h \in Handlers, CommandEnds(h) PROVE IInv'
<1> DEFINE i == h[1]
<1>1. /\ handlers[h].at = "reply" /\ i \in Inputs /\ handlers' = [handlers EXCEPT ![h] = NoHandler]
      /\ Settle(<<i>>, "done") \/ Settle(<<i>>, "uncertain")
      /\ UNCHANGED <<admitted, outbound, context, gateway, burst, queue, worker, interrupting,
                     recovery, tool, posted,
                     wire, landed, runs, ran, sends, spoke, doomed, reported>>
  BY DEF CommandEnds, Answered, Refused, Handlers
<1>2. i \notin Chats
  BY <1>1 DEF IInv, HandlerInv
<1>3. /\ i \notin Places /\ rows[i].state \in {"none", "running", "uncertain", "done"} /\ rows[i].reply = 0
      /\ (rows[i].state = "none" => rows[i].batch = <<>> /\ ran[i] = 0)
      /\ (rows[i].state # "none" => rows[i].batch = <<i>>)
      /\ \A k \in DOMAIN recovery.replies : Head(recovery.replies[k]) # i
  BY <1>1, <1>2, CommandReceipt
<1>4. /\ handlers' \in [Handlers -> HandlerSet] /\ DropsStay /\ HandlerInv'
      /\ \A g \in Handlers : g # h => handlers'[g] = handlers[g]
  BY <1>1, Returns
<1>5. <<i>> \in Seq(Inputs) /\ ToSet(<<i>>) = {i}
  BY <1>1 DEF ToSet
<1>6. /\ rows \in [Inputs -> RowSet] /\ Together(rows) /\ OneReply(rows)
  BY DEF IInv, Accounts, DiskTypes
<1>7. /\ rows' \in [Inputs -> RowSet] /\ Together(rows)' /\ OneReply(rows)'
      /\ \A j \in Inputs : j # i => rows'[j] = rows[j]
      /\ rows'[i].state \in {"none", "done", "uncertain"} /\ rows'[i].reply = 0
      /\ (rows[i].state # "none" <=> rows'[i].state # "none")
      /\ (rows'[i].state = "none" => rows'[i].batch = <<>>)
      /\ (rows'[i].state # "none" => rows'[i].batch = <<i>>)
  <2>1. CASE rows[i].state = "none"
    <3>1. rows' = Mark(rows, {<<i>>}, "done", 0) \/ rows' = Mark(rows, {<<i>>}, "uncertain", 0)
      BY <1>1 DEF Settle
    <3>2. \A j \in Inputs : (\E b \in {<<i>>} : j \in ToSet(b)) => j = i
      BY <1>5
    <3> DEFINE S == {<<i>>}
    <3> HIDE DEF S
    <3>3. \A state \in {"done", "uncertain"} : Mark(rows, S, state, 0) = rows
      <4>1. ASSUME NEW j \in Inputs
            PROVE  ~ (rows[j].state \notin Terminal \cup {"none"} /\ \E b \in S : j \in ToSet(b))
        BY <2>1, <3>2 DEF S
      <4> QED  BY <1>6, <4>1 DEF Mark
    <3>4. rows' = rows
      BY <3>1, <3>3 DEF S
    <3>5. Together(rows)' /\ OneReply(rows)'
      BY <1>6, <3>4 DEF Together, OneReply
    <3> QED  BY <1>3, <1>6, <2>1, <3>4, <3>5
  <2>2. CASE rows[i].state # "none"
    <3>1. Alike(rows, <<i>>)
      BY <1>1, <1>3, <1>5, <2>2 DEF Alike
    <3>2. PICK state \in {"done", "uncertain"} : Settle(<<i>>, state)
      BY <1>1
    <3>3. state \in States \ {"none", "pending"}
      BY DEF States, Terminal
    <3> DEFINE b == <<i>>
    <3> HIDE DEF b
    <3>4. b \in Seq(Inputs) /\ Alike(rows, b) /\ Settle(b, state) /\ ToSet(b) = {i}
      BY <1>5, <3>1, <3>2 DEF b
    <3>5. /\ rows' \in [Inputs -> RowSet] /\ Together(rows)' /\ OneReply(rows)'
          /\ \A j \in Inputs : j # i => rows'[j] = rows[j]
          /\ rows[i].state \in Terminal => rows'[i] = rows[i]
          /\ rows[i].state \notin Terminal =>
               rows'[i] = [state |-> Marked(rows[i], state), batch |-> b, reply |-> rows[i].reply]
      BY <3>3, <3>4, OneMark
    <3>6. CASE rows[i].state \in Terminal
      BY <1>3, <2>2, <3>5, <3>6 DEF Terminal
    <3>7. CASE rows[i].state \notin Terminal
      <4>1. Marked(rows[i], state) = state
        BY <1>3 DEF Marked
      <4> QED  BY <1>3, <2>2, <3>5, <3>7, <4>1 DEF b
    <3> QED  BY <3>6, <3>7
  <2> QED  BY <2>1, <2>2
<1>8. /\ \A j \in Inputs : rows'[j].reply = rows[j].reply
      /\ \A j \in Chats : rows'[j] = rows[j]
  BY <1>2, <1>3, <1>7 DEF Inputs
<1>9. Accounts'
  <2>1. /\ rows'[i].state \in {"none", "running", "uncertain", "done"}
        /\ rows'[i].state = "none" => rows'[i].batch = <<>>
        /\ rows'[i].state # "none" => rows'[i].batch = <<i>>
        /\ rows'[i].state = "none" => ran[i] = 0
        /\ UNCHANGED admitted /\ (rows[i].state # "none" <=> rows'[i].state # "none")
    BY <1>1, <1>3, <1>7
  <2>2. UNCHANGED <<outbound, context, tool, wire, landed, runs, ran, sends, spoke, reported>>
    BY <1>1
  <2>3. doomed' \subseteq Chats /\ worker'.run = worker.run /\ worker'.at = worker.at
    BY <1>1 DEF IInv, Accounts, HistoryTypes
  <2> DEFINE gone == {}
  <2>4. /\ i \in Inputs /\ i \notin Chats /\ gone \in SUBSET Chats
        /\ rows' \in [Inputs -> RowSet] /\ Together(rows)' /\ OneReply(rows)'
        /\ \A j \in Inputs : rows'[j].reply = rows[j].reply
        /\ \A j \in Inputs : j \notin gone /\ j # i => rows'[j] = rows[j]
        /\ \A j \in gone : rows'[j].state = "cancelled" /\ rows[j].state # "none" /\ rows[j].reply = 0
    BY <1>1, <1>2, <1>7, <1>8
  <2> HIDE DEF i, gone
  <2> QED  BY <2>1, <2>2, <2>3, <2>4, CommandAccounts
<1>10. MemoryTypes'
  BY <1>1, <1>4 DEF IInv, MemoryTypes
<1>11. DownInv'
  BY <1>1 DEF IInv, DownInv, NoHandler
<1>12. UNCHANGED <<Bursting, Queued, Recovering, Held, Dropping>> /\ PlacesInv' /\ ApartInv'
  BY <1>1, <1>4, Slots DEF SlotsStay, IInv
<1>13. Bursting \cup Queued \cup Recovering \cup Held \cup Dropping \subseteq Chats
  BY PlacesAreInputs
<1>14. WaitInv'
  BY <1>8, <1>12, <1>13 DEF IInv, WaitInv
<1>15. WorkerInv'
  <2>1. \A j \in Held' : HeldRow(rows[j])'
    BY <1>1, <1>8, <1>12, <1>13 DEF IInv, WorkerInv, HeldRow
  <2> QED  BY <1>1, <1>8, <1>12, <1>13, <2>1 DEF IInv, WorkerInv
<1>16. RecoveryInv'
  BY <1>1, <1>3, <1>7, <1>12 DEF IInv, RecoveryInv, Distinct
<1>17. DoomedInv'
  <2>1. doomed \subseteq Chats
    BY DEF IInv, Accounts, HistoryTypes
  <2> QED  BY <1>1, <1>8, <1>12, <2>1 DEF IInv, DoomedInv
<1>18. OrphanInv'
  <2>1. ASSUME gateway = "up", NEW j \in Inputs, j # i
        PROVE  /\ rows'[j].state = "pending" =>
                    \/ j \in Bursting' \cup Queued' \cup Recovering' \cup Dropping'
                    \/ worker'.at = "prepare" /\ j \in Held'
               /\ rows'[j].state = "running" =>
                    \/ j \in Held'
                    \/ \E g \in Handlers : g[1] = j /\ handlers'[g].at \in {"interrupt", "reply"}
               /\ rows'[j].state = "sending" =>
                    j \in Held' \/ (recovery'.at = "sending" /\ j \in ToSet(Head(recovery'.replies)))
    <3>1. rows'[j] = rows[j] /\ \A g \in Handlers : g[1] = j => handlers'[g] = handlers[g]
      BY <1>4, <1>7, <2>1
    <3> QED  BY <1>1, <1>12, <2>1, <3>1 DEF IInv, OrphanInv
  <2> QED  BY <1>1, <1>7, <2>1 DEF OrphanInv
<1> QED  BY <1>4, <1>9, <1>10, <1>11, <1>12, <1>14, <1>15, <1>16, <1>17, <1>18 DEF IInv

-----------------------------------------------------------------------------
(***************************************************************************)
(* A restart.                                                              *)
(***************************************************************************)
\* A set of admitted inputs has an order.
LEMMA Ordered ==
  ASSUME admitted \in Seq(Inputs), Distinct(admitted), NEW S, S \subseteq ToSet(admitted), NEW s \in InOrder(S)
  PROVE  /\ s \in Seq(S) /\ ToSet(s) = S /\ Distinct(s)
         /\ DOMAIN s \subseteq Nat /\ \A k, l \in DOMAIN s : k < l => Before(s[k], s[l])
<1>1. IsFiniteSet(ToSet(admitted))
  <2>1. Len(admitted) \in Nat /\ DOMAIN admitted = 1 .. Len(admitted)
    OBVIOUS
  <2>2. admitted \in [1 .. Len(admitted) -> ToSet(admitted)]
    BY <2>1, LenProperties DEF ToSet
  <2>3. admitted \in Surjection(1 .. Len(admitted), ToSet(admitted))
    BY <2>1, <2>2 DEF Surjection, ToSet
  <2>4. IsFiniteSet(1 .. Len(admitted))
    BY <2>1, FS_Interval
  <2> QED  BY <2>3, <2>4, FS_Surjection
<1>2. Cardinality(S) \in Nat
  BY <1>1, FS_Subset, FS_CardinalityType
<1>3. /\ s \in [1 .. Cardinality(S) -> S] /\ ToSet(s) = S
      /\ \A k, l \in DOMAIN s : k < l => Before(s[k], s[l])
  BY DEF InOrder
<1>4. s \in Seq(S) /\ DOMAIN s \subseteq Nat
  BY <1>2, <1>3
<1>5. \A i, j : Before(i, j) => i # j
  <2>1. DOMAIN admitted \subseteq Nat
    OBVIOUS
  <2> QED  BY <2>1 DEF Before, Distinct
<1>6. ASSUME NEW k \in DOMAIN s, NEW l \in DOMAIN s, s[k] = s[l] PROVE k = l
  <2>1. ~ (k < l) /\ ~ (l < k)
    BY <1>3, <1>5, <1>6
  <2>2. k \in Nat /\ l \in Nat
    BY <1>4
  <2> QED  BY <2>1, <2>2
<1> QED  BY <1>3, <1>4, <1>6 DEF Distinct

\* What a restart changes of the receipts.
LEMMA ReopenedRows ==
  ASSUME Accounts
  PROVE  /\ Reopened \in [Inputs -> RowSet] /\ Together(Reopened) /\ OneReply(Reopened)
         /\ \A i \in Inputs : /\ Reopened[i].reply = rows[i].reply /\ Reopened[i].batch = rows[i].batch
                              /\ rows[i].state \in {"running", "sending"} => Reopened[i].state = "uncertain"
                              /\ rows[i].state \notin {"running", "sending"} => Reopened[i] = rows[i]
<1> DEFINE table == Reopened
<1>1. rows \in [Inputs -> RowSet] /\ Together(rows) /\ OneReply(rows)
  BY DEF Accounts, DiskTypes
<1>2. \A i \in Inputs : table[i] = IF rows[i].state \in {"running", "sending"}
                                   THEN [rows[i] EXCEPT !.state = "uncertain"] ELSE rows[i]
  BY DEF Reopened
<1>3. ASSUME NEW i \in Inputs
      PROVE  /\ table[i] \in RowSet /\ table[i].reply = rows[i].reply /\ table[i].batch = rows[i].batch
             /\ rows[i].state \in {"running", "sending"} => table[i].state = "uncertain"
             /\ rows[i].state \notin {"running", "sending"} => table[i] = rows[i]
  <2>1. rows[i] \in RowSet
    BY <1>1
  <2>2. CASE rows[i].state \in {"running", "sending"}
    BY <1>2, <2>1, <2>2 DEF RowSet, States
  <2>3. CASE rows[i].state \notin {"running", "sending"}
    BY <1>2, <2>1, <2>3
  <2> QED  BY <2>2, <2>3
<1>4. table \in [Inputs -> RowSet]
  BY <1>3 DEF Reopened
<1>5. \A i, j \in Inputs : rows[i] = rows[j] => table[i] = table[j]
  BY <1>2
<1> HIDE DEF table
<1>6. Together(table)
  <2>1. ASSUME NEW i \in Inputs, table[i].state \notin {"none", "pending"}
        PROVE  i \in ToSet(table[i].batch) /\ \A j \in ToSet(table[i].batch) : j \in Inputs /\ table[j] = table[i]
    <3>1. rows[i].state \notin {"none", "pending"}
      BY <1>3, <2>1
    <3>2. i \in ToSet(rows[i].batch) /\ \A j \in ToSet(rows[i].batch) : j \in Inputs /\ rows[j] = rows[i]
      BY <1>1, <3>1 DEF Together
    <3> QED  BY <1>3, <1>5, <3>2
  <2> QED  BY <2>1 DEF Together
<1>7. OneReply(table)
  BY <1>1, <1>3, <1>5 DEF OneReply
<1> QED  BY <1>3, <1>4, <1>6, <1>7 DEF table

LEMMA RecoverStep == ASSUME IInv, Recover PROVE IInv'
<1>1. /\ gateway = "opening" /\ gateway' = "up" /\ rows' = Reopened
      /\ UNCHANGED <<admitted, outbound, context, handlers, burst, queue, worker, interrupting,
                     tool, posted,
                     wire, landed, runs, ran, sends, spoke, doomed, reported>>
  BY DEF Recover, server, history
<1>2. PICK owners \in InOrder(Owners(Reopened)) :
        \E inputs \in InOrder({i \in Inputs : Reopened[i].state = "pending"}) :
          recovery' = [at |-> "next", inputs |-> inputs,
                       replies |-> [k \in DOMAIN owners |-> Reopened[owners[k]].batch]]
  BY DEF Recover
<1>3. PICK inputs \in InOrder({i \in Inputs : Reopened[i].state = "pending"}) :
        recovery' = [at |-> "next", inputs |-> inputs,
                     replies |-> [k \in DOMAIN owners |-> Reopened[owners[k]].batch]]
  BY <1>2
<1>4. /\ handlers = [h \in Handlers |-> NoHandler] /\ burst = <<>> /\ queue = <<>>
      /\ worker = Idle /\ recovery = NoRecovery
  BY <1>1 DEF IInv, DownInv
<1> DEFINE table == Reopened
           waiting == {i \in Inputs : table[i].state = "pending"}
           owning == Owners(table)
<1>5. /\ table \in [Inputs -> RowSet] /\ Together(table) /\ OneReply(table)
      /\ \A i \in Inputs : /\ table[i].reply = rows[i].reply /\ table[i].batch = rows[i].batch
                           /\ rows[i].state \in {"running", "sending"} => table[i].state = "uncertain"
                           /\ rows[i].state \notin {"running", "sending"} => table[i] = rows[i]
  BY ReopenedRows DEF IInv
<1>6. /\ admitted \in Seq(Inputs) /\ Distinct(admitted)
      /\ \A i \in Inputs : rows[i].state # "none" => i \in ToSet(admitted)
      /\ \A i \in Inputs : rows[i].state = "pending" => i \in Chats
  BY DEF IInv, Accounts, DiskTypes, RowInv
<1>7. waiting \subseteq ToSet(admitted) /\ waiting \subseteq Chats
  BY <1>5, <1>6
<1>8. owning \subseteq ToSet(admitted) /\ \A i \in owning : i \in Inputs /\ table[i].state = "reply_pending"
  BY <1>5, <1>6 DEF Owners
<1>9. \A i, j \in owning : Before(j, i) => Head(table[j].batch) # Head(table[i].batch)
  BY DEF Owners
<1>10. rows' = table
  BY <1>1
<1>11. inputs \in InOrder(waiting) /\ owners \in InOrder(owning)
  BY <1>2, <1>3
<1> DEFINE replies == [k \in DOMAIN owners |-> table[owners[k]].batch]
<1>12. recovery' = [at |-> "next", inputs |-> inputs, replies |-> replies]
  BY <1>3
<1> HIDE DEF table, waiting, owning
<1>13. /\ inputs \in Seq(waiting) /\ ToSet(inputs) = waiting /\ Distinct(inputs)
  BY <1>6, <1>7, <1>11, Ordered
<1>14. /\ owners \in Seq(owning) /\ DOMAIN owners \subseteq Nat
       /\ \A k, l \in DOMAIN owners : k < l => Before(owners[k], owners[l])
  BY <1>6, <1>8, <1>11, Ordered
<1>15. \A k \in DOMAIN owners : /\ owners[k] \in owning /\ owners[k] \in Inputs
                                /\ table[owners[k]].state = "reply_pending"
                                /\ table[owners[k]].batch \in Seq(Inputs)
  <2>1. \A k \in DOMAIN owners : owners[k] \in owning
    BY <1>14
  <2> QED  BY <1>5, <1>8, <2>1 DEF RowSet
<1>16. /\ DOMAIN replies = DOMAIN owners
       /\ \A k \in DOMAIN replies : replies[k] = table[owners[k]].batch
  OBVIOUS
<1>17. replies \in Seq(Seq(Inputs))
  <2>1. DOMAIN owners = 1 .. Len(owners) /\ Len(owners) \in Nat
    BY <1>14
  <2> QED  BY <1>15, <2>1
<1> HIDE DEF replies
<1>18. ASSUME NEW k \in DOMAIN replies
       PROVE  /\ replies[k] # <<>> /\ Head(replies[k]) \in Inputs /\ table[Head(replies[k])].batch = replies[k]
              /\ table[Head(replies[k])].state = "reply_pending"
  <2>1. /\ owners[k] \in ToSet(replies[k]) /\ replies[k] \in Seq(Inputs)
        /\ \A j \in ToSet(replies[k]) : j \in Inputs /\ table[j] = table[owners[k]]
    BY <1>5, <1>15, <1>16 DEF Together
  <2>2. replies[k] # <<>>
    BY <2>1 DEF ToSet
  <2>3. Head(replies[k]) \in ToSet(replies[k])
    BY <2>1, <2>2, Tailed
  <2> QED  BY <1>15, <1>16, <2>1, <2>2, <2>3
<1>19. Distinct(replies)
  <2>1. ASSUME NEW k \in DOMAIN replies, NEW l \in DOMAIN replies, replies[k] = replies[l]
        PROVE  k = l
    <3>1. ~ (k < l) /\ ~ (l < k)
      BY <1>9, <1>14, <1>15, <1>16, <2>1
    <3>2. k \in Nat /\ l \in Nat
      BY <1>14, <1>16
    <3> QED  BY <3>1, <3>2
  <2> QED  BY <2>1 DEF Distinct
<1>20. inputs \in Seq(Chats)
  BY <1>7, <1>13
<1>21. /\ Bursting = {} /\ Queued = {} /\ Held = {} /\ Dropping = {}
       /\ Bursting' = {} /\ Queued' = {} /\ Held' = {} /\ Dropping' = {} /\ Recovering' = waiting
  <2>1. Bursting = {} /\ Queued = {} /\ Held = {}
    BY <1>4 DEF Bursting, Queued, Held, ToSet, Idle
  <2>2. Dropping = {}
    BY <1>4 DEF Dropping, NoHandler
  <2>3. UNCHANGED <<Bursting, Queued, Held, Dropping>>
    BY <1>1 DEF Bursting, Queued, Held, Dropping
  <2>4. Recovering' = waiting
    BY <1>12, <1>13 DEF Recovering
  <2> QED  BY <2>1, <2>2, <2>3, <2>4
<1>22. Accounts'
  <2>1. (DiskTypes /\ HistoryTypes /\ FailureSticks /\ Distinct(admitted))'
    BY <1>1, <1>5, <1>10 DEF IInv, Accounts, DiskTypes, HistoryTypes, FailureSticks, Distinct
  <2>2. (Together(rows) /\ OneReply(rows))'
    BY <1>5, <1>10 DEF Together, OneReply
  <2>3. RowInv'
    <3>1. ASSUME NEW i \in Inputs
          PROVE  /\ rows'[i].state = "none" => rows'[i].batch = <<>>
                 /\ rows'[i].state \in {"none", "pending"} => ran'[i] = 0
                 /\ rows'[i].state \in {"none", "pending", "running"} => rows'[i].reply = 0
                 /\ rows'[i].state \in {"reply_pending", "sending"} => rows'[i].reply # 0
                 /\ i \notin Chats => /\ rows'[i].state \in {"none", "running", "uncertain", "done"}
                                      /\ rows'[i].reply = 0
                                      /\ rows'[i].state # "none" => rows'[i].batch = <<i>>
                 /\ rows'[i].state # "none" <=> i \in ToSet(admitted')
                 /\ ran'[i] <= 1
      <4>1. CASE rows[i].state \in {"running", "sending"}
        BY <1>1, <1>5, <1>10, <4>1 DEF IInv, Accounts, RowInv
      <4>2. CASE rows[i].state \notin {"running", "sending"}
        BY <1>1, <1>5, <1>10, <4>2 DEF IInv, Accounts, RowInv
      <4> QED  BY <4>1, <4>2
    <3> QED  BY <3>1 DEF RowInv
  <2>4. RunsInv'
    BY <1>1, <1>5, <1>10 DEF IInv, Accounts, RunsInv
  <2>5. ToolInv'
    BY <1>1, <1>5, <1>10 DEF IInv, Accounts, ToolInv
  <2>6. SendInv'
    BY <1>1, <1>5, <1>10 DEF IInv, Accounts, SendInv
  <2> QED  BY <2>1, <2>2, <2>3, <2>4, <2>5, <2>6 DEF Accounts
<1>23. MemoryTypes'
  <2>1. recovery' \in RecoverySet
    BY <1>12, <1>17, <1>20 DEF RecoverySet
  <2> QED  BY <1>1, <2>1 DEF IInv, MemoryTypes
<1>24. DownInv' /\ HandlerInv'
  BY <1>1 DEF IInv, DownInv, HandlerInv
<1>25. PlacesInv'
  <2>1. Distinct(recovery.inputs)'
    BY <1>12, <1>13 DEF Distinct
  <2> QED  BY <1>1, <2>1 DEF IInv, PlacesInv, Distinct
<1>26. ApartInv'
  BY <1>21 DEF ApartInv
<1>27. WaitInv'
  BY <1>10, <1>21 DEF WaitInv, waiting
<1>28. WorkerInv'
  <2>1. worker' = worker /\ interrupting' = interrupting /\ Held' = {} /\ worker.run = 0
    BY <1>1, <1>4, <1>21 DEF Idle
  <2> QED  BY <2>1 DEF IInv, WorkerInv
<1>29. RecoveryInv'
  <2>1. recovery'.replies = replies /\ recovery'.at = "next"
    BY <1>12
  <2>2. Distinct(recovery.replies)'
    BY <1>19, <2>1 DEF Distinct
  <2> QED  BY <1>10, <1>18, <1>21, <2>1, <2>2 DEF RecoveryInv
<1>30. DoomedInv'
  <2>1. doomed \subseteq Inputs
    BY DEF IInv, Accounts, HistoryTypes, Inputs
  <2>2. \A i \in doomed : rows[i].state = "cancelled"
    BY <1>21 DEF IInv, DoomedInv
  <2> QED  BY <1>1, <1>5, <1>10, <2>1, <2>2 DEF DoomedInv
<1>31. OrphanInv'
  <2>1. ASSUME NEW i \in Inputs PROVE rows'[i].state \notin {"running", "sending"}
    BY <1>5, <1>10
  <2>2. \A i \in Inputs : rows'[i].state = "pending" => i \in Recovering'
    BY <1>10, <1>21 DEF waiting
  <2> QED  BY <2>1, <2>2 DEF OrphanInv
<1> QED  BY <1>22, <1>23, <1>24, <1>25, <1>26, <1>27, <1>28, <1>29, <1>30, <1>31 DEF IInv

-----------------------------------------------------------------------------
(***************************************************************************)
(* The inductive invariant.                                                *)
(***************************************************************************)
LEMMA InitInv == Init => IInv
<1> SUFFICES ASSUME Init PROVE IInv
  OBVIOUS
<1>1. /\ MaxRuns \in Nat /\ MaxDeliveries \in Nat
      /\ <<>> \in Seq(Chats) /\ <<>> \in Seq(Inputs) /\ <<>> \in Seq(Seq(Chats)) /\ <<>> \in Seq(Seq(Inputs))
  BY ThreadedAssumption, EmptySeq
<1>2. NoRow \in RowSet
  BY <1>1 DEF NoRow, RowSet, States
<1>3. \A i \in Inputs : rows[i] = NoRow
  BY DEF Init
<1>4. DiskTypes
  BY <1>1, <1>2 DEF Init, DiskTypes, NoContext
<1>5. HistoryTypes
  BY <1>1 DEF Init, HistoryTypes
<1>6. MemoryTypes
  <2>1. NoHandler \in HandlerSet
    BY DEF NoHandler, HandlerSet
  <2>2. Idle \in WorkerSet
    BY <1>1 DEF Idle, WorkerSet
  <2>3. NoRecovery \in RecoverySet
    BY <1>1 DEF NoRecovery, RecoverySet
  <2>4. NoTool \in [at : {"idle", "checked", "accepted"}, run : {0} \cup Runs]
    BY DEF NoTool
  <2>5. handlers \in [Handlers -> HandlerSet]
    BY <2>1 DEF Init
  <2>6. posted \in [Inputs -> 0 .. MaxDeliveries]
    BY <1>1 DEF Init
  <2> QED  BY <1>1, <2>2, <2>3, <2>4, <2>5, <2>6 DEF Init, MemoryTypes
<1>7. RowInv /\ Together(rows) /\ OneReply(rows) /\ Distinct(admitted) /\ FailureSticks
  <2>1. ToSet(admitted) = {} /\ Distinct(admitted)
    BY DEF Init, ToSet, Distinct
  <2>2. RowInv
    BY <1>3, <2>1 DEF Init, RowInv, NoRow
  <2>3. Together(rows) /\ OneReply(rows) /\ FailureSticks
    BY <1>3 DEF Init, Together, OneReply, FailureSticks, NoRow
  <2> QED  BY <2>1, <2>2, <2>3
<1>8. RunsInv
  BY <1>3 DEF Init, RunsInv, NoRow, Idle, NoTool, NoContext
<1>9. SendInv
  BY <1>3 DEF Init, SendInv, NoRow
<1>10. ToolInv
  BY DEF Init, ToolInv, NoTool, Idle
<1>11. \A h \in Handlers : handlers[h] = NoHandler
  BY DEF Init
<1>12. Bursting = {} /\ Queued = {} /\ Recovering = {} /\ Held = {} /\ Dropping = {}
  <2>1. Bursting = {} /\ Queued = {} /\ Recovering = {} /\ Held = {}
    BY DEF Init, Bursting, Queued, Recovering, Held, ToSet, NoRecovery, Idle
  <2>2. Dropping = {}
    BY <1>11 DEF Dropping, NoHandler
  <2> QED  BY <2>1, <2>2
<1>13. PlacesInv
  BY <1>11 DEF Init, PlacesInv, Distinct, NoRecovery, Idle, NoHandler
<1>14. ApartInv /\ WaitInv /\ HandlerInv
  BY <1>11, <1>12 DEF ApartInv, WaitInv, HandlerInv, NoHandler
<1>15. WorkerInv
  BY <1>12 DEF Init, WorkerInv, Idle, Begun
<1>16. RecoveryInv
  BY DEF Init, RecoveryInv, NoRecovery, Distinct
<1>17. DoomedInv /\ DownInv /\ OrphanInv
  BY <1>3 DEF Init, DoomedInv, DownInv, OrphanInv, NoRow
<1> QED  BY <1>4, <1>5, <1>6, <1>7, <1>8, <1>9, <1>10, <1>13, <1>14, <1>15, <1>16, <1>17
            DEF IInv, Accounts

LEMMA StutterStep == ASSUME IInv, UNCHANGED vars PROVE IInv'
<1> USE DEF vars, disk, memory, server, history
<1>1. Accounts'
  BY DEF IInv, Accounts, DiskTypes, HistoryTypes, RowInv, Together, OneReply, Distinct, RunsInv,
         SendInv, ToolInv,
         FailureSticks
<1>2. UNCHANGED <<Bursting, Queued, Recovering, Held, Dropping>>
  BY DEF Bursting, Queued, Recovering, Held, Dropping
<1>3. (MemoryTypes /\ DownInv /\ PlacesInv /\ HandlerInv)'
  BY DEF IInv, MemoryTypes, DownInv, PlacesInv, HandlerInv, Distinct
<1>4. (ApartInv /\ WaitInv /\ DoomedInv /\ OrphanInv)'
  BY <1>2 DEF IInv, ApartInv, WaitInv, DoomedInv, OrphanInv
<1>5. (WorkerInv /\ RecoveryInv)'
  BY <1>2 DEF IInv, WorkerInv, RecoveryInv, HeldRow, Distinct
<1> QED  BY <1>1, <1>3, <1>4, <1>5 DEF IInv

LEMMA NextStep == ASSUME ~EarlyWebhooks, IInv, [Next]_vars PROVE IInv'
<1>1. ASSUME NEW i \in Inputs, Deliver(i) \/ Expire(i) PROVE IInv'
  BY <1>1, DeliverStep, ExpireStep
<1>2. ASSUME NEW h \in Handlers, HandlerStep(h) PROVE IInv'
  BY <1>2, HandlerReturns, CollectStep, StopArrivesStep, ClearArrivesStep, CommandGoesOnStep,
     CommandEndsStep
     DEF HandlerStep
<1>3. CASE WorkerStep
  BY <1>3, TakeStep, PrepareFailsStep, StartStep, SubmitStep, TurnEndsStep, TurnFailsStep,
     UnwindStep,
     WorkerSendsStep, WorkerSentStep, WorkerSendFailsStep DEF WorkerStep
<1>4. CASE FlushBurst \/ ToolChecks \/ ToolStep
  BY <1>4, FlushBurstStep, ToolSteps
<1>5. ASSUME NEW r \in Runs, Land(r) \/ FailDelivery(r) \/ HandleFailure(r) PROVE IInv'
  BY <1>5, ServerSteps, HandleFailureStep
<1>6. CASE Crash \/ Close \/ OpenGateway \/ Recover
  BY <1>6, CrashStep, CloseStep, OpenGatewayStep, RecoverStep
<1>7. CASE RecoveryStep
  BY <1>7, RecoverReplyStep, RecoverySendsStep, RecoverySentStep, RecoverInputsStep DEF RecoveryStep
<1>8. CASE UNCHANGED vars
  BY <1>8, StutterStep
<1> QED  BY <1>1, <1>2, <1>3, <1>4, <1>5, <1>6, <1>7, <1>8 DEF Next

\* Where webhooks wait for the recovery, an input is in one place, a batch is settled as one, a
\* run has one batch and one answer, and the worker and the recovery hold different answers.
THEOREM Invariance == ASSUME ~EarlyWebhooks PROVE Spec => []IInv
<1>1. IInv /\ [Next]_vars => IInv'
  BY NextStep
<1> QED  BY <1>1, InitInv, PTL DEF Spec

-----------------------------------------------------------------------------
(***************************************************************************)
(* The properties.                                                         *)
(***************************************************************************)
\* Whatever is delivered again, expires, crashes or restarts, an input is submitted to the model
\* at most once: admit writes the receipt once, and only what was not begun is replayed.
THEOREM InputsRunOnce == ASSUME ~EarlyWebhooks PROVE Spec => []RunOnce
<1>1. IInv => RunOnce
  BY DEF IInv, Accounts, RowInv, RunOnce
<1> QED  BY <1>1, Invariance, PTL

\* An answer's send is begun at most once, and never after its turn said it with the tool; a
\* receipt that is done had its answer accepted, a cancelled one none; a failure that the server
\* reported stays on the record of the send.
THEOREM AnswersStayRecorded == ASSUME ~EarlyWebhooks PROVE Spec => []AnswersAreRecorded
<1>1. ASSUME IInv PROVE AnswersAreRecorded
  <2>1. AnsweredOnce
    <3>1. ASSUME NEW r \in Runs PROVE sends[r] + (IF r \in spoke THEN 1 ELSE 0) <= 1
      <4>1. sends[r] \in Nat /\ sends[r] <= 1 /\ (r \in spoke => sends[r] = 0)
        BY <1>1 DEF IInv, Accounts, HistoryTypes, SendInv
      <4> QED  BY <4>1
    <3> QED  BY <3>1 DEF AnsweredOnce
  <2>2. RecordIsTrue
    BY <1>1 DEF IInv, Accounts, SendInv, RecordIsTrue, Inputs
  <2> QED  BY <1>1, <2>1, <2>2 DEF IInv, Accounts, AnswersAreRecorded
<1> QED  BY <1>1, Invariance, PTL

\* In a running gateway no receipt is left behind: what is pending waits in the burst, the queue,
\* the recovery or a command's hands, what runs or is sent has its worker, recovery or command;
\* and the receipts of one batch are in one state from its first mark on.
THEOREM ReceiptsStayKept == ASSUME ~EarlyWebhooks PROVE Spec => []ReceiptsAreKept
<1>1. ASSUME IInv PROVE ReceiptsAreKept
  <2>1. ASSUME gateway = "up", NEW i \in Inputs, rows[i].state = "pending"
        PROVE  \/ i \in InputsOf(ToSet(Waiting)) \cup ToSet(recovery.inputs)
               \/ worker.at = "prepare" /\ i \in ToSet(worker.batch)
               \/ \E h \in Handlers : i \in InputsOf(handlers[h].drops)
    <3>1. \/ i \in Bursting \cup Queued \cup Recovering \cup Dropping
          \/ worker.at = "prepare" /\ i \in Held
      BY <1>1, <2>1 DEF IInv, OrphanInv
    <3>2. InputsOf(ToSet(Waiting)) = Bursting \cup Queued
      BY <1>1, Waits
    <3>3. i \in Dropping => \E h \in Handlers : i \in InputsOf(handlers[h].drops)
      BY DEF Dropping, InputsOf
    <3> QED  BY <3>1, <3>2, <3>3 DEF Recovering, Held
  <2>2. ASSUME NEW i \in Held
        PROVE  /\ rows[i].state = "running" => worker.at \in {"started", "running", "unwind"}
               /\ rows[i].state = "sending" => worker.at = "sending"
    <3>1. worker.batch # <<>>
      BY DEF Held, ToSet
    <3>2. worker.at \in {"prepare"} \cup Begun
      BY <1>1, <3>1 DEF IInv, WorkerInv, MemoryTypes, WorkerSet
    <3>3. HeldRow(rows[i])
      BY <1>1 DEF IInv, WorkerInv
    <3> QED  BY <3>2, <3>3 DEF HeldRow, Begun
  <2>3. ASSUME gateway = "up", NEW i \in Inputs, rows[i].state = "running"
        PROVE  \/ worker.at \in {"started", "running", "unwind"} /\ i \in ToSet(worker.batch)
               \/ \E h \in Handlers : h[1] = i /\ handlers[h].at \in {"interrupt", "reply"}
    BY <1>1, <2>2, <2>3 DEF IInv, OrphanInv, Held
  <2>4. ASSUME gateway = "up", NEW i \in Inputs, rows[i].state = "sending"
        PROVE  \/ worker.at = "sending" /\ i \in ToSet(worker.batch)
               \/ recovery.at = "sending" /\ i \in ToSet(Head(recovery.replies))
    BY <1>1, <2>2, <2>4 DEF IInv, OrphanInv, Held
  <2>5. NoOrphan
    BY <2>1, <2>3, <2>4 DEF NoOrphan
  <2>6. BatchTogether
    <3>1. ASSUME NEW i \in Chats, NEW j \in Chats, j \in ToSet(rows[i].batch), rows[i].state # "pending"
          PROVE  rows[j].state = rows[i].state
      <4>1. i \in Inputs
        BY DEF Inputs
      <4>2. rows[i].state # "none"
        BY <1>1, <3>1, <4>1 DEF IInv, Accounts, RowInv, ToSet
      <4> QED  BY <1>1, <3>1, <4>1, <4>2 DEF IInv, Accounts, Together
    <3> QED  BY <3>1 DEF BatchTogether
  <2> QED  BY <2>5, <2>6 DEF ReceiptsAreKept
<1> QED  BY <1>1, Invariance, PTL

\* Messages that waited when /stop arrived are not submitted later: /stop takes them out of the
\* burst and the queue in the step that reads them, and the worker holds none of them.
THEOREM StoppedStays == ASSUME ~EarlyWebhooks PROVE Spec => StoppedStaysStopped
<1>1. ASSUME IInv, Submit PROVE \A i \in doomed : ran'[i] = ran[i]
  <2>1. ASSUME NEW i \in doomed PROVE i \notin ToSet(worker.batch) /\ i \in Inputs /\ ran[i] \in Nat
    <3>1. i \in Inputs /\ ran[i] \in Nat
      BY <1>1 DEF IInv, Accounts, HistoryTypes, Inputs
    <3>2. worker.at = "started"
      BY <1>1 DEF Submit
    <3>3. rows[i].state = "cancelled" \/ i \in Dropping
      BY <1>1 DEF IInv, DoomedInv
    <3>4. i \in Held => rows[i].state = "running"
      BY <1>1, <3>2, HeldRows DEF IInv
    <3>5. Held \cap Dropping = {}
      BY <1>1 DEF IInv, ApartInv
    <3> QED  BY <3>1, <3>3, <3>4, <3>5 DEF Held
  <2>2. ASSUME NEW i \in doomed
        PROVE  ran[i] + Cardinality({k \in DOMAIN worker.batch : worker.batch[k] = i}) = ran[i]
    <3> DEFINE K == {k \in DOMAIN worker.batch : worker.batch[k] = i}
    <3>1. K = {}
      BY <2>1 DEF ToSet
    <3> HIDE DEF K
    <3>2. Cardinality(K) = 0
      BY <3>1, FS_EmptySet
    <3>3. ran[i] + Cardinality(K) = ran[i]
      BY <2>1, <3>2
    <3> QED  BY <3>3 DEF K
  <2> QED  BY <1>1, <2>1, <2>2 DEF Submit
<1>2. ASSUME Next, ~ Submit PROVE UNCHANGED ran
  <2>1. ASSUME NEW i \in Inputs, Deliver(i) \/ Expire(i) PROVE UNCHANGED ran
    BY <2>1 DEF Deliver, Expire
  <2>2. ASSUME NEW h \in Handlers, HandlerStep(h) PROVE UNCHANGED ran
    BY <2>2
       DEF HandlerStep, HandlerFails, Ignore, Collect, StopArrives, ClearArrives, CommandGoesOn,
           CommandEnds,
                history
  <2>3. CASE WorkerStep
    BY <1>2, <2>3
       DEF WorkerStep, Take, PrepareFails, Start, TurnEnds, TurnFails, Unwind, WorkerSends,
           WorkerSent,
                      WorkerSendFails, history
  <2>4. CASE FlushBurst \/ ToolChecks \/ ToolStep
    BY <2>4 DEF FlushBurst, ToolChecks, ToolStep, ToolSends, ToolRecords, history
  <2>5. ASSUME NEW r \in Runs, Land(r) \/ FailDelivery(r) \/ HandleFailure(r) PROVE UNCHANGED ran
    BY <2>5 DEF Land, FailDelivery, HandleFailure, history
  <2>6. CASE Crash \/ Close \/ OpenGateway \/ Recover
    BY <2>6 DEF Crash, Close, OpenGateway, Recover, history
  <2>7. CASE RecoveryStep
    BY <2>7
       DEF RecoveryStep, RecoverReply, RecoverySends, RecoverySent, RecoverySendFails,
           RecoverInputs, history
  <2> QED  BY <1>2, <2>1, <2>2, <2>3, <2>4, <2>5, <2>6, <2>7 DEF Next
<1>3. IInv /\ [Next]_vars => [\A i \in doomed : ran'[i] = ran[i]]_vars
  BY <1>1, <1>2
<1> QED  BY <1>3, Invariance, PTL DEF Spec, StoppedStaysStopped
===============================================================================
