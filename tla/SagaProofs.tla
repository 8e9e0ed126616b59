------------------------------ MODULE SagaProofs ------------------------------
(***************************************************************************)
(* Proofs about SagaBase for any number of calls and kinds of pages: its   *)
(* type invariant and that a response covers its source book, under every  *)
(* interleaving; and that a response carries the facts of its own call, if *)
(* the caller waits for one call before the next.                          *)
(***************************************************************************)
EXTENDS SagaBase, SequenceTheorems, TLAPS

Cell == Fact \cup {Unset}

\* A header of Nil, or into an array that has room for it.
Valid(h) ==
  /\ h \in [array : Nat, len : Nat]
  /\ h.array = 0 => h.len = 0
  /\ h.array # 0 => h.array \in DOMAIN heap /\ h.len <= Len(heap[h.array])

HeapTyped == heap \in Seq(Seq(Cell)) /\ Valid(events)

\* Each variable is a function of calls.
PerCall ==
  /\ pc = [c \in Call |-> pc[c]] /\ source = [c \in Call |-> source[c]]
  /\ next = [c \in Call |-> next[c]] /\ commands = [c \in Call |-> commands[c]]
  /\ loaded = [c \in Call |-> loaded[c]] /\ visited = [c \in Call |-> visited[c]]
  /\ emitted = [c \in Call |-> emitted[c]] /\ reply = [c \in Call |-> reply[c]]

AtHandler(c) == pc[c] \in {"handling", "appending"}

\* What a call has, and how far it is.
CallTyped(c) ==
  /\ pc[c] \in Steps
  /\ source[c] \in Seq(Page) /\ Len(source[c]) <= MaxPages
  /\ next[c] \in 1..Len(source[c]) + 1
  /\ AtHandler(c) => next[c] <= Len(source[c])
  /\ commands[c] \in Seq(1..MaxPages) /\ visited[c] \in Seq(1..MaxPages)
  /\ emitted[c] \in Seq(Fact) /\ Len(emitted[c]) <= MaxFacts
  /\ pc[c] = "appending" => emitted[c] # << >>
  /\ pc[c] # "done" => reply[c] = NoReply
  /\ pc[c] = "new" => source[c] = << >> /\ visited[c] = << >> /\ commands[c] = << >>
                        /\ emitted[c] = << >>

\* Its headers are good, and a response is given at the end of the book.
HeadersTyped(c) ==
  /\ Valid(loaded[c])
  /\ \/ reply[c] \in {NoReply, ErrorReply}
     \/ /\ pc[c] = "done" /\ next[c] = Len(source[c]) + 1
        /\ reply[c] = OkReply(commands[c], reply[c].facts) /\ Valid(reply[c].facts)

\* The last page the call has dealt with, or is dealing with.
LastPage(c) == IF AtHandler(c) \/ reply[c] = ErrorReply THEN next[c] ELSE next[c] - 1

\* Up to there the handlers ran once for each page somebody handles, in order,
\* and commands follow the pages.
Walked(c) ==
  /\ \A k, l \in DOMAIN visited[c] : k < l => visited[c][k] < visited[c][l]
  /\ \A k \in DOMAIN visited[c] : /\ visited[c][k] \in 1..LastPage(c)
                                  /\ source[c][visited[c][k]] \in Handled
  /\ \A i \in 1..LastPage(c) :
       source[c][i] \in Handled => \E k \in DOMAIN visited[c] : visited[c][k] = i
  /\ \A i, j \in DOMAIN commands[c] : i < j => commands[c][i] <= commands[c][j]
  /\ \A i \in DOMAIN commands[c] : commands[c][i] <= LastPage(c)

SagaInv ==
  /\ HeapTyped /\ PerCall
  /\ \A c \in Call : CallTyped(c) /\ HeadersTyped(c) /\ Walked(c)

-------------------------------------------------------------------------------
(* Slices *)

\* An error is neither a response nor the absence of one.
LEMMA Replies == NoReply # ErrorReply /\ \A cmds, facts : OkReply(cmds, facts) # ErrorReply
<1>1. NoReply.kind = "none" /\ ErrorReply.kind = "error"
  BY DEF NoReply, ErrorReply
<1>2. \A cmds, facts : OkReply(cmds, facts).kind = "ok"
  BY DEF OkReply
<1> QED
  BY <1>1, <1>2

\* What append does to the heap: the header it stores holds the elements of
\* the one it loaded and the fact, and of the cells behind other headers only
\* the one after the loaded header's last can change.
LEMMA StoreShape ==
  ASSUME SagaInv, NEW c \in Call, StoreFact(c)
  PROVE  LET h == loaded[c]
         IN  /\ heap' \in Seq(Seq(Cell))
             /\ \A g : Valid(g) => Valid(g)'
             /\ Valid(events)' /\ events'.len = h.len + 1 /\ events'.array # 0
             /\ \A i \in 1..h.len : heap'[events'.array][i] = heap[h.array][i]
             /\ heap'[events'.array][h.len + 1] = Last(emitted[c])
             /\ \A g : Valid(g) =>
                  /\ events'.array = g.array => g.array = h.array
                  /\ \A i \in 1..g.len :
                       ~(g.array = h.array /\ i = h.len + 1) => heap'[g.array][i] = heap[g.array][i]
<1> DEFINE h == loaded[c]
           fact == Last(emitted[c])
           capacity == IF h.array = 0 THEN 0 ELSE Len(heap[h.array])
           size == IF capacity = 0 THEN 1 ELSE 2 * capacity
           grown == [i \in 1..size |-> IF i <= h.len THEN heap[h.array][i]
                                       ELSE IF i = h.len + 1 THEN fact ELSE Unset]
<1>1. /\ heap \in Seq(Seq(Cell)) /\ Valid(h)
      /\ \/ /\ h.len < capacity
            /\ heap' = [heap EXCEPT ![h.array][h.len + 1] = fact]
            /\ events' = [h EXCEPT !.len = @ + 1]
         \/ /\ h.len = capacity
            /\ heap' = Append(heap, grown)
            /\ events' = [array |-> Len(heap) + 1, len |-> h.len + 1]
  BY DEF StoreFact, SagaInv, HeapTyped, HeadersTyped
<1>2. fact \in Cell
  <2>1. emitted[c] \in Seq(Fact) /\ emitted[c] # << >>
    BY DEF StoreFact, SagaInv, CallTyped
  <2>2. Len(emitted[c]) \in DOMAIN emitted[c] /\ \A i \in DOMAIN emitted[c] : emitted[c][i] \in Fact
    BY <2>1
  <2> QED
    BY <2>2 DEF Last, Cell
<1>3. /\ h.array \in Nat /\ h.len \in Nat /\ Len(heap) \in Nat /\ DOMAIN heap = 1..Len(heap)
      /\ h.array = 0 => h.len = 0
      /\ h.array # 0 => h.array \in DOMAIN heap /\ h.len <= Len(heap[h.array])
      /\ h = [array |-> h.array, len |-> h.len]
      /\ \A a \in DOMAIN heap : /\ heap[a] \in Seq(Cell) /\ Len(heap[a]) \in Nat
                                /\ DOMAIN heap[a] = 1..Len(heap[a])
                                /\ \A i \in 1..Len(heap[a]) : heap[a][i] \in Cell
  BY <1>1 DEF Valid
<1> HIDE DEF h, fact
<1>4. CASE h.len < capacity
  <2> DEFINE a == h.array
             row == [heap[a] EXCEPT ![h.len + 1] = fact]
  <2>1. a # 0 /\ a \in DOMAIN heap /\ capacity = Len(heap[a]) /\ h.len + 1 \in 1..Len(heap[a])
    BY <1>3, <1>4
  <2>2. heap' = [heap EXCEPT ![a] = row] /\ events' = [array |-> a, len |-> h.len + 1]
    BY <1>1, <1>3, <1>4
  <2>3. /\ row \in Seq(Cell) /\ Len(row) = Len(heap[a])
        /\ row[h.len + 1] = fact /\ \A i \in 1..Len(heap[a]) : i # h.len + 1 => row[i] = heap[a][i]
    BY <1>2, <1>3, <2>1
  <2> HIDE DEF row, a
  <2>4. /\ heap' \in Seq(Seq(Cell)) /\ DOMAIN heap' = DOMAIN heap
        /\ heap'[a] = row /\ \A b \in DOMAIN heap : b # a => heap'[b] = heap[b]
    BY <1>1, <2>1, <2>2, <2>3
  <2>5. ASSUME NEW g, Valid(g)
        PROVE  /\ Valid(g)'
               /\ \A i \in 1..g.len :
                    ~(g.array = a /\ i = h.len + 1) => heap'[g.array][i] = heap[g.array][i]
    <3>1. /\ g \in [array : Nat, len : Nat] /\ (g.array = 0 => g.len = 0)
          /\ g.array # 0 => g.array \in DOMAIN heap /\ g.len <= Len(heap[g.array])
          /\ g.len \in Nat
      BY <2>5 DEF Valid
    <3>2. CASE g.array = 0
      BY <3>1, <3>2 DEF Valid
    <3>3. CASE g.array = a
      BY <1>3, <2>1, <2>3, <2>4, <3>1, <3>3 DEF Valid
    <3>4. CASE g.array # 0 /\ g.array # a
      BY <1>3, <2>4, <3>1, <3>4 DEF Valid
    <3> QED
      BY <3>2, <3>3, <3>4
  <2>6. /\ events' \in [array : Nat, len : Nat]
        /\ events'.len = h.len + 1 /\ events'.array = a
    BY <1>3, <2>1, <2>2 DEF a
  <2>7. Valid(events)'
    BY <2>1, <2>3, <2>4, <2>6 DEF Valid
  <2>8. \A i \in 1..h.len : heap'[a][i] = heap[a][i]
    BY <1>3, <2>1, <2>3, <2>4
  <2> QED
    BY <2>1, <2>3, <2>4, <2>5, <2>6, <2>7, <2>8 DEF h, fact, a
<1>5. CASE h.len = capacity
  <2> DEFINE b == Len(heap) + 1
  <2>1. /\ size \in Nat /\ h.len + 1 \in 1..size /\ grown \in Seq(Cell) /\ Len(grown) = size
        /\ grown[h.len + 1] = fact /\ \A i \in 1..h.len : grown[i] = heap[h.array][i]
    <3>1. capacity \in Nat /\ size \in Nat /\ h.len + 1 <= size
      BY <1>3, <1>5
    <3>2. \A i \in 1..size : grown[i] \in Cell
      <4>1. ASSUME NEW i \in 1..size
            PROVE  (IF i <= h.len THEN heap[h.array][i] ELSE IF i = h.len + 1 THEN fact ELSE Unset)
                      \in Cell
        <5>1. CASE i <= h.len
          <6>1. h.array # 0 /\ h.array \in DOMAIN heap /\ i \in 1..Len(heap[h.array])
            BY <1>3, <3>1, <5>1
          <6> QED
            BY <1>3, <5>1, <6>1
        <5>2. CASE ~(i <= h.len)
          BY <1>2, <5>2 DEF Cell
        <5> QED
          BY <5>1, <5>2
      <4> QED
        BY <4>1
    <3>3. grown \in [1..size -> Cell]
      BY <3>2
    <3>4. grown \in Seq(Cell) /\ Len(grown) = size
      <4> HIDE DEF grown
      <4> QED
        BY <3>1, <3>3
    <3> QED
      BY <1>3, <3>1, <3>4
  <2> HIDE DEF grown
  <2>2. heap' = Append(heap, grown) /\ events' = [array |-> b, len |-> h.len + 1]
    BY <1>1, <1>5 DEF grown
  <2>3. /\ heap' \in Seq(Seq(Cell)) /\ DOMAIN heap' = 1..Len(heap) + 1
        /\ heap'[b] = grown /\ \A a \in DOMAIN heap : heap'[a] = heap[a]
    <3> DEFINE Row == Seq(Cell)
    <3>1. heap \in Seq(Row) /\ grown \in Row
      BY <1>1, <2>1
    <3> HIDE DEF Row
    <3>2. /\ Append(heap, grown) \in Seq(Row) /\ Len(Append(heap, grown)) = Len(heap) + 1
          /\ \A a \in 1..Len(heap) : Append(heap, grown)[a] = heap[a]
          /\ Append(heap, grown)[Len(heap) + 1] = grown
      BY <3>1, AppendProperties
    <3>3. heap' \in Seq(Row) /\ DOMAIN heap' = 1..Len(heap) + 1
      BY <1>3, <2>2, <3>2
    <3> QED
      BY <1>3, <2>2, <3>2, <3>3 DEF Row
  <2>4. ASSUME NEW g, Valid(g)
        PROVE  Valid(g)' /\ g.array # b /\ \A i \in 1..g.len : heap'[g.array][i] = heap[g.array][i]
    <3>1. /\ g \in [array : Nat, len : Nat] /\ (g.array = 0 => g.len = 0)
          /\ g.array # 0 => g.array \in DOMAIN heap /\ g.len <= Len(heap[g.array])
          /\ g.len \in Nat
      BY <2>4 DEF Valid
    <3>2. CASE g.array = 0
      BY <1>3, <3>1, <3>2 DEF Valid
    <3>3. CASE g.array # 0
      BY <1>3, <2>3, <3>1, <3>3 DEF Valid
    <3> QED
      BY <3>2, <3>3
  <2>5. /\ events' \in [array : Nat, len : Nat]
        /\ events'.len = h.len + 1 /\ events'.array = b /\ b # 0 /\ b \in DOMAIN heap'
    BY <1>3, <2>2, <2>3
  <2>6. Valid(events)'
    BY <2>1, <2>3, <2>5 DEF Valid
  <2> QED
    BY <2>1, <2>3, <2>4, <2>5, <2>6 DEF h, fact
<1> QED
  BY <1>1, <1>4, <1>5

\* A header is as good as before while the heap stays.
LEMMA SameHeap ==
  ASSUME UNCHANGED heap
  PROVE  \A h : Valid(h)' <=> Valid(h)
BY DEF Valid

-------------------------------------------------------------------------------
(* One call moves, the others stay *)

Moves(c) ==
  /\ PerCall'
  /\ \A d \in Call \ {c} :
       /\ pc'[d] = pc[d] /\ source'[d] = source[d] /\ next'[d] = next[d]
       /\ commands'[d] = commands[d] /\ loaded'[d] = loaded[d] /\ visited'[d] = visited[d]
       /\ emitted'[d] = emitted[d] /\ reply'[d] = reply[d]

LEMMA OthersStay ==
  ASSUME SagaInv, NEW c \in Call, Moves(c), \A h : Valid(h) => Valid(h)', NEW d \in Call, d # c
  PROVE  CallTyped(d)' /\ HeadersTyped(d)' /\ Walked(d)'
<1>1. /\ CallTyped(d) /\ HeadersTyped(d) /\ Walked(d)
      /\ pc'[d] = pc[d] /\ source'[d] = source[d] /\ next'[d] = next[d]
      /\ commands'[d] = commands[d] /\ loaded'[d] = loaded[d] /\ visited'[d] = visited[d]
      /\ emitted'[d] = emitted[d] /\ reply'[d] = reply[d]
  BY DEF SagaInv, Moves
<1>2. CallTyped(d)'
  BY <1>1 DEF CallTyped, AtHandler
<1>3. HeadersTyped(d)'
  <2>1. Valid(loaded[d])'
    <3>1. Valid(loaded[d])
      BY <1>1 DEF HeadersTyped
    <3> QED
      BY <1>1, <3>1 DEF Valid
  <2>2. CASE reply[d] \in {NoReply, ErrorReply}
    BY <1>1, <2>1, <2>2 DEF HeadersTyped
  <2>3. CASE reply[d] \notin {NoReply, ErrorReply}
    <3>1. /\ pc[d] = "done" /\ next[d] = Len(source[d]) + 1
          /\ reply[d] = OkReply(commands[d], reply[d].facts) /\ Valid(reply[d].facts)
      BY <1>1, <2>3 DEF HeadersTyped
    <3>2. Valid(reply[d].facts)'
      BY <1>1, <3>1 DEF Valid
    <3> QED
      BY <1>1, <2>1, <3>1, <3>2 DEF HeadersTyped
  <2> QED
    BY <2>2, <2>3
<1>4. Walked(d)'
  BY <1>1 DEF Walked, LastPage, AtHandler
<1> QED
  BY <1>2, <1>3, <1>4

\* So a step is right if it is right for the call that takes it.
LEMMA CallMoves ==
  ASSUME SagaInv, NEW c \in Call, Moves(c), HeapTyped', \A h : Valid(h) => Valid(h)',
         CallTyped(c)', HeadersTyped(c)', Walked(c)'
  PROVE  SagaInv'
<1>1. \A d \in Call : CallTyped(d)' /\ HeadersTyped(d)' /\ Walked(d)'
  BY OthersStay
<1> QED
  BY <1>1 DEF SagaInv, Moves

-------------------------------------------------------------------------------
(* The steps *)

LEMMA InitSaga == Init => SagaInv
<1> SUFFICES ASSUME Init PROVE SagaInv
  OBVIOUS
<1>1. HeapTyped
  BY DEF Init, HeapTyped, Valid, Nil
<1>2. PerCall
  BY DEF Init, PerCall
<1>3. ASSUME NEW c \in Call
      PROVE  CallTyped(c) /\ HeadersTyped(c) /\ Walked(c)
  <2>1. /\ pc[c] = "new" /\ source[c] = << >> /\ next[c] = 1 /\ commands[c] = << >>
        /\ loaded[c] = Nil /\ visited[c] = << >> /\ emitted[c] = << >> /\ reply[c] = NoReply
    BY <1>3 DEF Init
  <2>2. CallTyped(c)
    BY <2>1, SagaAssumption DEF CallTyped, AtHandler, Steps
  <2>3. HeadersTyped(c)
    BY <2>1 DEF HeadersTyped, Valid, Nil
  <2>4. Walked(c)
    BY <2>1, Replies DEF Walked, LastPage, AtHandler
  <2> QED
    BY <2>2, <2>3, <2>4
<1> QED
  BY <1>1, <1>2, <1>3 DEF SagaInv

\* A call without pages is answered.
LEMMA EmptyStep ==
  ASSUME SagaInv, NEW c \in Call, HandleEmpty(c)
  PROVE  SagaInv'
<1>1. PerCall /\ CallTyped(c) /\ HeadersTyped(c) /\ Walked(c) /\ HeapTyped
  BY DEF SagaInv
<1>2. /\ pc[c] = "new" /\ UNCHANGED <<heap, events, source, next, commands, loaded, visited, emitted>>
      /\ pc' = [pc EXCEPT ![c] = "done"] /\ reply' = [reply EXCEPT ![c] = OkReply(<< >>, Nil)]
  BY DEF HandleEmpty, shared
<1>3. Moves(c) /\ pc'[c] = "done" /\ reply'[c] = OkReply(<< >>, Nil)
  BY <1>1, <1>2 DEF PerCall, Moves
<1>4. /\ source[c] = << >> /\ next[c] = 1 /\ commands[c] = << >>
      /\ visited[c] = << >> /\ emitted[c] = << >>
  BY <1>1, <1>2 DEF CallTyped
<1>5. CallTyped(c)'
  BY <1>1, <1>2, <1>3, <1>4 DEF CallTyped, AtHandler, Steps
<1>6. HeadersTyped(c)'
  <2>1. Valid(loaded[c])' /\ Valid(Nil)'
    BY <1>1, <1>2, SameHeap DEF HeadersTyped, Valid, Nil
  <2>2. reply'[c].facts = Nil
    BY <1>3 DEF OkReply
  <2> QED
    BY <1>2, <1>3, <1>4, <2>1, <2>2 DEF HeadersTyped
<1>7. Walked(c)'
  BY <1>2, <1>3, <1>4, Replies DEF Walked, LastPage, AtHandler
<1>8. HeapTyped'
  BY <1>1, <1>2, SameHeap DEF HeapTyped
<1> QED
  BY <1>2, <1>3, <1>5, <1>6, <1>7, <1>8, SameHeap, CallMoves

\* A call with pages starts, and forgets what earlier calls accumulated.
LEMMA HandleStep ==
  ASSUME SagaInv, NEW c \in Call, Handle(c)
  PROVE  SagaInv'
<1>1. PerCall /\ CallTyped(c) /\ HeadersTyped(c) /\ Walked(c) /\ HeapTyped
  BY DEF SagaInv
<1>2. PICK pages \in Sources \ {<< >>} :
        /\ pc[c] = "new" /\ UNCHANGED <<heap, next, commands, loaded, visited, emitted, reply>>
        /\ pc' = [pc EXCEPT ![c] = "running"] /\ source' = [source EXCEPT ![c] = pages]
        /\ events' = Nil
  BY DEF Handle, ClearEvents
<1>3. Moves(c) /\ pc'[c] = "running" /\ source'[c] = pages
  BY <1>1, <1>2 DEF PerCall, Moves
<1>4. /\ next[c] = 1 /\ commands[c] = << >> /\ visited[c] = << >> /\ emitted[c] = << >>
      /\ reply[c] = NoReply
  BY <1>1, <1>2 DEF CallTyped
<1>5. pages \in Seq(Page) /\ Len(pages) \in Nat /\ Len(pages) <= MaxPages
  BY SagaAssumption DEF Sources, BoundedSeq, SeqOf
<1>6. CallTyped(c)'
  BY <1>2, <1>3, <1>4, <1>5, SagaAssumption DEF CallTyped, AtHandler, Steps
<1>7. HeadersTyped(c)'
  BY <1>1, <1>2, <1>4, SameHeap DEF HeadersTyped
<1>8. Walked(c)'
  BY <1>2, <1>3, <1>4, Replies DEF Walked, LastPage, AtHandler
<1>9. HeapTyped'
  BY <1>1, <1>2 DEF HeapTyped, Valid, Nil
<1> QED
  BY <1>2, <1>3, <1>6, <1>7, <1>8, <1>9, SameHeap, CallMoves

\* Between two pages all commands are for earlier ones.
LEMMA EarlierCommands ==
  ASSUME NEW c \in Call, CallTyped(c), Walked(c), LastPage(c) = next[c] - 1
  PROVE  \A i \in DOMAIN commands[c] : commands[c][i] <= next[c]
<1>1. /\ commands[c] \in Seq(1..MaxPages) /\ next[c] \in 1..Len(source[c]) + 1
      /\ Len(source[c]) \in Nat
  BY DEF CallTyped
<1>2. \A i \in DOMAIN commands[c] : commands[c][i] \in 1..MaxPages
  <2> DEFINE S == 1..MaxPages
  <2>1. commands[c] \in Seq(S)
    BY <1>1
  <2> HIDE DEF S
  <2>2. \A i \in DOMAIN commands[c] : commands[c][i] \in S
    BY <2>1
  <2> QED
    BY <2>2 DEF S
<1>3. \A i \in DOMAIN commands[c] : commands[c][i] <= next[c] - 1
  BY DEF Walked
<1> QED
  BY <1>1, <1>2, <1>3

\* A page nobody handles is passed.
LEMMA SkipStep ==
  ASSUME SagaInv, NEW c \in Call, SkipPage(c)
  PROVE  SagaInv'
<1>1. PerCall /\ CallTyped(c) /\ HeadersTyped(c) /\ Walked(c) /\ HeapTyped
  BY DEF SagaInv
<1>2. /\ pc[c] = "running" /\ next[c] <= Len(source[c]) /\ source[c][next[c]] \notin Handled
      /\ UNCHANGED <<heap, events, pc, source, commands, loaded, visited, emitted, reply>>
      /\ next' = [next EXCEPT ![c] = @ + 1]
  BY DEF SkipPage, AtPage, shared
<1>3. Moves(c) /\ next'[c] = next[c] + 1
  BY <1>1, <1>2 DEF PerCall, Moves
<1>4. next[c] \in 1..Len(source[c]) + 1 /\ Len(source[c]) \in Nat
  BY <1>1 DEF CallTyped
<1>5. CallTyped(c)'
  <2>1. next'[c] \in 1..Len(source[c]) + 1
    BY <1>2, <1>3, <1>4
  <2> QED
    BY <1>1, <1>2, <2>1 DEF CallTyped, AtHandler
<1>6. HeadersTyped(c)'
  BY <1>1, <1>2, SameHeap DEF HeadersTyped
<1>7. Walked(c)'
  <2>1. LastPage(c) = next[c] - 1 /\ LastPage(c)' = next[c]
    BY <1>1, <1>2, <1>3, <1>4, Replies DEF LastPage, AtHandler, CallTyped
  <2>2. \A i \in 1..next[c] : i \in 1..next[c] - 1 \/ i = next[c]
    BY <1>4
  <2>3. \A k \in DOMAIN visited[c] : visited[c][k] \in 1..next[c]
    BY <1>1, <1>4, <2>1 DEF Walked
  <2>4. \A i \in DOMAIN commands[c] : commands[c][i] <= next[c]
    BY <1>1, <2>1, EarlierCommands
  <2> QED
    BY <1>1, <1>2, <2>1, <2>2, <2>3, <2>4 DEF Walked
<1>8. HeapTyped'
  BY <1>1, <1>2, SameHeap DEF HeapTyped
<1> QED
  BY <1>2, <1>3, <1>5, <1>6, <1>7, <1>8, SameHeap, CallMoves

\* A handler is called for its page.
LEMMA CallStep ==
  ASSUME SagaInv, NEW c \in Call, CallHandler(c)
  PROVE  SagaInv'
<1>1. PerCall /\ CallTyped(c) /\ HeadersTyped(c) /\ Walked(c) /\ HeapTyped
  BY DEF SagaInv
<1>2. /\ pc[c] = "running" /\ next[c] <= Len(source[c]) /\ source[c][next[c]] \in Handled
      /\ UNCHANGED <<heap, events, source, next, commands, loaded, emitted, reply>>
      /\ pc' = [pc EXCEPT ![c] = "handling"]
      /\ visited' = [visited EXCEPT ![c] = Append(@, next[c])]
  BY DEF CallHandler, AtPage, shared
<1>3. Moves(c) /\ pc'[c] = "handling" /\ visited'[c] = Append(visited[c], next[c])
  BY <1>1, <1>2 DEF PerCall, Moves
<1>4. /\ next[c] \in 1..Len(source[c]) /\ Len(source[c]) \in Nat /\ next[c] \in 1..MaxPages
      /\ visited[c] \in Seq(1..MaxPages)
  BY <1>1, <1>2, SagaAssumption DEF CallTyped
<1>5. /\ visited'[c] \in Seq(1..MaxPages) /\ Len(visited[c]) \in Nat
      /\ DOMAIN visited[c] = 1..Len(visited[c]) /\ DOMAIN visited'[c] = 1..Len(visited[c]) + 1
      /\ \A k \in DOMAIN visited[c] : visited'[c][k] = visited[c][k]
      /\ visited'[c][Len(visited[c]) + 1] = next[c]
  BY <1>3, <1>4, AppendProperties
<1>6. CallTyped(c)'
  BY <1>1, <1>2, <1>3, <1>4, <1>5 DEF CallTyped, AtHandler, Steps
<1>7. HeadersTyped(c)'
  BY <1>1, <1>2, SameHeap DEF HeadersTyped
<1>8. Walked(c)'
  <2>1. LastPage(c) = next[c] - 1 /\ LastPage(c)' = next[c]
    BY <1>1, <1>2, <1>3, <1>4, Replies DEF LastPage, AtHandler, CallTyped
  <2>2. \A k \in DOMAIN visited[c] : /\ visited[c][k] \in 1..next[c] - 1
                                     /\ source[c][visited[c][k]] \in Handled
    BY <1>1, <2>1 DEF Walked
  <2>3. \A k, l \in DOMAIN visited'[c] : k < l => visited'[c][k] < visited'[c][l]
    <3>1. SUFFICES ASSUME NEW k \in DOMAIN visited'[c], NEW l \in DOMAIN visited'[c], k < l
                   PROVE  visited'[c][k] < visited'[c][l]
      OBVIOUS
    <3>2. k \in DOMAIN visited[c]
      BY <1>5, <3>1
    <3>3. CASE l \in DOMAIN visited[c]
      BY <1>1, <1>5, <3>1, <3>2, <3>3 DEF Walked
    <3>4. CASE l = Len(visited[c]) + 1
      BY <1>4, <1>5, <2>2, <3>2, <3>4
    <3> QED
      BY <1>5, <3>3, <3>4
  <2>4. \A k \in DOMAIN visited'[c] : /\ visited'[c][k] \in 1..next[c]
                                      /\ source[c][visited'[c][k]] \in Handled
    <3>1. ASSUME NEW k \in DOMAIN visited'[c]
          PROVE  visited'[c][k] \in 1..next[c] /\ source[c][visited'[c][k]] \in Handled
      <4>1. CASE k \in DOMAIN visited[c]
        BY <1>4, <1>5, <2>2, <4>1
      <4>2. CASE k = Len(visited[c]) + 1
        BY <1>2, <1>4, <1>5, <4>2
      <4> QED
        BY <1>5, <4>1, <4>2
    <3> QED
      BY <3>1
  <2>5. \A i \in 1..next[c] :
          source[c][i] \in Handled => \E k \in DOMAIN visited'[c] : visited'[c][k] = i
    <3>1. ASSUME NEW i \in 1..next[c], source[c][i] \in Handled
          PROVE  \E k \in DOMAIN visited'[c] : visited'[c][k] = i
      <4>1. CASE i = next[c]
        BY <1>5, <4>1
      <4>2. CASE i # next[c]
        <5>1. i \in 1..LastPage(c)
          BY <1>4, <2>1, <4>2
        <5>2. PICK k \in DOMAIN visited[c] : visited[c][k] = i
          BY <1>1, <3>1, <5>1 DEF Walked
        <5> QED
          BY <1>5, <5>2
      <4> QED
        BY <4>1, <4>2
    <3> QED
      BY <3>1
  <2>6. \A i \in DOMAIN commands[c] : commands[c][i] <= next[c]
    BY <1>1, <2>1, EarlierCommands
  <2> QED
    BY <1>1, <1>2, <2>1, <2>3, <2>4, <2>5, <2>6 DEF Walked
<1>9. HeapTyped'
  BY <1>1, <1>2, SameHeap DEF HeapTyped
<1> QED
  BY <1>2, <1>3, <1>6, <1>7, <1>8, <1>9, SameHeap, CallMoves

\* A handler emits a fact: append loads the header.
LEMMA EmitStep ==
  ASSUME SagaInv, NEW c \in Call, EmitFact(c)
  PROVE  SagaInv'
<1>1. PerCall /\ CallTyped(c) /\ HeadersTyped(c) /\ Walked(c) /\ HeapTyped
  BY DEF SagaInv
<1>2. /\ pc[c] = "handling" /\ Len(emitted[c]) < MaxFacts
      /\ UNCHANGED <<heap, events, source, next, commands, visited, reply>>
      /\ pc' = [pc EXCEPT ![c] = "appending"] /\ loaded' = [loaded EXCEPT ![c] = events]
      /\ emitted' = [emitted EXCEPT ![c] = Append(@, <<c, Len(@) + 1>>)]
  BY DEF EmitFact, shared
<1>3. /\ Moves(c) /\ pc'[c] = "appending" /\ loaded'[c] = events
      /\ emitted'[c] = Append(emitted[c], <<c, Len(emitted[c]) + 1>>)
  BY <1>1, <1>2 DEF PerCall, Moves
<1>4. CallTyped(c)'
  <2>1. emitted[c] \in Seq(Fact) /\ Len(emitted[c]) \in Nat
    BY <1>1 DEF CallTyped
  <2>2. <<c, Len(emitted[c]) + 1>> \in Fact
    BY <1>2, <2>1, SagaAssumption DEF Fact
  <2>3. /\ emitted'[c] \in Seq(Fact) /\ Len(emitted'[c]) = Len(emitted[c]) + 1
    BY <1>3, <2>1, <2>2, AppendProperties
  <2>4. emitted'[c] # << >> /\ Len(emitted'[c]) <= MaxFacts
    BY <1>2, <2>1, <2>3, SagaAssumption
  <2> QED
    BY <1>1, <1>2, <1>3, <2>3, <2>4 DEF CallTyped, AtHandler, Steps
<1>5. HeadersTyped(c)'
  <2>1. Valid(events)'
    BY <1>1, <1>2, SameHeap DEF HeapTyped
  <2>2. Valid(loaded[c])'
    BY <1>2, <1>3, <2>1 DEF Valid
  <2>3. reply'[c] \in {NoReply, ErrorReply}
    BY <1>1, <1>2 DEF HeadersTyped
  <2> QED
    BY <2>2, <2>3 DEF HeadersTyped
<1>6. Walked(c)'
  BY <1>1, <1>2, <1>3 DEF Walked, LastPage, AtHandler
<1>7. HeapTyped'
  BY <1>1, <1>2, SameHeap DEF HeapTyped
<1> QED
  BY <1>2, <1>3, <1>4, <1>5, <1>6, <1>7, SameHeap, CallMoves

\* append stores it.
LEMMA StoreStep ==
  ASSUME SagaInv, NEW c \in Call, StoreFact(c)
  PROVE  SagaInv'
<1>1. PerCall /\ CallTyped(c) /\ HeadersTyped(c) /\ Walked(c)
  BY DEF SagaInv
<1>2. /\ pc[c] = "appending" /\ pc' = [pc EXCEPT ![c] = "handling"]
      /\ UNCHANGED <<source, next, commands, loaded, visited, emitted, reply>>
  BY DEF StoreFact
<1>3. Moves(c) /\ pc'[c] = "handling"
  BY <1>1, <1>2 DEF PerCall, Moves
<1>4. HeapTyped' /\ \A g : Valid(g) => Valid(g)'
  BY StoreShape DEF HeapTyped
<1>5. CallTyped(c)'
  BY <1>1, <1>2, <1>3 DEF CallTyped, AtHandler, Steps
<1>6. HeadersTyped(c)'
  BY <1>1, <1>2, <1>4 DEF HeadersTyped, Valid
<1>7. Walked(c)'
  BY <1>1, <1>2, <1>3 DEF Walked, LastPage, AtHandler
<1> QED
  BY <1>3, <1>4, <1>5, <1>6, <1>7, CallMoves

\* A handler returns commands for its page.
LEMMA ReturnsStep ==
  ASSUME SagaInv, NEW c \in Call, HandlerReturns(c)
  PROVE  SagaInv'
<1>1. PerCall /\ CallTyped(c) /\ HeadersTyped(c) /\ Walked(c) /\ HeapTyped
  BY DEF SagaInv
<1>2. PICK n \in 0..2 :
        /\ pc[c] = "handling" /\ pc' = [pc EXCEPT ![c] = "running"]
        /\ UNCHANGED <<heap, events, source, loaded, visited, emitted, reply>>
        /\ next' = [next EXCEPT ![c] = @ + 1]
        /\ commands' = [commands EXCEPT ![c] = @ \o [i \in 1..n |-> next[c]]]
  BY DEF HandlerReturns, shared
<1> DEFINE more == [i \in 1..n |-> next[c]]
<1>3. /\ Moves(c) /\ pc'[c] = "running" /\ next'[c] = next[c] + 1
      /\ commands'[c] = commands[c] \o more
  BY <1>1, <1>2 DEF PerCall, Moves
<1>4. /\ next[c] \in 1..Len(source[c]) /\ next[c] \in 1..MaxPages /\ Len(source[c]) \in Nat
      /\ commands[c] \in Seq(1..MaxPages)
  BY <1>1, <1>2, SagaAssumption DEF CallTyped, AtHandler
<1>5. /\ more \in Seq(1..MaxPages) /\ Len(more) = n /\ \A i \in 1..n : more[i] = next[c]
      /\ Len(commands[c]) \in Nat /\ n \in Nat
  BY <1>4
<1> HIDE DEF more
<1>6. /\ commands'[c] \in Seq(1..MaxPages)
      /\ DOMAIN commands'[c] = 1..Len(commands[c]) + n
      /\ DOMAIN commands[c] = 1..Len(commands[c])
      /\ \A i \in 1..Len(commands[c]) : commands'[c][i] = commands[c][i]
      /\ \A i \in DOMAIN commands'[c] : i > Len(commands[c]) => commands'[c][i] = next[c]
  <2>1. /\ commands'[c] \in Seq(1..MaxPages) /\ Len(commands'[c]) = Len(commands[c]) + n
        /\ \A i \in 1..Len(commands[c]) + n :
             commands'[c][i] = IF i <= Len(commands[c]) THEN commands[c][i]
                                                        ELSE more[i - Len(commands[c])]
    BY <1>3, <1>4, <1>5, ConcatProperties
  <2> DEFINE S == 1..MaxPages
  <2>2. commands'[c] \in Seq(S) /\ commands[c] \in Seq(S)
    BY <1>4, <2>1
  <2> HIDE DEF S
  <2>3. /\ DOMAIN commands'[c] = 1..Len(commands'[c])
        /\ DOMAIN commands[c] = 1..Len(commands[c])
    BY <2>2
  <2>4. \A i \in 1..Len(commands[c]) : i \in 1..Len(commands[c]) + n /\ i <= Len(commands[c])
    BY <1>5
  <2>5. ASSUME NEW i \in DOMAIN commands'[c], i > Len(commands[c])
        PROVE  commands'[c][i] = next[c]
    <3>1. i - Len(commands[c]) \in 1..n /\ i \in 1..Len(commands[c]) + n
      BY <1>5, <2>1, <2>3, <2>5
    <3>2. commands'[c][i] = more[i - Len(commands[c])]
      BY <1>5, <2>1, <2>5, <3>1
    <3> QED
      BY <1>5, <3>1, <3>2
  <2> QED
    BY <2>1, <2>3, <2>4, <2>5
<1>7. CallTyped(c)'
  <2>1. next'[c] \in 1..Len(source[c]) + 1
    BY <1>3, <1>4
  <2> QED
    BY <1>1, <1>2, <1>3, <1>6, <2>1 DEF CallTyped, AtHandler, Steps
<1>8. HeadersTyped(c)'
  BY <1>1, <1>2, SameHeap DEF HeadersTyped
<1>9. Walked(c)'
  <2>1. LastPage(c) = next[c] /\ LastPage(c)' = next[c]
    BY <1>1, <1>2, <1>3, <1>4, Replies DEF LastPage, AtHandler, CallTyped
  <2>2. \A i \in DOMAIN commands[c] : commands[c][i] <= next[c]
    BY <1>1, <2>1 DEF Walked
  <2>3. \A i \in DOMAIN commands'[c] : commands'[c][i] <= next[c]
    BY <1>4, <1>5, <1>6, <2>2, SMTT(30)
  <2>4. \A i, j \in DOMAIN commands'[c] : i < j => commands'[c][i] <= commands'[c][j]
    <3>1. SUFFICES ASSUME NEW i \in DOMAIN commands'[c], NEW j \in DOMAIN commands'[c], i < j
                   PROVE  commands'[c][i] <= commands'[c][j]
      OBVIOUS
    <3>2. CASE j > Len(commands[c])
      BY <1>6, <2>3, <3>2
    <3>3. CASE j <= Len(commands[c])
      <4>1. i \in DOMAIN commands[c] /\ j \in DOMAIN commands[c]
        BY <1>5, <1>6, <3>1, <3>3
      <4> QED
        BY <1>1, <1>6, <3>1, <4>1 DEF Walked
    <3> QED
      BY <1>5, <1>6, <3>2, <3>3
  <2> QED
    BY <1>1, <1>2, <2>1, <2>3, <2>4 DEF Walked
<1>10. HeapTyped'
  BY <1>1, <1>2, SameHeap DEF HeapTyped
<1> QED
  BY <1>2, <1>3, <1>7, <1>8, <1>9, <1>10, SameHeap, CallMoves

\* A handler fails: the call ends with an error.
LEMMA FailsStep ==
  ASSUME SagaInv, NEW c \in Call, HandlerFails(c)
  PROVE  SagaInv'
<1>1. PerCall /\ CallTyped(c) /\ HeadersTyped(c) /\ Walked(c) /\ HeapTyped
  BY DEF SagaInv
<1>2. /\ pc[c] = "handling" /\ pc' = [pc EXCEPT ![c] = "done"]
      /\ reply' = [reply EXCEPT ![c] = ErrorReply]
      /\ UNCHANGED <<heap, events, source, next, commands, loaded, visited, emitted>>
  BY DEF HandlerFails, shared
<1>3. Moves(c) /\ pc'[c] = "done" /\ reply'[c] = ErrorReply
  BY <1>1, <1>2 DEF PerCall, Moves
<1>4. CallTyped(c)'
  BY <1>1, <1>2, <1>3 DEF CallTyped, AtHandler, Steps
<1>5. HeadersTyped(c)'
  BY <1>1, <1>2, <1>3, SameHeap DEF HeadersTyped
<1>6. Walked(c)'
  <2>1. LastPage(c) = next[c] /\ LastPage(c)' = next[c]
    BY <1>2, <1>3 DEF LastPage, AtHandler
  <2> QED
    BY <1>1, <1>2, <2>1 DEF Walked
<1>7. HeapTyped'
  BY <1>1, <1>2, SameHeap DEF HeapTyped
<1> QED
  BY <1>2, <1>3, <1>4, <1>5, <1>6, <1>7, SameHeap, CallMoves

\* The response of a call at the end of its book.
LEMMA ReturnStep ==
  ASSUME SagaInv, NEW c \in Call, Return(c)
  PROVE  SagaInv'
<1>1. PerCall /\ CallTyped(c) /\ HeadersTyped(c) /\ Walked(c) /\ HeapTyped
  BY DEF SagaInv
<1>2. /\ pc[c] = "running" /\ next[c] > Len(source[c]) /\ pc' = [pc EXCEPT ![c] = "done"]
      /\ reply' = [reply EXCEPT ![c] = OkReply(commands[c], events)]
      /\ UNCHANGED <<heap, events, source, next, commands, loaded, visited, emitted>>
  BY DEF Return, shared
<1>3. Moves(c) /\ pc'[c] = "done" /\ reply'[c] = OkReply(commands[c], events)
  BY <1>1, <1>2 DEF PerCall, Moves
<1>4. CallTyped(c)'
  BY <1>1, <1>2, <1>3 DEF CallTyped, AtHandler, Steps
<1>5. HeadersTyped(c)'
  <2>1. Valid(loaded[c])' /\ Valid(events)'
    BY <1>1, <1>2, SameHeap DEF HeadersTyped, HeapTyped, Valid
  <2>2. reply'[c].facts = events
    BY <1>3 DEF OkReply
  <2>3. next[c] = Len(source[c]) + 1
    <3>1. next[c] \in 1..Len(source[c]) + 1 /\ Len(source[c]) \in Nat
      BY <1>1 DEF CallTyped
    <3> QED
      BY <1>2, <3>1
  <2>4. Valid(reply[c].facts)'
    BY <1>2, <2>1, <2>2 DEF Valid
  <2> QED
    BY <1>2, <1>3, <2>1, <2>2, <2>3, <2>4 DEF HeadersTyped
<1>6. Walked(c)'
  <2>1. LastPage(c)' = LastPage(c)
    BY <1>1, <1>2, <1>3, Replies DEF LastPage, AtHandler, CallTyped
  <2> QED
    BY <1>1, <1>2, <2>1 DEF Walked
<1>7. HeapTyped'
  BY <1>1, <1>2, SameHeap DEF HeapTyped
<1> QED
  BY <1>2, <1>3, <1>4, <1>5, <1>6, <1>7, SameHeap, CallMoves

LEMMA SagaStep == SagaInv /\ [Next]_vars => SagaInv'
<1> SUFFICES ASSUME SagaInv, [Next]_vars PROVE SagaInv'
  OBVIOUS
<1>1. CASE UNCHANGED vars
  <2>1. UNCHANGED <<heap, events, pc, source, next, commands, loaded, visited, emitted, reply>>
    BY <1>1 DEF vars
  <2>2. HeapTyped' /\ PerCall'
    BY <2>1, SameHeap DEF SagaInv, HeapTyped, PerCall
  <2>3. \A c \in Call : CallTyped(c)' /\ HeadersTyped(c)' /\ Walked(c)'
    BY <2>1, SameHeap DEF SagaInv, CallTyped, HeadersTyped, Walked, LastPage, AtHandler
  <2> QED
    BY <2>2, <2>3 DEF SagaInv
<1> QED
  BY <1>1, EmptyStep, HandleStep, SkipStep, CallStep, EmitStep, StoreStep, ReturnsStep,
     FailsStep, ReturnStep DEF Next

LEMMA AlwaysSaga == Spec => []SagaInv
BY InitSaga, SagaStep, PTL DEF Spec

\* The state of a saga and of its calls keeps its types.
THEOREM SagaTypeCorrect == Spec => []TypeOK
<1>1. SagaInv => TypeOK
  <2> SUFFICES ASSUME SagaInv PROVE TypeOK
    OBVIOUS
  <2>1. /\ heap \in Seq(Seq(Cell)) /\ Len(heap) \in Nat /\ DOMAIN heap = 1..Len(heap)
    BY DEF SagaInv, HeapTyped
  <2>2. \A i \in DOMAIN heap : heap[i] \in Seq(Cell)
    BY <2>1
  <2>3. \A i \in DOMAIN heap : \A j \in DOMAIN heap[i] : heap[i][j] \in Cell
    BY <2>2
  <2>4. ASSUME NEW h, Valid(h)
        PROVE  h \in Header
    BY <2>1, <2>4 DEF Valid, Header
  <2>5. ASSUME NEW S, NEW n \in Nat, NEW s \in Seq(S), Len(s) <= n
        PROVE  s \in BoundedSeq(S, n)
    <3>1. Len(s) \in 0..n /\ s \in [1..Len(s) -> S]
      BY <2>5
    <3> QED
      BY <3>1 DEF BoundedSeq, SeqOf
  <2>6. ASSUME NEW c \in Call
        PROVE  /\ pc[c] \in Steps /\ source[c] \in Sources /\ next[c] \in 1..MaxPages + 1
               /\ loaded[c] \in Header
               /\ commands[c] \in Seq(1..MaxPages) /\ visited[c] \in Seq(1..MaxPages)
               /\ emitted[c] \in BoundedSeq(Fact, MaxFacts)
               /\ reply[c] \in {NoReply, ErrorReply} \/ reply[c].facts \in Header
    <3>1. CallTyped(c) /\ HeadersTyped(c)
      BY DEF SagaInv
    <3>2. source[c] \in Sources /\ emitted[c] \in BoundedSeq(Fact, MaxFacts)
      BY <2>5, <3>1, SagaAssumption DEF CallTyped, Sources
    <3>3. next[c] \in 1..MaxPages + 1
      BY <3>1, SagaAssumption DEF CallTyped
    <3> QED
      BY <2>4, <3>1, <3>2, <3>3 DEF CallTyped, HeadersTyped
  <2>7. /\ pc \in [Call -> Steps] /\ source \in [Call -> Sources]
        /\ next \in [Call -> 1..MaxPages + 1] /\ loaded \in [Call -> Header]
    BY <2>6 DEF SagaInv, PerCall
  <2> QED
    BY <2>3, <2>4, <2>6, <2>7 DEF TypeOK, SagaInv, HeapTyped, Cell
<1> QED
  BY <1>1, AlwaysSaga, PTL

\* Under every interleaving a response answers for its whole source book.
THEOREM SourceCovered == Spec => []ResponseCoversSource
<1>1. SagaInv => ResponseCoversSource
  <2> SUFFICES ASSUME SagaInv, NEW c \in Call, Succeeded(c)
               PROVE  /\ {visited[c][k] : k \in DOMAIN visited[c]}
                           = {i \in DOMAIN source[c] : source[c][i] \in Handled}
                      /\ \A k, l \in DOMAIN visited[c] : k < l => visited[c][k] < visited[c][l]
                      /\ \A i, j \in DOMAIN reply[c].commands :
                           i < j => reply[c].commands[i] <= reply[c].commands[j]
    BY DEF ResponseCoversSource
  <2>1. CallTyped(c) /\ HeadersTyped(c) /\ Walked(c)
    BY DEF SagaInv
  <2>2. reply[c] \notin {NoReply, ErrorReply}
    BY DEF Succeeded, NoReply, ErrorReply
  <2>3. /\ pc[c] = "done" /\ next[c] = Len(source[c]) + 1
        /\ reply[c] = OkReply(commands[c], reply[c].facts)
    BY <2>1, <2>2 DEF HeadersTyped
  <2>4. reply[c].commands = commands[c]
    BY <2>3 DEF OkReply
  <2>5. LastPage(c) = Len(source[c]) /\ DOMAIN source[c] = 1..Len(source[c])
    BY <2>1, <2>2, <2>3 DEF LastPage, AtHandler, CallTyped
  <2> QED
    BY <2>1, <2>4, <2>5 DEF Walked
<1> QED
  BY <1>1, AlwaysSaga, PTL

-------------------------------------------------------------------------------
(* Whose facts a response carries, if calls do not overlap *)

\* Through the header h one sees the facts s.
Shows(h, s) == Len(s) = h.len /\ \A i \in 1..h.len : s[i] = heap[h.array][i]

OneActive == \A c, d \in Active : c = d

(***************************************************************************)
(* While a call is active s.events shows the facts it has emitted, but for *)
(* the one append is about to store.  A response shows those of its call,  *)
(* and s.events never ends before a response that shares its array: what   *)
(* is appended goes behind it.                                             *)
(***************************************************************************)
FactsFor(c) ==
  /\ pc[c] \in {"running", "handling"} => Shows(events, emitted[c])
  /\ pc[c] = "appending" =>
       /\ loaded[c] = events /\ Len(emitted[c]) = events.len + 1
       /\ \A i \in 1..events.len : emitted[c][i] = heap[events.array][i]
  /\ Succeeded(c) =>
       /\ Shows(reply[c].facts, emitted[c])
       /\ reply[c].facts.array = events.array /\ events.array # 0
            => reply[c].facts.len <= events.len

FactsInv == OneActive /\ \A c \in Call : FactsFor(c)

\* What is visible through a header is a sequence of its length.
LEMMA ShownElements ==
  ASSUME SagaInv, NEW h, Valid(h), NEW s \in Seq(Fact), Shows(h, s)
  PROVE  Elements(h) = s
<1>1. /\ h.array \in Nat /\ h.len \in Nat /\ (h.array = 0 => h.len = 0)
      /\ h.array # 0 => h.array \in DOMAIN heap /\ h.len <= Len(heap[h.array])
      /\ heap \in Seq(Seq(Cell)) /\ Len(s) = h.len /\ DOMAIN s = 1..h.len
  BY DEF Valid, Shows, SagaInv, HeapTyped
<1>2. CASE h.array = 0
  BY <1>1, <1>2 DEF Elements
<1>3. CASE h.array # 0
  <2> DEFINE row == heap[h.array]
  <2>1. row \in Seq(Cell) /\ Len(row) \in Nat /\ h.len <= Len(row)
    BY <1>1, <1>3
  <2>2. \A i \in 1..h.len : s[i] = row[i]
    BY DEF Shows
  <2> HIDE DEF row
  <2>3. SubSeq(row, 1, h.len) = [i \in 1..h.len |-> row[i]]
    BY <1>1, <2>1
  <2>4. s = [i \in 1..h.len |-> s[i]]
    BY <1>1
  <2>5. SubSeq(row, 1, h.len) = s
    BY <2>2, <2>3, <2>4
  <2> QED
    BY <1>3, <2>5 DEF Elements, row
<1> QED
  BY <1>2, <1>3

\* Calls become active one at a time.
LEMMA ActiveMoves ==
  ASSUME Serialised, SagaInv, FactsInv, NEW c \in Call,
         \A d \in Call \ {c} : pc'[d] = pc[d],
         (pc[c] = "new" /\ Active = {}) \/ c \in Active
  PROVE  OneActive' /\ \A d \in Call \ {c} : pc[d] \in {"new", "done"}
<1>1. \A d \in Call \ {c} : d \notin Active
  BY DEF FactsInv, OneActive
<1>2. \A d \in Call \ {c} : pc[d] \in {"new", "done"} /\ d \notin Active'
  BY <1>1 DEF Active
<1>3. OneActive'
  BY <1>2 DEF OneActive, Active
<1> QED
  BY <1>2, <1>3

\* Steps that touch neither s.events nor facts.
LEMMA QuietStep ==
  ASSUME Serialised, SagaInv, FactsInv, NEW c \in Call,
         SkipPage(c) \/ CallHandler(c) \/ HandlerReturns(c) \/ HandlerFails(c)
  PROVE  FactsInv'
<1>1. /\ pc[c] \in {"running", "handling"} /\ PerCall
      /\ UNCHANGED <<heap, events, loaded, emitted>>
  BY DEF SkipPage, CallHandler, HandlerReturns, HandlerFails, AtPage, shared, SagaInv
<1>2. /\ pc'[c] \in {"running", "handling", "done"} /\ \A d \in Call \ {c} : pc'[d] = pc[d]
      /\ \A d \in Call : reply'[d] = reply[d] \/ reply'[d] = ErrorReply
  <2>1. CASE SkipPage(c)
    BY <1>1, <2>1 DEF SkipPage
  <2>2. CASE CallHandler(c)
    BY <1>1, <2>2 DEF CallHandler, PerCall
  <2>3. CASE HandlerReturns(c)
    BY <1>1, <2>3 DEF HandlerReturns, PerCall
  <2>4. CASE HandlerFails(c)
    BY <1>1, <2>4 DEF HandlerFails, PerCall
  <2> QED
    BY <2>1, <2>2, <2>3, <2>4
<1>3. OneActive'
  BY <1>1, <1>2, ActiveMoves DEF Active
<1>4. ASSUME NEW d \in Call
      PROVE  FactsFor(d)'
  <2>1. FactsFor(d) /\ FactsFor(c)
    BY DEF FactsInv
  <2>2. Succeeded(d)' => Succeeded(d) /\ reply'[d] = reply[d]
    BY <1>2 DEF Succeeded, ErrorReply
  <2>3. pc'[d] \in {"running", "handling"} => pc[d] \in {"running", "handling"}
    BY <1>1, <1>2
  <2>4. pc'[d] = "appending" => pc[d] = "appending"
    BY <1>2
  <2> QED
    BY <1>1, <2>1, <2>2, <2>3, <2>4 DEF FactsFor, Shows
<1> QED
  BY <1>3, <1>4 DEF FactsInv

\* A call starts with no facts; one without pages ends with none.
LEMMA StartStep ==
  ASSUME Serialised, SagaInv, FactsInv, NEW c \in Call, HandleEmpty(c) \/ Handle(c)
  PROVE  FactsInv'
<1>1. /\ pc[c] = "new" /\ Active = {} /\ PerCall
      /\ UNCHANGED <<heap, loaded, emitted>>
  BY DEF HandleEmpty, Handle, shared, SagaInv
<1>2. /\ \A d \in Call \ {c} : pc'[d] = pc[d] /\ reply'[d] = reply[d]
      /\ \/ pc'[c] = "done" /\ reply'[c] = OkReply(<< >>, Nil) /\ events' = events
         \/ pc'[c] = "running" /\ reply'[c] = reply[c] /\ events' = Nil
  <2>1. CASE HandleEmpty(c)
    BY <1>1, <2>1 DEF HandleEmpty, PerCall, shared
  <2>2. CASE Handle(c)
    BY <1>1, <2>2 DEF Handle, ClearEvents, PerCall
  <2> QED
    BY <2>1, <2>2
<1>3. OneActive' /\ \A d \in Call \ {c} : pc[d] \in {"new", "done"}
  BY <1>1, <1>2, ActiveMoves
<1>4. emitted[c] = << >> /\ reply[c] = NoReply
  BY <1>1 DEF SagaInv, CallTyped
<1>5. ASSUME NEW d \in Call, d # c
      PROVE  FactsFor(d)'
  <2>1. FactsFor(d)
    BY DEF FactsInv
  <2>2. pc'[d] \in {"new", "done"} /\ reply'[d] = reply[d] /\ (Succeeded(d)' <=> Succeeded(d))
    BY <1>2, <1>3, <1>5 DEF Succeeded
  <2>3. events' = events \/ events'.array = 0
    BY <1>2 DEF Nil
  <2> QED
    BY <1>1, <2>1, <2>2, <2>3 DEF FactsFor, Shows
<1>6. FactsFor(c)'
  <2>1. CASE pc'[c] = "done" /\ reply'[c] = OkReply(<< >>, Nil) /\ events' = events
    <3>1. reply'[c].facts = Nil
      BY <2>1 DEF OkReply
    <3> QED
      BY <1>1, <1>4, <2>1, <3>1 DEF FactsFor, Shows, Nil
  <2>2. CASE pc'[c] = "running" /\ reply'[c] = reply[c] /\ events' = Nil
    <3>1. ~Succeeded(c)'
      BY <1>4, <2>2 DEF Succeeded, NoReply
    <3> QED
      BY <1>1, <1>4, <2>2, <3>1 DEF FactsFor, Shows, Nil
  <2> QED
    BY <1>2, <2>1, <2>2
<1> QED
  BY <1>3, <1>5, <1>6 DEF FactsInv

\* append loads the header nobody else can change before it stores the fact.
LEMMA LoadStep ==
  ASSUME Serialised, SagaInv, FactsInv, NEW c \in Call, EmitFact(c)
  PROVE  FactsInv'
<1>1. /\ pc[c] = "handling" /\ PerCall /\ UNCHANGED <<heap, events, reply>>
      /\ pc' = [pc EXCEPT ![c] = "appending"] /\ loaded' = [loaded EXCEPT ![c] = events]
      /\ emitted' = [emitted EXCEPT ![c] = Append(@, <<c, Len(@) + 1>>)]
  BY DEF EmitFact, shared, SagaInv
<1>2. /\ pc'[c] = "appending" /\ loaded'[c] = events
      /\ emitted'[c] = Append(emitted[c], <<c, Len(emitted[c]) + 1>>)
      /\ \A d \in Call \ {c} : pc'[d] = pc[d] /\ emitted'[d] = emitted[d]
  BY <1>1 DEF PerCall
<1>3. OneActive' /\ \A d \in Call \ {c} : pc[d] \in {"new", "done"}
  BY <1>1, <1>2, ActiveMoves DEF Active
<1>4. ASSUME NEW d \in Call, d # c
      PROVE  FactsFor(d)'
  <2>1. FactsFor(d)
    BY DEF FactsInv
  <2>2. pc'[d] \in {"new", "done"} /\ emitted'[d] = emitted[d] /\ (Succeeded(d)' <=> Succeeded(d))
    BY <1>1, <1>2, <1>3, <1>4 DEF Succeeded
  <2> QED
    BY <1>1, <2>1, <2>2 DEF FactsFor, Shows
<1>5. FactsFor(c)'
  <2>1. Shows(events, emitted[c])
    BY <1>1 DEF FactsInv, FactsFor
  <2>2. emitted[c] \in Seq(Fact) /\ reply[c] = NoReply
    BY <1>1 DEF SagaInv, CallTyped
  <2>3. ~Succeeded(c)'
    BY <1>1, <2>2 DEF Succeeded, NoReply
  <2>4. /\ Len(emitted'[c]) = Len(emitted[c]) + 1
        /\ \A i \in 1..Len(emitted[c]) : emitted'[c][i] = emitted[c][i]
    BY <1>2, <2>2
  <2> QED
    BY <1>1, <1>2, <2>1, <2>3, <2>4 DEF FactsFor, Shows
<1> QED
  BY <1>3, <1>4, <1>5 DEF FactsInv

\* The fact goes behind everything a response shows.
LEMMA KeepStep ==
  ASSUME Serialised, SagaInv, FactsInv, NEW c \in Call, StoreFact(c)
  PROVE  FactsInv'
<1> DEFINE h == loaded[c]
<1>1. /\ pc[c] = "appending" /\ PerCall /\ pc' = [pc EXCEPT ![c] = "handling"]
      /\ UNCHANGED <<loaded, emitted, reply>>
  BY DEF StoreFact, SagaInv
<1>2. pc'[c] = "handling" /\ \A d \in Call \ {c} : pc'[d] = pc[d]
  BY <1>1 DEF PerCall
<1>3. OneActive' /\ \A d \in Call \ {c} : pc[d] \in {"new", "done"}
  BY <1>1, <1>2, ActiveMoves DEF Active
<1>4. /\ h = events /\ Len(emitted[c]) = events.len + 1 /\ Valid(events)
      /\ \A i \in 1..events.len : emitted[c][i] = heap[events.array][i]
      /\ events.len \in Nat
  BY <1>1 DEF FactsInv, FactsFor, SagaInv, HeapTyped, Valid
<1>5. /\ events'.len = events.len + 1
      /\ \A i \in 1..events.len : heap'[events'.array][i] = heap[events.array][i]
      /\ heap'[events'.array][events.len + 1] = Last(emitted[c])
      /\ \A g : Valid(g) =>
           /\ events'.array = g.array => g.array = events.array
           /\ \A i \in 1..g.len : ~(g.array = events.array /\ i = events.len + 1) =>
                                     heap'[g.array][i] = heap[g.array][i]
  <2>1. /\ events'.len = h.len + 1
        /\ \A i \in 1..h.len : heap'[events'.array][i] = heap[h.array][i]
        /\ heap'[events'.array][h.len + 1] = Last(emitted[c])
        /\ \A g : Valid(g) =>
             /\ events'.array = g.array => g.array = h.array
             /\ \A i \in 1..g.len :
                  ~(g.array = h.array /\ i = h.len + 1) => heap'[g.array][i] = heap[g.array][i]
    BY StoreShape
  <2> QED
    BY <1>4, <2>1
<1> HIDE DEF h
<1>6. ASSUME NEW d \in Call, d # c
      PROVE  FactsFor(d)'
  <2>1. pc'[d] \in {"new", "done"} /\ reply'[d] = reply[d] /\ (Succeeded(d)' <=> Succeeded(d))
    BY <1>1, <1>2, <1>3, <1>6 DEF Succeeded
  <2>2. CASE Succeeded(d)
    <3>1. Valid(reply[d].facts)
      BY <2>2 DEF SagaInv, HeadersTyped, Succeeded, NoReply, ErrorReply
    <3>2. /\ Shows(reply[d].facts, emitted[d])
          /\ reply[d].facts.array = events.array /\ events.array # 0
               => reply[d].facts.len <= events.len
      BY <2>2 DEF FactsInv, FactsFor
    <3> DEFINE g == reply[d].facts
    <3>3. /\ g.array \in Nat /\ g.len \in Nat /\ (g.array = 0 => g.len = 0)
      BY <3>1 DEF Valid
    <3>4. \A i \in 1..g.len : ~(g.array = events.array /\ i = events.len + 1)
      <4>1. CASE g.array = 0
        BY <3>3, <4>1
      <4>2. CASE g.array # 0
        BY <1>4, <3>2, <3>3, <4>2
      <4> QED
        BY <4>1, <4>2
    <3>5. \A i \in 1..g.len : heap'[g.array][i] = heap[g.array][i]
      BY <1>5, <3>1, <3>4
    <3>6. events'.array = g.array => g.array = events.array
      BY <1>5, <3>1
    <3>7. Shows(reply[d].facts, emitted[d])'
      BY <1>1, <3>2, <3>5 DEF Shows
    <3>8. g.array = events'.array /\ events'.array # 0 => g.len <= events'.len
      BY <1>4, <1>5, <3>2, <3>3, <3>6
    <3> QED
      BY <2>1, <3>7, <3>8 DEF FactsFor
  <2> QED
    BY <2>1, <2>2 DEF FactsFor
<1>7. FactsFor(c)'
  <2>1. reply[c] = NoReply /\ ~Succeeded(c)'
    <3>1. reply[c] = NoReply
      BY <1>1 DEF SagaInv, CallTyped
    <3> QED
      BY <1>1, <3>1 DEF Succeeded, NoReply
  <2>2. emitted[c][events.len + 1] = Last(emitted[c])
    BY <1>4 DEF Last
  <2>3. Shows(events, emitted[c])'
    <3>1. \A i \in 1..events.len + 1 : i \in 1..events.len \/ i = events.len + 1
      BY <1>4
    <3>2. \A i \in 1..events.len + 1 : emitted[c][i] = heap'[events'.array][i]
      BY <1>4, <1>5, <2>2, <3>1
    <3> QED
      BY <1>1, <1>4, <1>5, <3>2 DEF Shows
  <2> QED
    BY <1>2, <2>1, <2>3 DEF FactsFor
<1> QED
  BY <1>3, <1>6, <1>7 DEF FactsInv

\* The response shows what s.events does.
LEMMA AnswerStep ==
  ASSUME Serialised, SagaInv, FactsInv, NEW c \in Call, Return(c)
  PROVE  FactsInv'
<1>1. /\ pc[c] = "running" /\ PerCall /\ UNCHANGED <<heap, events, loaded, emitted>>
      /\ pc' = [pc EXCEPT ![c] = "done"]
      /\ reply' = [reply EXCEPT ![c] = OkReply(commands[c], events)]
  BY DEF Return, shared, SagaInv
<1>2. /\ pc'[c] = "done" /\ reply'[c] = OkReply(commands[c], events)
      /\ \A d \in Call \ {c} : pc'[d] = pc[d] /\ reply'[d] = reply[d]
  BY <1>1 DEF PerCall
<1>3. OneActive' /\ \A d \in Call \ {c} : pc[d] \in {"new", "done"}
  BY <1>1, <1>2, ActiveMoves DEF Active
<1>4. ASSUME NEW d \in Call, d # c
      PROVE  FactsFor(d)'
  <2>1. FactsFor(d)
    BY DEF FactsInv
  <2>2. pc'[d] = pc[d] /\ reply'[d] = reply[d] /\ (Succeeded(d)' <=> Succeeded(d))
    BY <1>2, <1>4 DEF Succeeded
  <2> QED
    BY <1>1, <2>1, <2>2 DEF FactsFor, Shows
<1>5. FactsFor(c)'
  <2>1. Shows(events, emitted[c]) /\ events.len \in Nat
    BY <1>1 DEF FactsInv, FactsFor, SagaInv, HeapTyped, Valid
  <2>2. reply'[c].facts = events
    BY <1>2 DEF OkReply
  <2> QED
    BY <1>1, <1>2, <2>1, <2>2 DEF FactsFor, Shows
<1> QED
  BY <1>3, <1>4, <1>5 DEF FactsInv

\* If the caller waits for one call before the next, each response carries the
\* facts of its own call, and keeps them whatever later calls do.
THEOREM OwnFacts ==
  ASSUME Serialised PROVE Spec => []ReplyCarriesOwnFacts
<1>1. Init => FactsInv
  BY DEF Init, FactsInv, OneActive, Active, FactsFor, Succeeded, NoReply
<1>2. SagaInv /\ FactsInv /\ [Next]_vars => FactsInv'
  <2> SUFFICES ASSUME SagaInv, FactsInv, [Next]_vars PROVE FactsInv'
    OBVIOUS
  <2>1. CASE UNCHANGED vars
    BY <2>1 DEF vars, shared, FactsInv, OneActive, Active, FactsFor, Shows, Succeeded
  <2> QED
    BY <2>1, QuietStep, StartStep, LoadStep, KeepStep, AnswerStep DEF Next
<1>3. SagaInv /\ FactsInv => ReplyCarriesOwnFacts
  <2> SUFFICES ASSUME SagaInv, FactsInv, NEW c \in Call, Succeeded(c)
               PROVE  Elements(reply[c].facts) = emitted[c]
    BY DEF ReplyCarriesOwnFacts
  <2>1. Valid(reply[c].facts) /\ emitted[c] \in Seq(Fact)
    BY DEF SagaInv, CallTyped, HeadersTyped, Succeeded, NoReply, ErrorReply
  <2>2. Shows(reply[c].facts, emitted[c])
    BY DEF FactsInv, FactsFor
  <2> QED
    BY <2>1, <2>2, ShownElements
<1> QED
  BY <1>1, <1>2, <1>3, AlwaysSaga, PTL DEF Spec
===============================================================================
