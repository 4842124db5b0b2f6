-------------------------- MODULE ExecOutputProofs --------------------------
(***************************************************************************)
(* The output of a command in an exec session, for every number of         *)
(* sessions and chunks and every capacity of the channel.  A chunk moves   *)
(* from the pipe to its reader, the channel and the client; the invariant  *)
(* says which chunks are at each of these places.  A chunk is lost only    *)
(* when the session was cancelled or the handler has left its loop without *)
(* meeting the end of the output.                                          *)
(***************************************************************************)
EXTENDS ExecSession, TLAPS

Chunk == Streams \X Nat

\* An empty sequence carries nothing.
LEMMA CarriesNothing ==
    ASSUME NEW a \in [Streams -> Nat], NEW b \in [Streams -> Nat]
    PROVE  Carries(<<>>, a, b) <=> a = b
<1>1. DOMAIN <<>> = {}
  OBVIOUS
<1>2. ASSUME a = b PROVE Carries(<<>>, a, b)
  BY <1>1, <1>2 DEF Carries, Streams
<1>3. ASSUME Carries(<<>>, a, b) PROVE a = b
  <2>1. ASSUME NEW k \in Streams PROVE a[k] = b[k]
    <3>1. a[k] <= b[k] /\ ~\E n : n \in a[k] + 1 .. b[k]
      BY <1>1, <1>3 DEF Carries
    <3>2. a[k] \in Nat /\ b[k] \in Nat
      OBVIOUS
    <3> QED  BY <3>1, <3>2
  <2> QED  BY <2>1
<1> QED  BY <1>2, <1>3

\* What a sequence carries ends where it began or later.
LEMMA CarriesUpTo ==
    ASSUME NEW q, NEW a, NEW b, Carries(q, a, b)
    PROVE  \A k \in Streams : a[k] <= b[k]
BY DEF Carries

\* The chunk after the last one is added at the end ...
LEMMA CarriesOneMore ==
    ASSUME NEW q \in Seq(Chunk), NEW a \in [Streams -> Nat], NEW b \in [Streams -> Nat],
           Carries(q, a, b), NEW k \in Streams, NEW x, x = <<k, b[k] + 1>>
    PROVE  /\ Append(q, x) \in Seq(Chunk)
           /\ Carries(Append(q, x), a, [b EXCEPT ![k] = @ + 1])
<1> DEFINE p == Append(q, x)
           c == [b EXCEPT ![k] = @ + 1]
<1>1. x \in Chunk /\ x[1] = k /\ x[2] = b[k] + 1 /\ b[k] \in Nat
  BY DEF Chunk
<1>2. /\ p \in Seq(Chunk) /\ Len(q) \in Nat /\ DOMAIN q = 1..Len(q) /\ DOMAIN p = 1..Len(q) + 1
      /\ p[Len(q) + 1] = x /\ \A i \in 1..Len(q) : p[i] = q[i]
  BY <1>1
<1>3. c \in [Streams -> Nat] /\ c[k] = b[k] + 1 /\ \A l \in Streams \ {k} : c[l] = b[l]
  BY <1>1
<1>4. \A l \in Streams :
         a[l] \in Nat /\ b[l] \in Nat /\ c[l] \in Nat /\ a[l] <= b[l] /\ b[l] <= c[l]
  BY <1>1, <1>3 DEF Carries
<1>5. \A i \in DOMAIN q : q[i][1] \in Streams /\ q[i][2] \in a[q[i][1]] + 1 .. b[q[i][1]]
  BY DEF Carries
<1> HIDE DEF p, c
<1>6. \A l \in Streams : a[l] <= c[l]
  BY <1>4
<1>7. ASSUME NEW i \in DOMAIN p
      PROVE  p[i][1] \in Streams /\ p[i][2] \in a[p[i][1]] + 1 .. c[p[i][1]]
  <2>1. CASE i = Len(q) + 1
    BY <1>1, <1>2, <1>3, <1>4, <2>1
  <2>2. CASE i \in DOMAIN q
    <3>1. p[i] = q[i] /\ q[i][1] \in Streams /\ q[i][2] \in a[q[i][1]] + 1 .. b[q[i][1]]
      BY <1>2, <1>5, <2>2
    <3> QED  BY <1>4, <3>1, SMTT(30)
  <2> QED  BY <1>2, <2>1, <2>2
<1>8. ASSUME NEW l \in Streams, NEW n \in a[l] + 1 .. c[l]
      PROVE  \E i \in DOMAIN p : p[i] = <<l, n>>
  <2>1. CASE l = k /\ n = b[k] + 1
    BY <1>2, <2>1, SMTT(30)
  <2>2. CASE n \in a[l] + 1 .. b[l]
    <3>1. PICK i \in DOMAIN q : q[i] = <<l, n>>
      BY <2>2 DEF Carries
    <3>2. i \in DOMAIN p /\ p[i] = q[i]
      BY <1>2
    <3> QED  BY <3>1, <3>2
  <2>3. (n = b[k] + 1 /\ l = k) \/ n \in a[l] + 1 .. b[l]
    BY <1>3, <1>4, SMTT(30)
  <2> QED  BY <2>1, <2>2, <2>3
<1>9. ASSUME NEW i \in DOMAIN p, NEW j \in DOMAIN p, i < j, p[i][1] = p[j][1]
      PROVE  p[i][2] < p[j][2]
  <2>1. i \in DOMAIN q /\ p[i] = q[i]
    BY <1>2, <1>9
  <2>2. CASE j \in DOMAIN q
    <3>1. p[j] = q[j]
      BY <1>2, <2>2
    <3> QED  BY <1>9, <2>1, <2>2, <3>1, SMTT(30) DEF Carries
  <2>3. CASE j = Len(q) + 1
    <3>1. p[j][1] = k /\ p[j][2] = b[k] + 1
      BY <1>1, <1>2, <2>3
    <3>2. q[i][2] \in a[k] + 1 .. b[k]
      BY <1>5, <1>9, <2>1, <3>1
    <3> QED  BY <1>4, <2>1, <3>1, <3>2
  <2> QED  BY <1>2, <2>2, <2>3
<1>10. Carries(p, a, c)
  BY <1>6, <1>7, <1>8, <1>9 DEF Carries
<1> QED
  BY <1>2, <1>10 DEF p, c

\* ... and the oldest one is the one after from.
LEMMA CarriesOneLess ==
    ASSUME NEW q \in Seq(Chunk), NEW a \in [Streams -> Nat], NEW b \in [Streams -> Nat],
           Carries(q, a, b), q # <<>>
    PROVE  \E k \in Streams :
              /\ Head(q) = <<k, a[k] + 1>> /\ Tail(q) \in Seq(Chunk)
              /\ Carries(Tail(q), [a EXCEPT ![k] = @ + 1], b)
<1> DEFINE p == Tail(q)
           k == q[1][1]
           c == [a EXCEPT ![k] = @ + 1]
<1>1. /\ p \in Seq(Chunk) /\ Len(q) \in Nat /\ Len(q) >= 1 /\ DOMAIN q = 1..Len(q)
      /\ DOMAIN p = 1..Len(q) - 1 /\ Head(q) = q[1] /\ \A i \in 1..Len(q) - 1 : p[i] = q[i + 1]
  OBVIOUS
<1>2. q[1] \in Chunk /\ k \in Streams /\ q[1][2] \in a[k] + 1 .. b[k]
  <2>1. 1 \in DOMAIN q /\ q[1] \in Chunk
    BY <1>1
  <2> QED  BY <2>1 DEF Carries
<1>3. \A l \in Streams : a[l] \in Nat /\ b[l] \in Nat /\ a[l] <= b[l]
  BY DEF Carries
<1>4. q[1] = <<k, a[k] + 1>>
  <2>1. a[k] + 1 \in a[k] + 1 .. b[k]
    BY <1>2, <1>3
  <2>2. PICK i \in DOMAIN q : q[i] = <<k, a[k] + 1>>
    BY <1>2, <2>1 DEF Carries
  <2>3. CASE i = 1
    BY <2>2, <2>3
  <2>4. CASE 1 < i
    <3>0. 1 \in DOMAIN q /\ q[i][1] = k /\ q[i][2] = a[k] + 1
      BY <1>1, <2>2
    <3>1. q[1][2] < q[i][2]
      BY <2>4, <3>0 DEF Carries
    <3> QED  BY <1>2, <1>3, <3>0, <3>1
  <2> QED  BY <1>1, <2>3, <2>4
<1>5. c \in [Streams -> Nat] /\ c[k] = a[k] + 1 /\ \A l \in Streams \ {k} : c[l] = a[l]
  BY <1>2, <1>3
<1>0. k = q[1][1]
  OBVIOUS
<1> HIDE DEF p, k, c
<1>6. \A l \in Streams : c[l] <= b[l] /\ c[l] \in Nat /\ a[l] <= c[l]
  <2>1. a[k] + 1 <= b[k]
    BY <1>2, <1>3
  <2>2. ASSUME NEW l \in Streams PROVE c[l] <= b[l] /\ c[l] \in Nat /\ a[l] <= c[l]
    <3>1. CASE l = k
      BY <1>3, <1>5, <2>1, <3>1
    <3>2. CASE l # k
      BY <1>3, <1>5, <3>2
    <3> QED  BY <3>1, <3>2
  <2> QED  BY <2>2
<1>7. ASSUME NEW i \in DOMAIN p
      PROVE  p[i][1] \in Streams /\ p[i][2] \in c[p[i][1]] + 1 .. b[p[i][1]]
  <2>1. p[i] = q[i + 1] /\ i + 1 \in DOMAIN q /\ 1 \in DOMAIN q /\ 1 < i + 1
    BY <1>1
  <2>2. /\ q[i + 1][1] \in Streams
        /\ q[i + 1][2] \in a[q[i + 1][1]] + 1 .. b[q[i + 1][1]]
    BY <2>1 DEF Carries
  <2>3. CASE q[i + 1][1] = k
    <3>1. q[1][2] < q[i + 1][2]
      BY <1>0, <2>1, <2>3 DEF Carries
    <3>2. q[1][2] = a[k] + 1
      BY <1>4
    <3> QED  BY <1>2, <1>3, <1>5, <2>1, <2>2, <2>3, <3>1, <3>2
  <2>4. CASE q[i + 1][1] # k
    BY <1>5, <2>1, <2>2, <2>4
  <2> QED  BY <2>3, <2>4
<1>8. ASSUME NEW l \in Streams, NEW n \in c[l] + 1 .. b[l]
      PROVE  \E i \in DOMAIN p : p[i] = <<l, n>>
  <2>1. n \in a[l] + 1 .. b[l]
    BY <1>3, <1>6
  <2>2. PICK i \in DOMAIN q : q[i] = <<l, n>>
    BY <2>1 DEF Carries
  <2>3. i # 1
    <3>1. CASE l = k
      <4>1. n # a[k] + 1
        BY <1>3, <1>5, <3>1
      <4> QED  BY <1>4, <2>2, <3>1, <4>1
    <3>2. CASE l # k
      BY <1>4, <2>2, <3>2
    <3> QED  BY <3>1, <3>2
  <2>4. i - 1 \in DOMAIN p /\ p[i - 1] = q[i]
    BY <1>1, <2>3
  <2> QED  BY <2>2, <2>4
<1>9. ASSUME NEW i \in DOMAIN p, NEW j \in DOMAIN p, i < j, p[i][1] = p[j][1]
      PROVE  p[i][2] < p[j][2]
  <2>1. /\ p[i] = q[i + 1] /\ p[j] = q[j + 1] /\ i + 1 \in DOMAIN q /\ j + 1 \in DOMAIN q
        /\ i + 1 < j + 1
    BY <1>1, <1>9
  <2> QED  BY <1>9, <2>1 DEF Carries
<1>10. Carries(p, c, b)
  BY <1>6, <1>7, <1>8, <1>9 DEF Carries
<1> QED
  BY <1>1, <1>2, <1>4, <1>10, Zenon DEF p, c

Execs == {"none", "run", "sizes", "stderr", "stdout", "stdin", "end"}
Pipes == {"open", "wclosed", "rclosed"}
Readers == {"none", "run", "end"}

OutputType ==
    /\ handler \in [Sessions -> Handlers] /\ exec \in [Sessions -> Execs]
    /\ reqDone \in [Sessions -> BOOLEAN] /\ cancelled \in [Sessions -> BOOLEAN]
    /\ chClosed \in [Sessions -> BOOLEAN]
    /\ inflight \in [Sessions -> [Streams -> 0..Chunks]]
    /\ written \in [Sessions -> [Streams -> 0..Chunks]]
    /\ held \in [Sessions -> [Streams -> 0..Chunks]]
    /\ pipe \in [Sessions -> [Streams -> Pipes]]
    /\ reader \in [Sessions -> [Streams -> Readers]]
    /\ ch \in [Sessions -> Seq(Chunk)] /\ sent \in [Sessions -> Seq(Chunk)]

\* When a session's goroutines, its channel and its pipes end, and what can
\* still be on its way.
Over(s, k) ==
    /\ handler[s] \in {"idle", "first"} => reader[s][k] = "none"
    /\ chClosed[s] => reader[s][k] = "end"
    /\ exec[s] = "none" \/ (exec[s] # "run" /\ ~cancelled[s]) => inflight[s][k] = 0
    /\ pipe[s][k] # "open" => inflight[s][k] = 0
    /\ reader[s][k] # "run" => held[s][k] = 0
    /\ reader[s][k] = "end" => pipe[s][k] = "rclosed"

Ends(s) ==
    /\ reqDone[s] => cancelled[s]
    /\ handler[s] = "idle" => exec[s] = "none"
    /\ handler[s] = "eof" => chClosed[s] /\ ch[s] = <<>>
    /\ \A k \in Streams : Over(s, k)

One(n) == IF n = 0 THEN 0 ELSE 1

\* After chunk n of stream k come the one its reader holds, then the one in
\* flight, and there is no other unless the session was cancelled.
Due(h, f, w, n) ==
    /\ h # 0 => h = n + 1
    /\ f # 0 => f = n + One(h) + 1
    /\ n + One(h) + One(f) <= w

Whole(h, f, w, n) == w = n + One(h) + One(f)

Pending(s, k, n) ==
    /\ Due(held[s][k], inflight[s][k], written[s][k], n)
    /\ pipe[s][k] = "open" \/ ~cancelled[s] =>
          Whole(held[s][k], inflight[s][k], written[s][k], n)

Live(s) == handler[s] \in {"idle", "first", "stream", "eof"}

\* The client has the chunks up to m, the channel those after them up to n.
Flow(s, m, n) ==
    /\ Carries(sent[s], NoChunks, m)
    /\ Live(s) => Carries(ch[s], m, n) /\ \A k \in Streams : Pending(s, k, n[k])

Counts == [Streams -> 0..Chunks]

OutputInv ==
    /\ OutputType
    /\ \A s \in Sessions : Ends(s) /\ \E m, n \in Counts : Flow(s, m, n)

\* A step that does nothing to the output of session q.
SameOutput(q) ==
    /\ handler'[q] = handler[q] /\ exec'[q] = exec[q] /\ reqDone'[q] = reqDone[q]
    /\ cancelled'[q] = cancelled[q] /\ chClosed'[q] = chClosed[q] /\ inflight'[q] = inflight[q]
    /\ written'[q] = written[q] /\ held'[q] = held[q] /\ pipe'[q] = pipe[q]
    /\ reader'[q] = reader[q] /\ ch'[q] = ch[q] /\ sent'[q] = sent[q]

\* A chunk is written, read, lost or passed on.
LEMMA DueSteps ==
    ASSUME NEW h \in Nat, NEW f \in Nat, NEW w \in Nat, NEW n \in Nat, Due(h, f, w, n)
    PROVE  /\ f = 0 /\ Whole(h, f, w, n) => Due(h, w + 1, w + 1, n) /\ Whole(h, w + 1, w + 1, n)
           /\ h = 0 => Due(f, 0, w, n) /\ (Whole(h, f, w, n) => Whole(f, 0, w, n))
           /\ Due(h, 0, w, n) /\ Due(0, 0, w, n)
           /\ h # 0 => /\ h = n + 1 /\ Due(0, f, w, n + 1)
                       /\ Whole(h, f, w, n) => Whole(0, f, w, n + 1)
BY DEF Due, Whole, One

\* A session whose output is the same has the same ends.
LEMMA SameEnds == ASSUME NEW q \in Sessions, SameOutput(q), Ends(q) PROVE Ends(q)'
<1>1. ASSUME NEW k \in Streams PROVE Over(q, k)'
  <2>1. Over(q, k)
    BY DEF Ends
  <2> QED  BY <2>1 DEF SameOutput, Over
<1> QED  BY <1>1 DEF SameOutput, Ends

\* The invariant is about one session at a time.
LEMMA OneOutput ==
    ASSUME OutputInv, OutputType', NEW s \in Sessions,
           Ends(s)', NEW m \in Counts, NEW n \in Counts, Flow(s, m, n)',
           \A q \in Sessions \ {s} : SameOutput(q)
    PROVE  OutputInv'
<1>1. ASSUME NEW q \in Sessions \ {s} PROVE (Ends(q) /\ \E a, b \in Counts : Flow(q, a, b))'
  <2>1. SameOutput(q) /\ Ends(q)
    BY DEF OutputInv
  <2>2. PICK a \in Counts, b \in Counts : Flow(q, a, b)
    BY DEF OutputInv
  <2>3. Ends(q)'
    BY <2>1, SameEnds, SMTT(30)
  <2>4. Flow(q, a, b)'
    BY <2>1, <2>2 DEF SameOutput, Flow, Live, Pending
  <2> QED  BY <2>3, <2>4
<1> QED  BY <1>1 DEF OutputInv

\* One stream of one session gets a new value.
LEMMA PutStream ==
    ASSUME NEW V, NEW f \in [Sessions -> [Streams -> V]], NEW s \in Sessions,
           NEW k \in Streams, NEW v \in V, NEW g, g = [f EXCEPT ![s][k] = v]
    PROVE  /\ g \in [Sessions -> [Streams -> V]] /\ g[s][k] = v
           /\ \A l \in Streams \ {k} : g[s][l] = f[s][l]
           /\ \A q \in Sessions \ {s} : g[q] = f[q]
OBVIOUS

\* Nothing has been written at first.
LEMMA OutputStart == Init => OutputInv
<1> SUFFICES ASSUME Init PROVE OutputInv
  OBVIOUS
<1>0. Chunks \in Nat /\ 0 \in 0..Chunks
  BY ExecAssumption
<1>1. OutputType
  BY <1>0 DEF Init, OutputType, Handlers, Execs, Pipes, Readers
<1>2. ASSUME NEW s \in Sessions PROVE Ends(s) /\ \E m, n \in Counts : Flow(s, m, n)
  <2>1. Ends(s)
    BY DEF Init, Ends, Over
  <2>2. NoChunks \in Counts /\ NoChunks \in [Streams -> Nat]
    BY <1>0 DEF Counts, NoChunks
  <2>3. sent[s] = <<>> /\ ch[s] = <<>>
    BY DEF Init
  <2>4. Carries(sent[s], NoChunks, NoChunks) /\ Carries(ch[s], NoChunks, NoChunks)
    BY <2>2, <2>3, CarriesNothing
  <2>5. ASSUME NEW k \in Streams PROVE Pending(s, k, NoChunks[k])
    BY DEF Init, Pending, Due, Whole, One, NoChunks
  <2>6. Flow(s, NoChunks, NoChunks)
    BY <2>4, <2>5 DEF Flow
  <2> QED  BY <2>1, <2>2, <2>6
<1> QED  BY <1>1, <1>2 DEF OutputInv

\* A step that moves no chunk.
LEMMA Unmoved ==
    ASSUME OutputInv, NEW s \in Sessions, OutputType', Ends(s)',
           Live(s)' => Live(s), cancelled[s] => cancelled'[s],
           UNCHANGED <<inflight, written, held, pipe, ch, sent>>,
           \A q \in Sessions \ {s} : SameOutput(q)
    PROVE  OutputInv'
<1>1. PICK m \in Counts, n \in Counts : Flow(s, m, n)
  BY DEF OutputInv
<1>2. cancelled[s] \in BOOLEAN /\ cancelled'[s] \in BOOLEAN
  BY DEF OutputInv, OutputType
<1>3. Flow(s, m, n)'
  BY <1>1, <1>2, Zenon DEF Flow, Pending
<1> QED  BY <1>3, OneOutput

SameStream(s, k) ==
    /\ inflight'[s][k] = inflight[s][k] /\ written'[s][k] = written[s][k]
    /\ held'[s][k] = held[s][k] /\ pipe'[s][k] = pipe[s][k] /\ reader'[s][k] = reader[s][k]

\* A step that moves a chunk of one stream before it is in the channel.
LEMMA MovedBefore ==
    ASSUME OutputInv, NEW s \in Sessions, NEW k \in Streams, OutputType', Over(s, k)',
           UNCHANGED <<handler, reqDone, cancelled, ch, chClosed, sent>>,
           \/ exec'[s] = exec[s]
           \/ {exec[s], exec'[s]} \cap {"none", "run"} = {},
           \A l \in Streams \ {k} : SameStream(s, l),
           \A c \in Nat : Live(s) /\ Pending(s, k, c) => Pending(s, k, c)',
           \A q \in Sessions \ {s} : SameOutput(q)
    PROVE  OutputInv'
<1>1. PICK m \in Counts, n \in Counts : Flow(s, m, n)
  BY DEF OutputInv
<1>2. Carries(sent'[s], NoChunks, m)
  BY <1>1 DEF Flow
<1>3. ASSUME Live(s)', NEW l \in Streams PROVE Pending(s, l, n[l])'
  <2>1. Live(s) /\ Pending(s, l, n[l])
    BY <1>1, <1>3, Zenon DEF Flow, Live
  <2>2. n[l] \in Nat
    BY ExecAssumption DEF Counts
  <2>3. CASE l = k
    BY <2>1, <2>2, <2>3
  <2>4. CASE l # k
    <3>1. SameStream(s, l)
      BY <2>4
    <3> QED  BY <2>1, <3>1, Zenon DEF SameStream, Pending
  <2> QED  BY <2>3, <2>4
<1>4. Live(s)' => Carries(ch'[s], m, n)
  BY <1>1, ZenonT(30) DEF Flow, Live
<1>5. Flow(s, m, n)'
  BY <1>2, <1>3, <1>4 DEF Flow
<1>6. Ends(s)'
  <2>1. Ends(s)
    BY DEF OutputInv
  <2>2. ASSUME NEW l \in Streams \ {k} PROVE Over(s, l)'
    <3>1. SameStream(s, l) /\ Over(s, l)
      BY <2>1, Zenon DEF Ends
    <3> QED  BY <3>1, ZenonT(30) DEF SameStream, Over
  <2> QED  BY <2>1, <2>2, ZenonT(30) DEF Ends
<1> QED  BY <1>5, <1>6, OneOutput, SMTT(30)

\* The command writes a chunk.
LEMMA CommandKeeps ==
    ASSUME OutputInv, NEW s \in Sessions, NEW k \in Streams, CommandWrites(s, k)
    PROVE  OutputInv'
<1>1. OutputType /\ Ends(s)
  BY DEF OutputInv
<1>2. /\ exec[s] = "run" /\ pipe[s][k] = "open" /\ inflight[s][k] = 0
      /\ UNCHANGED <<handler, reqDone, cancelled, exec, pipe, reader, held, ch, chClosed, sent>>
  BY DEF CommandWrites
<1>3. /\ written[s][k] \in 0..Chunks /\ written[s][k] + 1 \in 0..Chunks
      /\ held[s][k] \in Nat /\ written[s][k] \in Nat
  BY <1>1, ExecAssumption, SMTT(30) DEF CommandWrites, OutputType, Streams
<1>4. /\ written' \in [Sessions -> [Streams -> 0..Chunks]] /\ written'[s][k] = written[s][k] + 1
      /\ \A l \in Streams \ {k} : written'[s][l] = written[s][l]
      /\ \A q \in Sessions \ {s} : written'[q] = written[q]
  <2>1. written' = [written EXCEPT ![s][k] = written[s][k] + 1]
    BY DEF CommandWrites
  <2> QED  BY <1>1, <1>3, <2>1, PutStream, SMTT(30) DEF OutputType
<1>5. /\ inflight' \in [Sessions -> [Streams -> 0..Chunks]]
      /\ inflight'[s][k] = written[s][k] + 1
      /\ \A l \in Streams \ {k} : inflight'[s][l] = inflight[s][l]
      /\ \A q \in Sessions \ {s} : inflight'[q] = inflight[q]
  <2>1. inflight' = [inflight EXCEPT ![s][k] = written[s][k] + 1]
    BY DEF CommandWrites
  <2> QED  BY <1>1, <1>3, <2>1, PutStream DEF OutputType
<1>6. OutputType'
  BY <1>1, <1>2, <1>4, <1>5, ZenonT(30) DEF OutputType
<1>7. Over(s, k)'
  BY <1>1, <1>2, <1>5 DEF Ends, Over
<1>8. ASSUME NEW c \in Nat, Pending(s, k, c) PROVE Pending(s, k, c)'
  <2>1. /\ Due(held[s][k], 0, written[s][k], c)
        /\ Whole(held[s][k], 0, written[s][k], c)
    BY <1>2, <1>8, Zenon DEF Pending
  <2>2. /\ Due(held[s][k], written[s][k] + 1, written[s][k] + 1, c)
        /\ Whole(held[s][k], written[s][k] + 1, written[s][k] + 1, c)
    BY <1>3, <2>1, DueSteps, ZenonT(30)
  <2> QED  BY <1>2, <1>4, <1>5, <2>2, Zenon DEF Pending
<1>9. \A l \in Streams \ {k} : SameStream(s, l)
  BY <1>2, <1>4, <1>5, SMTT(30) DEF SameStream
<1>10. \A q \in Sessions \ {s} : SameOutput(q)
  BY <1>2, <1>4, <1>5, SMTT(30) DEF SameOutput
<1> QED  BY <1>2, <1>6, <1>7, <1>8, <1>9, <1>10, MovedBefore

\* A reader takes the chunk in flight.
LEMMA ReadKeeps ==
    ASSUME OutputInv, NEW s \in Sessions, NEW k \in Streams, ReadChunk(s, k)
    PROVE  OutputInv'
<1>1. OutputType /\ Ends(s)
  BY DEF OutputInv
<1>2. /\ reader[s][k] = "run" /\ held[s][k] = 0 /\ inflight[s][k] # 0
      /\ UNCHANGED <<handler, reqDone, cancelled, exec, written, pipe, reader, ch, chClosed, sent>>
  BY DEF ReadChunk
<1>3. /\ inflight[s][k] \in 0..Chunks /\ 0 \in 0..Chunks
      /\ inflight[s][k] \in Nat /\ written[s][k] \in Nat
  BY <1>1, ExecAssumption DEF OutputType
<1>4. /\ held' \in [Sessions -> [Streams -> 0..Chunks]] /\ held'[s][k] = inflight[s][k]
      /\ \A l \in Streams \ {k} : held'[s][l] = held[s][l]
      /\ \A q \in Sessions \ {s} : held'[q] = held[q]
  <2>1. held' = [held EXCEPT ![s][k] = inflight[s][k]]
    BY DEF ReadChunk
  <2> QED  BY <1>1, <1>3, <2>1, PutStream DEF OutputType
<1>5. /\ inflight' \in [Sessions -> [Streams -> 0..Chunks]] /\ inflight'[s][k] = 0
      /\ \A l \in Streams \ {k} : inflight'[s][l] = inflight[s][l]
      /\ \A q \in Sessions \ {s} : inflight'[q] = inflight[q]
  <2>1. inflight' = [inflight EXCEPT ![s][k] = 0]
    BY SMTT(30) DEF ReadChunk
  <2> QED  BY <1>1, <1>3, <2>1, PutStream DEF OutputType
<1>6. OutputType'
  BY <1>1, <1>2, <1>4, <1>5 DEF OutputType
<1>7. Over(s, k)'
  BY <1>1, <1>2, <1>4, <1>5, Zenon DEF Ends, Over
<1>8. ASSUME NEW c \in Nat, Pending(s, k, c) PROVE Pending(s, k, c)'
  <2>1. Due(0, inflight[s][k], written[s][k], c)
    BY <1>2, <1>8, Zenon DEF Pending
  <2>2. /\ Due(inflight[s][k], 0, written[s][k], c)
        /\ Whole(0, inflight[s][k], written[s][k], c) => Whole(inflight[s][k], 0, written[s][k], c)
    BY <1>3, <2>1, DueSteps, ZenonT(30)
  <2> QED  BY <1>2, <1>4, <1>5, <1>8, <2>2, Zenon DEF Pending
<1>9. \A l \in Streams \ {k} : SameStream(s, l)
  BY <1>2, <1>4, <1>5 DEF SameStream
<1>10. \A q \in Sessions \ {s} : SameOutput(q)
  BY <1>2, <1>4, <1>5, Zenon DEF SameOutput
<1> QED  BY <1>2, <1>6, <1>7, <1>8, <1>9, <1>10, MovedBefore

\* A reader ends; what it held and what was in flight is lost, which happens
\* only when the session is cancelled.
LEMMA ReaderEndKeeps ==
    ASSUME OutputInv, NEW s \in Sessions, NEW k \in Streams, ReadEOF(s, k) \/ GiveUp(s, k)
    PROVE  OutputInv'
<1>1. OutputType /\ Ends(s)
  BY SMTT(30) DEF OutputInv
<1>2. /\ ReaderEnds(s, k) /\ reader[s][k] = "run"
      /\ cancelled[s] \/ (held[s][k] = 0 /\ inflight[s][k] = 0)
      /\ UNCHANGED <<handler, reqDone, cancelled, exec, written, ch, chClosed, sent>>
  BY <1>1 DEF ReadEOF, GiveUp, ReaderEnds, Ends, Over
<1>3. /\ 0 \in 0..Chunks /\ written[s][k] \in Nat
      /\ held[s][k] \in Nat /\ inflight[s][k] \in Nat
  BY <1>1, ExecAssumption DEF OutputType
<1>4. /\ held' \in [Sessions -> [Streams -> 0..Chunks]] /\ held'[s][k] = 0
      /\ \A l \in Streams \ {k} : held'[s][l] = held[s][l]
      /\ \A q \in Sessions \ {s} : held'[q] = held[q]
  <2>1. held' = [held EXCEPT ![s][k] = 0]
    BY <1>2, ZenonT(30) DEF ReaderEnds
  <2> QED  BY <1>1, <1>3, <2>1, PutStream DEF OutputType
<1>5. /\ inflight' \in [Sessions -> [Streams -> 0..Chunks]] /\ inflight'[s][k] = 0
      /\ \A l \in Streams \ {k} : inflight'[s][l] = inflight[s][l]
      /\ \A q \in Sessions \ {s} : inflight'[q] = inflight[q]
  <2>1. inflight' = [inflight EXCEPT ![s][k] = 0]
    BY <1>2, SMTT(30) DEF ReaderEnds
  <2> QED  BY <1>1, <1>3, <2>1, PutStream DEF OutputType
<1>6. /\ reader' \in [Sessions -> [Streams -> Readers]] /\ reader'[s][k] = "end"
      /\ \A l \in Streams \ {k} : reader'[s][l] = reader[s][l]
      /\ \A q \in Sessions \ {s} : reader'[q] = reader[q]
  <2>1. reader' = [reader EXCEPT ![s][k] = "end"] /\ "end" \in Readers
    BY <1>2, Zenon DEF ReaderEnds, Readers
  <2> QED  BY <1>1, <2>1, PutStream DEF OutputType
<1>7. /\ pipe' \in [Sessions -> [Streams -> Pipes]] /\ pipe'[s][k] = "rclosed"
      /\ \A l \in Streams \ {k} : pipe'[s][l] = pipe[s][l]
      /\ \A q \in Sessions \ {s} : pipe'[q] = pipe[q]
  <2>1. pipe' = [pipe EXCEPT ![s][k] = "rclosed"] /\ "rclosed" \in Pipes
    BY <1>2, SMTT(30) DEF ReaderEnds, Pipes
  <2> QED  BY <1>1, <2>1, PutStream DEF OutputType
<1>8. OutputType'
  BY <1>1, <1>2, <1>4, <1>5, <1>6, <1>7 DEF OutputType
<1>9. Over(s, k)'
  BY <1>1, <1>2, <1>4, <1>5, <1>6, <1>7, Zenon DEF Ends, Over
<1>10. ASSUME NEW c \in Nat, Pending(s, k, c) PROVE Pending(s, k, c)'
  <2>1. Due(0, 0, written[s][k], c)
    BY <1>3, <1>10, DueSteps, Zenon DEF Pending
  <2>2. ~cancelled[s] => Whole(0, 0, written[s][k], c)
    BY <1>2, <1>10, Zenon DEF Pending
  <2> QED  BY <1>2, <1>4, <1>5, <1>7, <2>1, <2>2, Zenon DEF Pending
<1>11. \A l \in Streams \ {k} : SameStream(s, l)
  BY <1>2, <1>4, <1>5, <1>6, <1>7, Zenon DEF SameStream
<1>12. \A q \in Sessions \ {s} : SameOutput(q)
  BY <1>2, <1>4, <1>5, <1>6, <1>7, ZenonT(30) DEF SameOutput
<1> QED  BY <1>2, <1>8, <1>9, <1>10, <1>11, <1>12, MovedBefore, Zenon

\* The exec goroutine closes the write end of a pipe; nothing is in flight then
\* unless the session is cancelled.
LEMMA CloseWriterKeeps ==
    ASSUME OutputInv, NEW s \in Sessions, NEW k \in Streams,
           NEW next \in {"stdout", "stdin"}, CloseWriter(s, k, next)
    PROVE  OutputInv'
<1>1. OutputType /\ Ends(s)
  BY DEF OutputInv
<1>2. /\ exec[s] = k /\ exec' = [exec EXCEPT ![s] = next]
      /\ cancelled[s] \/ inflight[s][k] = 0
      /\ UNCHANGED <<handler, reqDone, cancelled, written, reader, held, ch, chClosed, sent>>
  BY <1>1 DEF CloseWriter, Ends, Over, Streams
<1>3. /\ 0 \in 0..Chunks /\ written[s][k] \in Nat /\ held[s][k] \in Nat
      /\ inflight[s][k] \in Nat /\ pipe[s][k] \in Pipes
  BY <1>1, ExecAssumption DEF OutputType
<1>4. /\ inflight' \in [Sessions -> [Streams -> 0..Chunks]] /\ inflight'[s][k] = 0
      /\ \A l \in Streams \ {k} : inflight'[s][l] = inflight[s][l]
      /\ \A q \in Sessions \ {s} : inflight'[q] = inflight[q]
  <2>1. inflight' = [inflight EXCEPT ![s][k] = 0]
    BY DEF CloseWriter
  <2> QED  BY <1>1, <1>3, <2>1, PutStream DEF OutputType
<1>5. /\ pipe' \in [Sessions -> [Streams -> Pipes]] /\ pipe'[s][k] # "open"
      /\ pipe[s][k] # "open" => pipe'[s][k] = pipe[s][k]
      /\ \A l \in Streams \ {k} : pipe'[s][l] = pipe[s][l]
      /\ \A q \in Sessions \ {s} : pipe'[q] = pipe[q]
  <2> DEFINE v == IF pipe[s][k] = "open" THEN "wclosed" ELSE pipe[s][k]
  <2>1. pipe' = [pipe EXCEPT ![s][k] = v] /\ v \in Pipes /\ v # "open"
    BY <1>3 DEF CloseWriter, Pipes
  <2>2. pipe[s][k] # "open" => v = pipe[s][k]
    OBVIOUS
  <2> HIDE DEF v
  <2> QED  BY <1>1, <2>1, <2>2, PutStream DEF OutputType
<1>6. /\ exec' \in [Sessions -> Execs] /\ exec'[s] = next
      /\ \A q \in Sessions \ {s} : exec'[q] = exec[q]
  BY <1>1, <1>2, Zenon DEF OutputType, Execs
<1>7. OutputType'
  BY <1>1, <1>2, <1>4, <1>5, <1>6, ZenonT(30) DEF OutputType
<1>8. Over(s, k)'
  BY <1>1, <1>2, <1>4, <1>5, <1>6 DEF Ends, Over
<1>9. ASSUME NEW c \in Nat, Pending(s, k, c) PROVE Pending(s, k, c)'
  <2>1. Due(held[s][k], 0, written[s][k], c)
    BY <1>3, <1>9, DueSteps, Zenon DEF Pending
  <2>2. ~cancelled[s] => Whole(held[s][k], 0, written[s][k], c)
    BY <1>2, <1>9, Zenon DEF Pending
  <2> QED  BY <1>2, <1>4, <1>5, <2>1, <2>2, Zenon DEF Pending
<1>10. \A l \in Streams \ {k} : SameStream(s, l)
  BY <1>2, <1>4, <1>5, Zenon DEF SameStream
<1>11. \A q \in Sessions \ {s} : SameOutput(q)
  BY <1>2, <1>4, <1>5, <1>6, ZenonT(30) DEF SameOutput
<1>12. {exec[s], exec'[s]} \cap {"none", "run"} = {}
  BY <1>2, <1>6 DEF Streams
<1> QED  BY <1>2, <1>7, <1>8, <1>9, <1>10, <1>11, <1>12, MovedBefore, Zenon

\* A reader passes its chunk on to the channel.
LEMMA PassKeeps ==
    ASSUME OutputInv, NEW s \in Sessions, NEW k \in Streams, PassChunk(s, k)
    PROVE  OutputInv'
<1>1. OutputType /\ Ends(s)
  BY DEF OutputInv
<1>2. /\ held[s][k] # 0 /\ reader[s][k] = "run"
      /\ ch' = [ch EXCEPT ![s] = Append(ch[s], <<k, held[s][k]>>)]
      /\ UNCHANGED <<handler, reqDone, cancelled, exec, inflight, written, pipe, reader, chClosed,
                     sent>>
  BY <1>1 DEF PassChunk, Ends, Over
<1>3. /\ held[s][k] \in 0..Chunks /\ 0 \in 0..Chunks /\ Chunks \in Nat
      /\ held[s][k] \in Nat /\ inflight[s][k] \in Nat /\ written[s][k] \in Nat
  BY <1>1, ExecAssumption, SMTT(30) DEF OutputType
<1>4. /\ held' \in [Sessions -> [Streams -> 0..Chunks]] /\ held'[s][k] = 0
      /\ \A l \in Streams \ {k} : held'[s][l] = held[s][l]
      /\ \A q \in Sessions \ {s} : held'[q] = held[q]
  <2>1. held' = [held EXCEPT ![s][k] = 0]
    BY DEF PassChunk
  <2> QED  BY <1>1, <1>3, <2>1, PutStream DEF OutputType
<1>5. <<k, held[s][k]>> \in Chunk
  BY <1>3, Zenon DEF Chunk
<1>6. /\ ch' \in [Sessions -> Seq(Chunk)] /\ ch'[s] = Append(ch[s], <<k, held[s][k]>>)
      /\ \A q \in Sessions \ {s} : ch'[q] = ch[q]
  BY <1>1, <1>2, <1>5 DEF OutputType
<1>7. OutputType'
  BY <1>1, <1>2, <1>4, <1>6, Zenon DEF OutputType
<1>8. Ends(s)'
  <2>1. handler[s] # "eof"
    BY <1>1, <1>2, ZenonT(30) DEF Ends, Over
  <2>2. ASSUME NEW l \in Streams PROVE Over(s, l)'
    <3>1. held'[s][l] = 0 \/ held'[s][l] = held[s][l]
      BY <1>4
    <3> QED  BY <1>1, <1>2, <3>1 DEF Ends, Over
  <2> QED  BY <1>1, <1>2, <2>1, <2>2, Zenon DEF Ends
<1>9. PICK m \in Counts, n \in Counts : Flow(s, m, n)
  BY Zenon DEF OutputInv
<1>10. Carries(sent'[s], NoChunks, m)
  BY <1>2, <1>9, ZenonT(30) DEF Flow
<1>11. \A q \in Sessions \ {s} : SameOutput(q)
  BY <1>2, <1>4, <1>6 DEF SameOutput
<1>12. CASE Live(s)
  <2> DEFINE p == [n EXCEPT ![k] = @ + 1]
  <2>1. /\ Carries(ch[s], m, n) /\ \A l \in Streams : Pending(s, l, n[l])
        /\ m \in [Streams -> Nat] /\ n \in [Streams -> Nat]
    BY <1>3, <1>9, <1>12, SMTT(30) DEF Flow, Counts
  <2>2. held[s][k] = n[k] + 1 /\ n[k] \in Nat
    BY <1>2, <2>1 DEF Pending, Due
  <2>3. p[k] = n[k] + 1 /\ \A l \in Streams \ {k} : p[l] = n[l]
    BY <2>1
  <2>4. p \in Counts
    BY <1>3, <1>9, <2>2 DEF Counts
  <2>5. Carries(ch'[s], m, p)
    <3>1. ch[s] \in Seq(Chunk) /\ <<k, held[s][k]>> = <<k, n[k] + 1>>
      BY <1>1, <2>2 DEF OutputType
    <3>2. Carries(Append(ch[s], <<k, held[s][k]>>), m, p)
      BY <2>1, <3>1, CarriesOneMore, Zenon
    <3> QED  BY <1>6, <3>2
  <2> HIDE DEF p
  <2>6. ASSUME NEW l \in Streams PROVE Pending(s, l, p[l])'
    <3>1. CASE l = k
      <4>1. /\ Due(0, inflight[s][k], written[s][k], n[k] + 1)
            /\ Whole(held[s][k], inflight[s][k], written[s][k], n[k]) =>
                  Whole(0, inflight[s][k], written[s][k], n[k] + 1)
        BY <1>2, <1>3, <2>1, <2>2, DueSteps, Zenon DEF Pending
      <4> QED  BY <1>2, <1>4, <2>1, <2>3, <3>1, <4>1, Zenon DEF Pending
    <3>2. CASE l # k
      BY <1>2, <1>4, <2>1, <2>3, <3>2, Zenon DEF Pending
    <3> QED  BY <3>1, <3>2
  <2>7. Flow(s, m, p)'
    BY <1>10, <2>5, <2>6, Zenon DEF Flow
  <2> QED  BY <1>7, <1>8, <1>11, <2>4, <2>7, OneOutput, ZenonT(30)
<1>13. CASE ~Live(s)
  <2>1. Flow(s, m, n)'
    BY <1>2, <1>10, <1>13 DEF Flow, Live
  <2> QED  BY <1>7, <1>8, <1>11, <2>1, OneOutput, SMTT(30)
<1> QED  BY <1>12, <1>13, SMTT(30)

\* The handler sends the oldest chunk in the channel to the client ...
LEMMA SendChunkKeeps ==
    ASSUME OutputInv, NEW s \in Sessions, StreamChunk(s)
    PROVE  OutputInv'
<1>1. OutputType /\ Ends(s)
  BY DEF OutputInv
<1>2. /\ handler[s] = "stream" /\ ch[s] # <<>> /\ handler' = handler
      /\ sent' = [sent EXCEPT ![s] = Append(sent[s], Head(ch[s]))]
      /\ ch' = [ch EXCEPT ![s] = Tail(ch[s])]
      /\ UNCHANGED <<reqDone, cancelled, exec, inflight, written, pipe, reader, held, chClosed>>
  <2>1. handler' = [handler EXCEPT ![s] = "stream"] /\ handler[s] = "stream"
    BY DEF StreamChunk, HandlerAt
  <2>2. handler' = handler
    BY <1>1, <2>1 DEF OutputType
  <2> QED  BY <2>1, <2>2 DEF StreamChunk
<1>3. PICK m \in Counts, n \in Counts : Flow(s, m, n)
  BY ZenonT(30) DEF OutputInv
<1>4. /\ Carries(sent[s], NoChunks, m) /\ Carries(ch[s], m, n)
      /\ \A k \in Streams : Pending(s, k, n[k])
      /\ m \in [Streams -> Nat] /\ n \in [Streams -> Nat] /\ NoChunks \in [Streams -> Nat]
      /\ sent[s] \in Seq(Chunk) /\ ch[s] \in Seq(Chunk)
  BY <1>1, <1>2, <1>3, ExecAssumption DEF Flow, Live, Counts, NoChunks, OutputType
<1>5. PICK k \in Streams :
         /\ Head(ch[s]) = <<k, m[k] + 1>> /\ Tail(ch[s]) \in Seq(Chunk)
         /\ Carries(Tail(ch[s]), [m EXCEPT ![k] = @ + 1], n)
  BY <1>2, <1>4, CarriesOneLess, Zenon
<1> DEFINE p == [m EXCEPT ![k] = @ + 1]
<1>6. /\ Append(sent[s], Head(ch[s])) \in Seq(Chunk)
      /\ Carries(Append(sent[s], Head(ch[s])), NoChunks, p)
  BY <1>4, <1>5, CarriesOneMore, ZenonT(30)
<1>7. /\ sent' \in [Sessions -> Seq(Chunk)] /\ sent'[s] = Append(sent[s], Head(ch[s]))
      /\ ch' \in [Sessions -> Seq(Chunk)] /\ ch'[s] = Tail(ch[s])
      /\ \A q \in Sessions \ {s} : sent'[q] = sent[q] /\ ch'[q] = ch[q]
  BY <1>1, <1>2, <1>5, <1>6, SMTT(30) DEF OutputType
<1>8. p \in Counts
  <2>1. p \in [Streams -> Nat]
    BY <1>4
  <2>2. \A l \in Streams : p[l] <= n[l]
    BY <1>5, CarriesUpTo, Zenon
  <2>3. \A l \in Streams : n[l] \in 0..Chunks /\ Chunks \in Nat
    BY ExecAssumption DEF Counts
  <2> HIDE DEF p
  <2>4. \A l \in Streams : p[l] \in 0..Chunks
    BY <2>1, <2>2, <2>3
  <2> QED  BY <2>1, <2>4, Zenon DEF Counts
<1>9. OutputType'
  BY <1>1, <1>2, <1>7, ZenonT(30) DEF OutputType
<1>10. Ends(s)'
  BY <1>1, <1>2 DEF Ends, Over
<1>11. \A k_1 \in Streams : Pending(s, k_1, n[k_1])'
  BY <1>2, <1>4, ZenonT(30) DEF Pending
<1>12. Carries(sent'[s], NoChunks, p) /\ Carries(ch'[s], p, n)
  BY <1>5, <1>6, <1>7, SMTT(30)
<1> HIDE DEF p
<1>13. Flow(s, p, n)'
  BY <1>11, <1>12, SMTT(30) DEF Flow
<1>14. \A q \in Sessions \ {s} : SameOutput(q)
  BY <1>2, <1>7 DEF SameOutput
<1> QED  BY <1>8, <1>9, <1>10, <1>13, <1>14, OneOutput

\* ... or loses it, and ends without the end of the output.
LEMMA LoseChunkKeeps ==
    ASSUME OutputInv, NEW s \in Sessions, StreamChunkFails(s)
    PROVE  OutputInv'
<1>1. OutputType /\ Ends(s)
  BY DEF OutputInv
<1>2. /\ handler[s] = "stream" /\ ch[s] # <<>>
      /\ handler' = [handler EXCEPT ![s] = "cleanup"]
      /\ ch' = [ch EXCEPT ![s] = Tail(ch[s])]
      /\ UNCHANGED <<reqDone, cancelled, exec, inflight, written, pipe, reader, held, chClosed,
                     sent>>
  BY DEF StreamChunkFails, HandlerAt
<1>3. Tail(ch[s]) \in Seq(Chunk)
  BY <1>1, <1>2 DEF OutputType
<1>4. /\ ch' \in [Sessions -> Seq(Chunk)] /\ handler' \in [Sessions -> Handlers]
      /\ handler'[s] = "cleanup"
      /\ \A q \in Sessions \ {s} : handler'[q] = handler[q] /\ ch'[q] = ch[q]
  BY <1>1, <1>2, <1>3, Zenon DEF OutputType, Handlers
<1>5. OutputType'
  BY <1>1, <1>2, <1>4, ZenonT(30) DEF OutputType
<1>6. Ends(s)'
  BY <1>1, <1>2, <1>4 DEF Ends, Over
<1>7. PICK m \in Counts, n \in Counts : Flow(s, m, n)
  BY DEF OutputInv
<1>8. Flow(s, m, n)'
  BY <1>2, <1>4, <1>7, Zenon DEF Flow, Live
<1>9. \A q \in Sessions \ {s} : SameOutput(q)
  BY <1>2, <1>4, Zenon DEF SameOutput
<1> QED  BY <1>5, <1>6, <1>8, <1>9, OneOutput

\* The handler starts the readers.
LEMMA SendFirstKeeps ==
    ASSUME OutputInv, NEW s \in Sessions, SendFirst(s)
    PROVE  OutputInv'
<1>1. OutputType /\ Ends(s)
  BY DEF OutputInv
<1>2. /\ handler[s] = "first" /\ handler' = [handler EXCEPT ![s] = "stream"]
      /\ reader' = [reader EXCEPT ![s] = [k \in Streams |-> "run"]]
      /\ UNCHANGED <<reqDone, cancelled, exec, inflight, written, pipe, held, ch, chClosed, sent>>
  BY DEF SendFirst, HandlerAt
<1>3. /\ reader' \in [Sessions -> [Streams -> Readers]] /\ handler' \in [Sessions -> Handlers]
      /\ handler'[s] = "stream" /\ \A k \in Streams : reader'[s][k] = "run"
      /\ \A q \in Sessions \ {s} : handler'[q] = handler[q] /\ reader'[q] = reader[q]
  BY <1>1, <1>2 DEF OutputType, Handlers, Readers
<1>4. OutputType'
  BY <1>1, <1>2, <1>3, ZenonT(30) DEF OutputType
<1>5. Ends(s)'
  <2>1. ~chClosed[s]
    BY <1>1, <1>2, ZenonT(30) DEF Ends, Over, Streams
  <2> QED  BY <1>1, <1>2, <1>3, <2>1 DEF Ends, Over
<1>6. \A q \in Sessions \ {s} : SameOutput(q)
  BY <1>2, <1>3 DEF SameOutput
<1>7. Live(s)
  BY <1>2 DEF Live
<1> QED  BY <1>2, <1>4, <1>5, <1>6, <1>7, Unmoved

\* PutExec refuses the session, and nothing was written to its pipes.
LEMMA RejectKeeps ==
    ASSUME OutputInv, NEW s \in Sessions, StartExecRejected(s)
    PROVE  OutputInv'
<1>1. OutputType /\ Ends(s)
  BY DEF OutputInv
<1>2. /\ handler[s] = "idle" /\ handler' = [handler EXCEPT ![s] = "rejected"]
      /\ cancelled' = [cancelled EXCEPT ![s] = TRUE]
      /\ pipe' = [pipe EXCEPT ![s] = [k \in Streams |-> "wclosed"]]
      /\ UNCHANGED <<reqDone, exec, inflight, written, reader, held, ch, chClosed, sent>>
  BY SMTT(30) DEF StartExecRejected, HandlerAt
<1>3. /\ pipe' \in [Sessions -> [Streams -> Pipes]] /\ handler' \in [Sessions -> Handlers]
      /\ cancelled' \in [Sessions -> BOOLEAN]
      /\ handler'[s] = "rejected" /\ cancelled'[s]
      /\ \A q \in Sessions \ {s} :
            handler'[q] = handler[q] /\ pipe'[q] = pipe[q] /\ cancelled'[q] = cancelled[q]
  BY <1>1, <1>2 DEF OutputType, Handlers, Pipes
<1>4. OutputType'
  BY <1>1, <1>2, <1>3, ZenonT(30) DEF OutputType
<1>5. Ends(s)'
  BY <1>1, <1>2, <1>3 DEF Ends, Over
<1>6. PICK m \in Counts, n \in Counts : Flow(s, m, n)
  BY DEF OutputInv
<1>7. Flow(s, m, n)'
  BY <1>2, <1>3, <1>6, ZenonT(30) DEF Flow, Live
<1>8. \A q \in Sessions \ {s} : SameOutput(q)
  BY <1>2, <1>3 DEF SameOutput
<1> QED  BY <1>4, <1>5, <1>7, <1>8, OneOutput

\* The steps of the handler, the exec goroutine, the client and the reaper that
\* leave the streams alone.
LEMMA ControlKeeps ==
    ASSUME OutputInv, NEW s \in Sessions,
           \/ StartExec(s) \/ StartExecInvalid(s) \/ SendFirstFails(s) \/ StreamEnds(s)
           \/ StreamCancelled(s) \/ RemoveExec(s) \/ ReleaseExec(s) \/ ReturnExec(s)
           \/ Disconnect(s) \/ ExecReturns(s) \/ CloseSizes(s) \/ CloseStdinReader(s)
           \/ CloseChannel(s) \/ ReapClose(s)
    PROVE  OutputInv'
<1>1. OutputType /\ Ends(s)
  BY DEF OutputInv
<1>2. UNCHANGED <<inflight, written, held, pipe, reader, ch, sent>>
  BY Zenon DEF StartExec, StartExecInvalid, SendFirstFails, StreamEnds, StreamCancelled, RemoveExec,
         ReleaseExec, ReturnExec, Disconnect, ExecReturns, CloseSizes, CloseStdinReader,
         CloseChannel, ReapClose, streamVars
<1> DEFINE Same == \A q \in Sessions \ {s} : SameOutput(q)
           Mono == (Live(s)' => Live(s)) /\ (cancelled[s] => cancelled'[s])
<1>3. CASE StartExec(s) \/ StartExecInvalid(s)
  <2>1. /\ handler[s] = "idle" /\ UNCHANGED <<reqDone, cancelled, chClosed>>
        /\ \E h \in {"first", "rejected"} : handler' = [handler EXCEPT ![s] = h]
        /\ exec' = exec \/ exec' = [exec EXCEPT ![s] = "run"]
    BY <1>3, Zenon DEF StartExec, StartExecInvalid, HandlerAt, streamVars
  <2>2. OutputType'
    <3>1. PICK h \in {"first", "rejected"} : handler' = [handler EXCEPT ![s] = h]
      BY <2>1, Zenon
    <3>2. h \in Handlers /\ "run" \in Execs
      BY DEF Handlers, Execs
    <3>3. handler' \in [Sessions -> Handlers]
      BY <1>1, <3>1, <3>2, Zenon DEF OutputType
    <3>4. exec' \in [Sessions -> Execs]
      BY <1>1, <2>1, <3>2, ZenonT(30) DEF OutputType
    <3> QED  BY <1>1, <1>2, <2>1, <3>3, <3>4, Zenon DEF OutputType
  <2>3. handler'[s] \in {"first", "rejected"} /\ (exec'[s] = exec[s] \/ exec'[s] = "run")
    BY <1>1, <2>1, Zenon DEF OutputType
  <2>4. Ends(s)'
    BY <1>1, <1>2, <2>1, <2>3, ZenonT(30) DEF Ends, Over
  <2>5. Same
    BY <1>1, <1>2, <2>1 DEF SameOutput, OutputType
  <2> QED  BY <1>2, <2>1, <2>2, <2>4, <2>5, Unmoved, Zenon DEF Live
<1>4. CASE \/ SendFirstFails(s) \/ StreamEnds(s) \/ StreamCancelled(s) \/ RemoveExec(s)
           \/ ReleaseExec(s) \/ ReturnExec(s)
  <2>1. PICK h \in Handlers, c \in BOOLEAN, r \in BOOLEAN :
           /\ handler' = [handler EXCEPT ![s] = h] /\ UNCHANGED <<exec, chClosed>>
           /\ cancelled' = [cancelled EXCEPT ![s] = c] /\ (cancelled[s] => c)
           /\ reqDone' = [reqDone EXCEPT ![s] = r] /\ (r => reqDone[s] \/ c)
           /\ h \notin {"idle", "first", "stream"}
           /\ h = "eof" => chClosed[s] /\ ch[s] = <<>> /\ handler[s] = "stream"
    <3>1. /\ \/ cancelled' = [cancelled EXCEPT ![s] = cancelled[s]]
             \/ cancelled' = [cancelled EXCEPT ![s] = TRUE]
          /\ \/ reqDone' = [reqDone EXCEPT ![s] = reqDone[s]]
             \/ /\ reqDone' = [reqDone EXCEPT ![s] = TRUE]
                /\ cancelled' = [cancelled EXCEPT ![s] = TRUE]
          /\ cancelled[s] \in BOOLEAN /\ reqDone[s] \in BOOLEAN
      BY <1>1, <1>4, Zenon DEF OutputType, SendFirstFails, StreamEnds, StreamCancelled, RemoveExec,
              ReleaseExec, ReturnExec, CancelAndClose
    <3>2. /\ UNCHANGED <<exec, chClosed>>
          /\ \E h \in Handlers :
                /\ handler' = [handler EXCEPT ![s] = h]
                /\ h \notin {"idle", "first", "stream"}
                /\ h = "eof" => chClosed[s] /\ ch[s] = <<>> /\ handler[s] = "stream"
      BY <1>4, ZenonT(30) DEF SendFirstFails, StreamEnds, StreamCancelled, RemoveExec, ReleaseExec,
              ReturnExec, HandlerAt, Handlers, streamVars
    <3> QED  BY <3>1, <3>2, Zenon
  <2>2. OutputType'
    BY <1>1, <1>2, <2>1 DEF OutputType
  <2>3. handler'[s] = h /\ cancelled'[s] = c /\ reqDone'[s] = r
    BY <1>1, <2>1, Zenon DEF OutputType
  <2>4. Ends(s)'
    BY <1>1, <1>2, <2>1, <2>3, ZenonT(30) DEF Ends, Over
  <2>5. Same
    BY <1>1, <1>2, <2>1 DEF SameOutput, OutputType
  <2>6. Mono
    BY <2>1, <2>3, Zenon DEF Live
  <2> QED  BY <1>2, <2>2, <2>4, <2>5, <2>6, Unmoved, Zenon
<1>5. CASE Disconnect(s) \/ ReapClose(s)
  <2>1. /\ UNCHANGED <<handler, exec, chClosed>> /\ cancelled' = [cancelled EXCEPT ![s] = TRUE]
        /\ reqDone' = reqDone \/ reqDone' = [reqDone EXCEPT ![s] = TRUE]
    BY <1>5 DEF Disconnect, ReapClose, CancelAndClose, streamVars
  <2>2. OutputType'
    BY <1>1, <1>2, <2>1, Zenon DEF OutputType
  <2>3. cancelled'[s]
    BY <1>1, <2>1 DEF OutputType
  <2>4. Ends(s)'
    BY <1>1, <1>2, <2>1, <2>3, ZenonT(30) DEF Ends, Over
  <2>5. Same
    BY <1>1, <1>2, <2>1 DEF SameOutput, OutputType
  <2>6. Mono
    BY <2>1, <2>3 DEF Live
  <2> QED  BY <1>2, <2>2, <2>4, <2>5, <2>6, Unmoved, ZenonT(30)
<1>6. CASE ExecReturns(s) \/ CloseSizes(s) \/ CloseStdinReader(s)
  <2>1. /\ UNCHANGED <<handler, cancelled, reqDone, chClosed>>
        /\ exec[s] # "none"
        /\ cancelled[s] \/ exec[s] # "run" \/ \A k \in Streams : inflight[s][k] = 0
        /\ \E e \in {"sizes", "stderr", "end"} : exec' = [exec EXCEPT ![s] = e]
    BY <1>6, Zenon DEF ExecReturns, CloseSizes, CloseStdinReader, streamVars
  <2>2. OutputType'
    <3>1. exec' \in [Sessions -> Execs]
      BY <1>1, <2>1, SMTT(30) DEF OutputType, Execs
    <3> QED  BY <1>1, <1>2, <2>1, <3>1, ZenonT(30) DEF OutputType
  <2>3. exec'[s] \in {"sizes", "stderr", "end"}
    BY <1>1, <2>1 DEF OutputType
  <2>4. Ends(s)'
    BY <1>1, <1>2, <2>1, <2>3, ZenonT(30) DEF Ends, Over
  <2>5. Same
    BY <1>1, <1>2, <2>1 DEF SameOutput, OutputType
  <2>6. Mono
    BY <2>1, Zenon DEF Live
  <2> QED  BY <1>2, <2>2, <2>4, <2>5, <2>6, Unmoved, Zenon
<1>7. CASE CloseChannel(s)
  <2>1. /\ UNCHANGED <<handler, cancelled, reqDone, exec>>
        /\ \A k \in Streams : reader[s][k] = "end"
        /\ chClosed' = [chClosed EXCEPT ![s] = TRUE]
    BY <1>7, ZenonT(30) DEF CloseChannel
  <2>2. OutputType'
    BY <1>1, <1>2, <2>1, SMTT(30) DEF OutputType
  <2>3. chClosed'[s]
    BY <1>1, <2>1 DEF OutputType
  <2>4. Ends(s)'
    BY <1>1, <1>2, <2>1, <2>3, ZenonT(30) DEF Ends, Over
  <2>5. Same
    BY <1>1, <1>2, <2>1 DEF SameOutput, OutputType
  <2>6. Mono
    BY <2>1, Zenon DEF Live
  <2> QED  BY <1>2, <2>2, <2>4, <2>5, <2>6, Unmoved, Zenon
<1> QED  BY <1>3, <1>4, <1>5, <1>6, <1>7

output == <<handler, reqDone, cancelled, exec, streamVars>>

\* All other steps leave the output alone.
LEMMA OutputNext == ASSUME OutputInv, [Next]_vars PROVE OutputInv'
<1>1. ASSUME NEW s \in Sessions,
             \/ StartExec(s) \/ StartExecInvalid(s) \/ StartExecRejected(s)
             \/ HandlerStep(s) \/ Disconnect(s)
             \/ ExecReturns(s) \/ ExecEnds(s) \/ CloseChannel(s) \/ ReapClose(s)
      PROVE  OutputInv'
  <2>1. CASE StartExecRejected(s)
    BY <2>1, RejectKeeps
  <2>2. CASE SendFirst(s) \/ StreamChunk(s) \/ StreamChunkFails(s)
    BY <2>2, SendFirstKeeps, SendChunkKeeps, LoseChunkKeeps
  <2>3. CASE CloseWriter(s, "stderr", "stdout") \/ CloseWriter(s, "stdout", "stdin")
    BY <2>3, CloseWriterKeeps DEF Streams
  <2> QED  BY <1>1, <2>1, <2>2, <2>3, ControlKeeps, Zenon DEF HandlerStep, ExecEnds
<1>2. ASSUME NEW s \in Sessions, NEW k \in Streams, CommandWrites(s, k) \/ ReaderStep(s, k)
      PROVE  OutputInv'
  BY <1>2, CommandKeeps, ReadKeeps, ReaderEndKeeps, PassKeeps, Zenon DEF ReaderStep
<1>3. ASSUME UNCHANGED output PROVE OutputInv'
  <2>1. UNCHANGED <<handler, reqDone, cancelled, exec, inflight, written, pipe, reader, held, ch,
                    chClosed, sent>>
    BY <1>3 DEF output, streamVars
  <2>2. ASSUME NEW s \in Sessions PROVE SameOutput(s)
    BY <2>1, ZenonT(30) DEF SameOutput
  <2>3. OutputType'
    BY <2>1 DEF OutputInv, OutputType
  <2>4. CASE Sessions = {}
    BY <2>3, <2>4 DEF OutputInv
  <2>5. ASSUME NEW s \in Sessions PROVE OutputInv'
    <3>1. Ends(s)' /\ (Live(s)' => Live(s)) /\ (cancelled[s] => cancelled'[s])
      BY <2>1, ZenonT(30) DEF OutputInv, Ends, Over, Live
    <3> QED  BY <2>1, <2>2, <2>3, <3>1, Unmoved, Zenon
  <2> QED  BY <2>4, <2>5
<1>4. ASSUME NEW s \in Sessions, NEW w \in Calls,
             \/ GetExec(s, w) \/ WriteFindsDone(s, w) \/ WriteStarts(s, w)
             \/ WriteTaken(s, w) \/ WriteFails(s, w)
             \/ ResizeInvalid(s, w) \/ ResizeStarts(s, w) \/ ResizeMakesRoom(s, w)
      PROVE  UNCHANGED output
  BY <1>4, Zenon DEF output, others, GetExec, WriteFindsDone, WriteStarts, WriteTaken, WriteFails,
              ResizeInvalid, ResizeStarts, ResizeMakesRoom
<1>5. ASSUME NEW s \in Sessions, ExecutorResizes(s) PROVE UNCHANGED output
  BY <1>5 DEF output, others, ExecutorResizes
<1>6. ASSUME ReapStaleSessions \/ \E o \in Others : PutOther(o) \/ RemoveOther(o)
      PROVE  UNCHANGED output
  BY <1>6 DEF output, ReapStaleSessions, PutOther, RemoveOther
<1>7. CASE UNCHANGED vars
  BY <1>3, <1>7 DEF vars, output
<1> QED  BY <1>1, <1>2, <1>3, <1>4, <1>5, <1>6, <1>7, Zenon DEF Next

\* With any number of sessions and of chunks and any capacity of the channel,
\* the client gets each stream in order and without a gap, and all of it when
\* the handler ends at the end of the output and nobody cancelled the session.
THEOREM OutputAlwaysDelivered == Spec => []OutputDelivered
<1>1. ASSUME OutputInv PROVE OutputDelivered
  <2> SUFFICES ASSUME NEW s \in Sessions
               PROVE  \E n \in [Streams -> 0..Chunks] :
                         /\ Carries(sent[s], NoChunks, n)
                         /\ handler[s] = "eof" /\ ~cancelled[s] => n = written[s]
    BY Zenon DEF OutputDelivered
  <2>1. OutputType /\ Ends(s)
    BY <1>1 DEF OutputInv
  <2>2. PICK m \in Counts, n \in Counts : Flow(s, m, n)
    BY <1>1 DEF OutputInv
  <2>3. ASSUME handler[s] = "eof", ~cancelled[s] PROVE m = written[s]
    <3>1. ch[s] = <<>> /\ Carries(ch[s], m, n) /\ \A k \in Streams : Pending(s, k, n[k])
      BY <2>1, <2>2, <2>3, ZenonT(30) DEF Ends, Flow, Live
    <3>2. m = n
      <4>1. m \in [Streams -> Nat] /\ n \in [Streams -> Nat]
        BY ExecAssumption DEF Counts
      <4> QED  BY <3>1, <4>1, CarriesNothing
    <3>3. ASSUME NEW k \in Streams PROVE written[s][k] = n[k]
      <4>1. held[s][k] = 0 /\ inflight[s][k] = 0
        BY <2>1, <2>3 DEF Ends, Over
      <4>2. n[k] \in Nat
        BY ExecAssumption DEF Counts
      <4>3. Whole(0, 0, written[s][k], n[k])
        BY <2>3, <3>1, <4>1, Zenon DEF Pending
      <4> QED  BY <4>2, <4>3, SMTT(30) DEF Whole, One
    <3> QED  BY <2>1, <3>2, <3>3 DEF OutputType, Counts
  <2> QED  BY <2>2, <2>3, ZenonT(30) DEF Flow, Counts
<1> QED  BY OutputStart, OutputNext, <1>1, PTL DEF Spec
=============================================================================
