------------------------ MODULE StreamServiceProofs ------------------------
(***************************************************************************)
(* Stream.Blocks for every cache capacity, hub, channel, window, schedule  *)
(* and number of connections, over a tree without forks: the client's      *)
(* chain has no gap and no foreign block and starts no later than asked.   *)
(***************************************************************************)
EXTENDS StreamService, RelayerServiceStreamProofs

-----------------------------------------------------------------------------
(* The bytes of a cursor *)

\* The equation that defines the recursive function of HeightRest, up to n.
Cuts(g, n, h) == g = [i \in 0 .. n |-> IF i = 0 THEN h ELSE g[i - 1] \div Radix]

\* The recursion of HeightRest is well defined.
LEMMA CutsExist ==
    ASSUME NEW h, NEW n \in Nat
    PROVE  \E g : Cuts(g, n, h)
<1> DEFINE S == {m \in Nat : \E g : Cuts(g, m, h)}
<1>1. 0 \in S
  <2>1. Cuts([i \in 0 .. 0 |-> h], 0, h)
    BY DEF Cuts
  <2> QED
    BY <2>1
<1>2. ASSUME NEW m \in Nat, m \in S PROVE m + 1 \in S
  <2>1. PICK g : Cuts(g, m, h)
    BY <1>2
  <2> DEFINE f == [i \in 0 .. m + 1 |-> IF i = 0 THEN h ELSE g[i - 1] \div Radix]
  <2>2. \A i \in 0 .. m : f[i] = g[i]
    BY <2>1 DEF Cuts
  <2>3. \A i \in 0 .. m + 1 : i # 0 => i - 1 \in 0 .. m
    OBVIOUS
  <2>4. Cuts(f, m + 1, h)
    BY <2>2, <2>3 DEF Cuts
  <2> QED
    BY <2>4
<1> HIDE DEF S
<1>3. Nat \subseteq S
  BY <1>1, <1>2, SetInduction
<1> QED
  BY <1>3 DEF S

\* Cutting off digits one by one.
LEMMA RestSpec ==
    ASSUME NEW h \in Nat
    PROVE  LET r == HeightRest(h)
           IN  /\ r[0] = h
               /\ \A i \in 0 .. HeightBytes : r[i] \in Nat
               /\ \A i \in 1 .. HeightBytes : r[i] = r[i - 1] \div Radix
<1> DEFINE n == HeightBytes
           g == CHOOSE rest : rest = [i \in 0 .. n |-> IF i = 0 THEN h ELSE rest[i - 1] \div Radix]
<1>1. n \in Nat /\ Radix \in Nat /\ Radix > 1
  BY CursorAssumption
<1>2. \E rest : rest = [i \in 0 .. n |-> IF i = 0 THEN h ELSE rest[i - 1] \div Radix]
  <2>1. \E rest : Cuts(rest, n, h)
    BY <1>1, CutsExist
  <2> QED
    BY <2>1 DEF Cuts
<1>3. g = [i \in 0 .. n |-> IF i = 0 THEN h ELSE g[i - 1] \div Radix]
  BY <1>2
<1>4. HeightRest(h) = g
  BY DEF HeightRest
<1> HIDE DEF g, n
<1>5. g[0] = h /\ \A i \in 1 .. n : g[i] = g[i - 1] \div Radix
  <2>1. 0 \in 0 .. n /\ \A i \in 1 .. n : i \in 0 .. n /\ i # 0
    BY <1>1
  <2> QED
    BY <1>3, <2>1
<1> DEFINE S == {m \in Nat : m <= n => g[m] \in Nat}
<1>6. 0 \in S
  BY <1>5
<1>7. ASSUME NEW m \in Nat, m \in S PROVE m + 1 \in S
  <2> SUFFICES ASSUME m + 1 <= n PROVE g[m + 1] \in Nat
    OBVIOUS
  <2>1. m + 1 \in 1 .. n /\ (m + 1) - 1 = m /\ g[m] \in Nat
    BY <1>1, <1>7
  <2>2. g[m + 1] = g[m] \div Radix
    BY <1>5, <2>1
  <2>3. g[m] \div Radix \in Nat
    BY <1>1, <2>1
  <2> QED
    BY <2>2, <2>3
<1> HIDE DEF S
<1>8. Nat \subseteq S
  BY <1>6, <1>7, SetInduction
<1>9. \A i \in 0 .. n : g[i] \in Nat
  BY <1>1, <1>8 DEF S
<1> QED
  BY <1>4, <1>5, <1>9 DEF n

\* from_be_bytes undoes to_be_bytes: reading the digits from the front rebuilds the
\* heights that cutting them off from the back left.
LEMMA HeightReadsBack ==
    ASSUME NEW h \in Nat, HeightRest(h)[HeightBytes] = 0,
           NEW bytes, \A i \in 1 .. HeightBytes : bytes[i] = HeightDigits(h)[i]
    PROVE  HeightOf(bytes) = h
<1> DEFINE n == HeightBytes
           r == HeightRest(h)
           up == [i \in 0 .. n |-> r[n - i]]
           g == CHOOSE f : f = [i \in 0 .. n |-> IF i = 0 THEN 0 ELSE f[i - 1] * Radix + bytes[i]]
<1>1. n \in Nat /\ Radix \in Nat /\ Radix > 1
  BY CursorAssumption
<1>2. /\ r[0] = h /\ r[n] = 0
      /\ \A i \in 0 .. n : r[i] \in Nat
      /\ \A i \in 1 .. n : r[i] = r[i - 1] \div Radix
  BY RestSpec
<1>3. \A i \in 1 .. n : bytes[i] = r[n - i] % Radix
  BY DEF HeightDigits
<1>4. HeightOf(bytes) = g[n]
  BY DEF HeightOf
<1> HIDE DEF r, n, g
<1>5. up[0] = 0 /\ up[n] = h
  <2>1. 0 \in 0 .. n /\ n \in 0 .. n /\ n - 0 = n /\ n - n = 0
    BY <1>1
  <2> QED
    BY <1>2, <2>1
<1>6. ASSUME NEW i \in 1 .. n PROVE up[i] = up[i - 1] * Radix + bytes[i]
  <2> DEFINE x == r[n - i]
             y == r[n - (i - 1)]
  <2>1. /\ i \in 0 .. n /\ i - 1 \in 0 .. n /\ n - i \in 0 .. n
        /\ n - (i - 1) \in 1 .. n /\ (n - (i - 1)) - 1 = n - i
    BY <1>1
  <2>2. up[i] = x /\ up[i - 1] = y
    BY <2>1
  <2>3. x \in Nat /\ y = x \div Radix
    BY <1>2, <2>1
  <2>4. bytes[i] = x % Radix
    BY <1>3
  <2> HIDE DEF x, y
  <2>5. x = (x \div Radix) * Radix + (x % Radix)
    BY <1>1, <2>3
  <2> QED
    BY <2>2, <2>3, <2>4, <2>5
<1>7. up = [i \in 0 .. n |-> IF i = 0 THEN 0 ELSE up[i - 1] * Radix + bytes[i]]
  <2>1. \A i \in 0 .. n : i # 0 => i \in 1 .. n
    BY <1>1
  <2>2. \A i \in 0 .. n : up[i] = IF i = 0 THEN 0 ELSE up[i - 1] * Radix + bytes[i]
    BY <1>5, <1>6, <2>1
  <2>3. up = [i \in 0 .. n |-> up[i]]
    OBVIOUS
  <2> HIDE DEF up
  <2> QED
    BY <2>2, <2>3
<1>8. \E f : f = [i \in 0 .. n |-> IF i = 0 THEN 0 ELSE f[i - 1] * Radix + bytes[i]]
  BY <1>7
<1>9. g = [i \in 0 .. n |-> IF i = 0 THEN 0 ELSE g[i - 1] * Radix + bytes[i]]
  BY <1>8 DEF g
<1> HIDE DEF up
<1> DEFINE S == {m \in Nat : m <= n => g[m] = up[m]}
<1>10. 0 \in S
  <2>1. 0 \in 0 .. n
    BY <1>1
  <2>2. g[0] = 0
    BY <1>9, <2>1
  <2> QED
    BY <1>5, <2>2
<1>11. ASSUME NEW m \in Nat, m \in S PROVE m + 1 \in S
  <2> SUFFICES ASSUME m + 1 <= n PROVE g[m + 1] = up[m + 1]
    OBVIOUS
  <2>1. m + 1 \in 1 .. n /\ m + 1 \in 0 .. n /\ (m + 1) - 1 = m /\ m + 1 # 0 /\ m <= n
    BY <1>1
  <2>2. g[m] = up[m]
    BY <1>11, <2>1
  <2>3. g[m + 1] = g[(m + 1) - 1] * Radix + bytes[m + 1]
    BY <1>9, <2>1
  <2>4. up[m + 1] = up[(m + 1) - 1] * Radix + bytes[m + 1]
    BY <1>6, <2>1
  <2> QED
    BY <2>1, <2>2, <2>3, <2>4
<1> HIDE DEF S
<1>12. Nat \subseteq S
  BY <1>10, <1>11, SetInduction
<1>13. g[n] = up[n]
  BY <1>1, <1>12 DEF S
<1> QED
  BY <1>4, <1>5, <1>13

\* A cursor parses to what was written.
LEMMA CursorReadsBack ==
    ASSUME NEW p, IsCursor(p)
    PROVE  FromBytes(ToBytes(p)) = {p}
<1> DEFINE n == HeightBytes
           m == IdBytes
           d == HeightDigits(p.height)
           e == p.block_id
           b == d \o e
<1>1. n \in Nat /\ m \in Nat /\ n > 0 /\ m > 0 /\ Radix \in Nat /\ Radix > 1
  BY CursorAssumption
<1>2. /\ p.height \in Nat /\ HeightRest(p.height)[n] = 0 /\ e \in [1 .. m -> 0 .. Radix - 1]
      /\ p = [height |-> p.height, block_id |-> e]
  BY DEF IsCursor, IsHeight
<1>3. d \in [1 .. n -> Nat]
  <2>1. \A i \in 1 .. n : n - i \in 0 .. n
    BY <1>1
  <2>2. \A i \in 1 .. n : HeightRest(p.height)[n - i] \in Nat
    BY <1>2, <2>1, RestSpec
  <2>3. \A x \in Nat : x % Radix \in Nat
    BY <1>1
  <2> QED
    BY <2>2, <2>3 DEF HeightDigits
<1>4. d \in Seq(Nat) /\ Len(d) = n
  BY <1>1, <1>3
<1>5. e \in Seq(Nat) /\ Len(e) = m
  <2>1. e \in [1 .. m -> Nat]
    BY <1>1, <1>2
  <2> QED
    BY <1>1, <2>1
<1> HIDE DEF d, e, n, m
<1>6. /\ b \in Seq(Nat) /\ Len(b) = n + m
      /\ \A i \in 1 .. n + m : b[i] = IF i <= n THEN d[i] ELSE e[i - n]
  BY <1>4, <1>5, ConcatProperties
<1>7. ToBytes(p) = b
  BY DEF ToBytes, d, e
<1> HIDE DEF b
<1>8. HeightOf(b) = p.height
  <2>1. \A i \in 1 .. n : i \in 1 .. n + m /\ i <= n
    BY <1>1
  <2>2. \A i \in 1 .. n : b[i] = d[i]
    BY <1>6, <2>1
  <2> QED
    BY <1>2, <2>2, HeightReadsBack DEF n, d
<1>9. SubSeq(b, n + 1, n + m) = e
  <2> DEFINE s == SubSeq(b, n + 1, n + m)
  <2>1. n + 1 \in 1 .. n + m + 1 /\ n + m \in n .. n + m /\ (n + m) - (n + 1) + 1 = m
    BY <1>1
  <2>2. s = [i \in 1 .. m |-> b[i + n]]
    <3>1. s = [i \in 1 .. (1 + (n + m) - (n + 1)) |-> b[i + (n + 1) - 1]]
      BY <1>1, <1>6
    <3>2. 1 + (n + m) - (n + 1) = m /\ \A i \in 1 .. m : i + (n + 1) - 1 = i + n
      BY <1>1
    <3> QED
      BY <3>1, <3>2
  <2>3. \A i \in 1 .. m : i + n \in 1 .. n + m /\ ~ (i + n <= n) /\ (i + n) - n = i
    BY <1>1
  <2>4. \A i \in 1 .. m : s[i] = e[i]
    BY <1>6, <2>2, <2>3
  <2>5. e = [i \in 1 .. m |-> e[i]]
    BY <1>2
  <2> HIDE DEF s
  <2> QED
    BY <2>2, <2>4, <2>5 DEF s
<1>10. FromBytes(b) = {p}
  BY <1>2, <1>6, <1>8, <1>9 DEF FromBytes, n, m
<1> QED
  BY <1>7, <1>10

\* A cursor resumes at the height after its block.
LEMMA CursorResumes ==
    ASSUME NEW id \in Block
    PROVE  CursorStart(id) = {Height[id] + 1}
<1> DEFINE p == CursorOf(id)
<1>1. IsCursor(p) /\ IsHeight(Height[id] + 1)
  BY StreamAssumption
<1>2. FromBytes(ToBytes(p)) = {p}
  BY <1>1, CursorReadsBack
<1>3. p.height = Height[id]
  BY DEF CursorOf
<1> HIDE DEF p
<1>4. CursorStart(id) = {SaturatingInc(p.height)}
  <2>1. CursorStart(id) = {SaturatingInc(cur.height) : cur \in {p}}
    BY <1>2 DEF CursorStart, p
  <2> QED
    BY <2>1
<1>5. SaturatingInc(p.height) = Height[id] + 1
  BY <1>1, <1>3 DEF SaturatingInc
<1> QED
  BY <1>4, <1>5

-----------------------------------------------------------------------------
(* Outputs that carry one chain on *)

\* Output o carries a chain whose newest block is at height a on to height b.
Follows(a, o, b) ==
    /\ o.step # "Undo"
    /\ o.step = "New" => Ht(o.block) = a + 1 /\ b = a + 1
    /\ o.step # "New" => b = a
    /\ o.step = "Irreversible" => Ht(o.block) <= a

\* The heights t, one before each output of q and one behind the last.
Heights(q, t) ==
    /\ t \in [0 .. Len(q) -> Int]
    /\ \A i \in 1 .. Len(q) : Follows(t[i - 1], q[i], t[i])
    /\ \A i, j \in 0 .. Len(q) : i <= j => t[i] <= t[j]

\* The outputs q carry a chain from height a to height b.
Runs(q, a, b) == \E t : Heights(q, t) /\ t[0] = a /\ t[Len(q)] = b

\* They never carry it back.
LEMMA RunsRise ==
    ASSUME NEW q \in Seq(Output), NEW a, NEW b, Runs(q, a, b)
    PROVE  a \in Int /\ b \in Int /\ a <= b
<1>1. PICK t : Heights(q, t) /\ t[0] = a /\ t[Len(q)] = b
  BY DEF Runs
<1>2. Len(q) \in Nat /\ 0 \in 0 .. Len(q) /\ Len(q) \in 0 .. Len(q)
  OBVIOUS
<1> QED
  BY <1>1, <1>2 DEF Heights

\* No outputs.
LEMMA RunsEmpty ==
    ASSUME NEW a
    PROVE  /\ a \in Int => Runs(<<>>, a, a)
           /\ \A b : Runs(<<>>, a, b) => a = b
<1>1. ASSUME a \in Int PROVE Runs(<<>>, a, a)
  <2> DEFINE t == [i \in 0 .. 0 |-> a]
  <2>1. Len(<<>>) = 0 /\ t \in [0 .. 0 -> Int] /\ t[0] = a
    BY <1>1
  <2>2. \A i \in 0 .. 0 : t[i] = a
    OBVIOUS
  <2> HIDE DEF t
  <2>3. Heights(<<>>, t)
    BY <1>1, <2>1, <2>2 DEF Heights
  <2> QED
    BY <2>1, <2>3 DEF Runs
<1>2. ASSUME NEW b, Runs(<<>>, a, b) PROVE a = b
  BY <1>2 DEF Runs
<1> QED
  BY <1>1, <1>2

\* The first output of q, and the others.
LEMMA RunsHead ==
    ASSUME NEW q \in Seq(Output), q # <<>>, NEW a, NEW b, Runs(q, a, b)
    PROVE  \E m \in Int : Follows(a, Head(q), m) /\ Runs(Tail(q), m, b)
<1>1. PICK t : Heights(q, t) /\ t[0] = a /\ t[Len(q)] = b
  BY DEF Runs
<1> DEFINE n == Len(q)
           u == [i \in 0 .. n - 1 |-> t[i + 1]]
<1>2. /\ n \in Nat /\ n >= 1 /\ Len(Tail(q)) = n - 1 /\ Head(q) = q[1]
      /\ Tail(q) \in Seq(Output) /\ \A k \in 1 .. n - 1 : Tail(q)[k] = q[k + 1]
  <2>1. n \in Nat /\ n >= 1 /\ Head(q) = q[1]
    BY EmptySeq
  <2> QED
    BY <2>1, MoveHead
<1>3. /\ t \in [0 .. n -> Int]
      /\ \A i \in 1 .. n : Follows(t[i - 1], q[i], t[i])
      /\ \A i, j \in 0 .. n : i <= j => t[i] <= t[j]
  BY <1>1 DEF Heights
<1> HIDE DEF n
<1>4. /\ u \in [0 .. n - 1 -> Int] /\ u[0] = t[1] /\ u[n - 1] = t[n]
      /\ \A i \in 0 .. n - 1 : u[i] = t[i + 1]
  BY <1>2, <1>3
<1> HIDE DEF u
<1>5. ASSUME NEW k \in 1 .. n - 1 PROVE Follows(u[k - 1], Tail(q)[k], u[k])
  <2>1. /\ k + 1 \in 1 .. n /\ (k + 1) - 1 = k /\ k - 1 \in 0 .. n - 1 /\ (k - 1) + 1 = k
        /\ k \in 0 .. n - 1
    BY <1>2
  <2>2. u[k - 1] = t[k] /\ u[k] = t[k + 1]
    BY <1>4, <2>1
  <2>3. Follows(t[k], q[k + 1], t[k + 1])
    BY <1>3, <2>1
  <2> QED
    BY <1>2, <2>2, <2>3
<1>6. ASSUME NEW i \in 0 .. n - 1, NEW j \in 0 .. n - 1, i <= j PROVE u[i] <= u[j]
  BY <1>2, <1>3, <1>4, <1>6
<1>7. Heights(Tail(q), u)
  BY <1>2, <1>4, <1>5, <1>6 DEF Heights
<1>8. Runs(Tail(q), t[1], b)
  BY <1>1, <1>2, <1>4, <1>7 DEF Runs, n
<1>9. 1 \in 1 .. n /\ 1 \in 0 .. n /\ 1 - 1 = 0
  BY <1>2
<1>10. t[1] \in Int /\ Follows(t[0], q[1], t[1])
  BY <1>3, <1>9
<1> QED
  BY <1>1, <1>2, <1>8, <1>10

\* One more output.
LEMMA RunsAppend ==
    ASSUME NEW q \in Seq(Output), NEW o \in Output, NEW a, NEW m, Runs(q, a, m),
           NEW b, Follows(m, o, b)
    PROVE  Runs(Append(q, o), a, b)
<1>1. PICK t : Heights(q, t) /\ t[0] = a /\ t[Len(q)] = m
  BY DEF Runs
<1> DEFINE n == Len(q)
           r == Append(q, o)
           u == [i \in 0 .. n + 1 |-> IF i <= n THEN t[i] ELSE b]
<1>2. /\ n \in Nat /\ Len(r) = n + 1 /\ r[n + 1] = o /\ \A k \in 1 .. n : r[k] = q[k]
  BY AppendProperties
<1>3. /\ t \in [0 .. n -> Int] /\ t[n] = m
      /\ \A i \in 1 .. n : Follows(t[i - 1], q[i], t[i])
      /\ \A i, j \in 0 .. n : i <= j => t[i] <= t[j]
  BY <1>1 DEF Heights
<1> HIDE DEF n, r
<1>4. b \in Int /\ m \in Int /\ m <= b
  <2>1. m \in Int
    BY <1>2, <1>3
  <2> QED
    BY <2>1 DEF Follows
<1>5. /\ u \in [0 .. n + 1 -> Int] /\ u[0] = t[0] /\ u[n + 1] = b
      /\ \A i \in 0 .. n : u[i] = t[i]
  BY <1>2, <1>3, <1>4
<1> HIDE DEF u
<1>6. ASSUME NEW k \in 1 .. n + 1 PROVE Follows(u[k - 1], r[k], u[k])
  <2>1. CASE k = n + 1
    <3>1. k - 1 = n /\ n \in 0 .. n
      BY <1>2, <2>1
    <3> QED
      BY <1>2, <1>3, <1>5, <2>1, <3>1
  <2>2. CASE k # n + 1
    <3>1. k \in 1 .. n /\ k - 1 \in 0 .. n /\ k \in 0 .. n
      BY <1>2, <2>2
    <3> QED
      BY <1>2, <1>3, <1>5, <3>1
  <2> QED
    BY <2>1, <2>2
<1>7. ASSUME NEW i \in 0 .. n + 1, NEW j \in 0 .. n + 1, i <= j PROVE u[i] <= u[j]
  <2>1. n \in 0 .. n /\ \A k \in 0 .. n + 1 : k \in 0 .. n \/ k = n + 1
    BY <1>2
  <2>2. \A k \in 0 .. n : t[k] <= m /\ t[k] \in Int
    BY <1>2, <1>3, <2>1
  <2>3. CASE j = n + 1
    BY <1>2, <1>4, <1>5, <2>1, <2>2, <2>3
  <2>4. CASE j # n + 1
    <3>1. i \in 0 .. n /\ j \in 0 .. n
      BY <1>2, <1>7, <2>4
    <3> QED
      BY <1>3, <1>5, <1>7, <3>1
  <2> QED
    BY <2>3, <2>4
<1>8. Heights(r, u)
  BY <1>2, <1>5, <1>6, <1>7 DEF Heights
<1> QED
  BY <1>1, <1>2, <1>5, <1>8 DEF Runs, r

\* Outputs that begin with n News, none or one of them, at height h, and go on with
\* ledger entries and Irreversibles at or below h.
OneCall(q, n, h) ==
    \A i \in 1 .. Len(q) :
        IF i <= n THEN q[i].step = "New" /\ Ht(q[i].block) = h
        ELSE /\ q[i].step \notin {"New", "Undo"}
             /\ q[i].step = "Irreversible" => Ht(q[i].block) <= h

\* They carry the chain to h.
LEMMA RunsCall ==
    ASSUME NEW q \in Seq(Output), NEW h \in Int, NEW n \in 0 .. 1, n <= Len(q),
           OneCall(q, n, h)
    PROVE  Runs(q, h - n, h)
<1> DEFINE t == [i \in 0 .. Len(q) |-> IF i = 0 THEN h - n ELSE h]
<1>1. Len(q) \in Nat /\ n \in Int /\ 0 <= n /\ n <= 1
  OBVIOUS
<1>2. /\ t \in [0 .. Len(q) -> Int] /\ t[0] = h - n
      /\ \A i \in 1 .. Len(q) : t[i] = h
  BY <1>1
<1>3. t[Len(q)] = h
  BY <1>1, <1>2
<1> HIDE DEF t
<1>4. ASSUME NEW i \in 1 .. Len(q) PROVE Follows(t[i - 1], q[i], t[i])
  <2>1. CASE i <= n
    <3>1. i = 1 /\ n = 1 /\ t[i - 1] = h - 1 /\ t[i] = h /\ (h - 1) + 1 = h
      BY <1>1, <1>2, <2>1
    <3> QED
      BY <2>1, <3>1 DEF Follows, OneCall
  <2>2. CASE ~ (i <= n)
    <3>1. t[i] = h /\ t[i - 1] = h
      <4>1. CASE i = 1
        BY <1>1, <1>2, <2>2, <4>1
      <4>2. CASE i # 1
        <5>1. i - 1 \in 1 .. Len(q)
          BY <1>1, <4>2
        <5> QED
          BY <1>2, <5>1
      <4> QED
        BY <4>1, <4>2
    <3> QED
      BY <2>2, <3>1 DEF Follows, OneCall
  <2> QED
    BY <2>1, <2>2
<1>5. \A i, j \in 0 .. Len(q) : i <= j => t[i] <= t[j]
  <2>1. \A i \in 0 .. Len(q) : i = 0 \/ i \in 1 .. Len(q)
    BY <1>1
  <2> QED
    BY <1>1, <1>2, <2>1
<1>6. Heights(q, t)
  BY <1>2, <1>4, <1>5 DEF Heights
<1> QED
  BY <1>2, <1>3, <1>6 DEF Runs

-----------------------------------------------------------------------------
(* The engine on a tree without forks *)

\* The buffer c ends at height h.
TipAt(c, h) == c # <<>> /\ Ht(c[Len(c)]) = h

\* What a settled call returns carries the chain to the end of the buffer.
LEMMA SettleRuns ==
    ASSUME last_irreversible_height \in OptHeight,
           NEW c \in Seq(Entry), Contiguous(c), NEW h \in Nat, TipAt(c, h),
           NEW fh \in Seq(Observation), NEW head \in OptHeight,
           NEW out \in Seq(Output), Len(out) \in 0 .. 1,
           Len(out) = 1 => out[1].step = "New" /\ Ht(out[1].block) = h,
           Settle(c, fh, head, out)
    PROVE  Runs(ret'.out, h - Len(out), h)
<1> DEFINE fresh == FreshlyFinal(c, head, last_irreversible_height)
           irr == IrreversibleOutputs(c, head, last_irreversible_height)
           res == ForkOutputs(fh, head)
           q == (out \o irr) \o res
<1>1. ret'.out = q
  BY DEF Settle, Ok
<1>2. /\ irr \in Seq(Output) /\ Len(irr) = Len(fresh)
      /\ \A k \in 1 .. Len(irr) : irr[k].step = "Irreversible" /\ irr[k].block = fresh[k]
  BY IrreversibleOutputsSpec
<1>3. res \in Seq(Output) /\ \A k \in 1 .. Len(res) : res[k].step = "ForkResolved"
  BY ForkOutputsSpec
<1>4. \A k \in 1 .. Len(fresh) : \E j \in 1 .. Len(c) : fresh[k] = c[j]
  <2> DEFINE w == WalkLen(c, last_irreversible_height)
  <2>1. \A k \in 1 .. Len(fresh) : w + k \in 1 .. Len(c) /\ fresh[k] = c[w + k]
    BY FreshlyFinalSpec
  <2> HIDE DEF w, fresh
  <2> QED
    BY <2>1
<1>5. \A j \in 1 .. Len(c) : Ht(c[j]) <= h
  <2>1. Len(c) \in Nat /\ 1 \in 1 .. Len(c) /\ Len(c) \in 1 .. Len(c)
    BY EmptySeq DEF TipAt
  <2>2. PICK x \in Nat : x = Ht(c[1])
    BY <2>1, HtType
  <2>3. h = x + Len(c) - 1
    BY <2>1, <2>2 DEF Contiguous, TipAt
  <2>4. \A j \in 1 .. Len(c) : Ht(c[j]) = x + j - 1
    BY <2>2 DEF Contiguous
  <2> QED
    BY <2>1, <2>3, <2>4
<1> HIDE DEF fresh, irr, res
<1>6. \A k \in 1 .. Len(irr) : irr[k].step = "Irreversible" /\ Ht(irr[k].block) <= h
  BY <1>2, <1>4, <1>5
<1>7. /\ q \in Seq(Output) /\ Len(q) = Len(out) + Len(irr) + Len(res)
      /\ \A k \in 1 .. Len(out) + Len(irr) + Len(res) :
            q[k] = IF k <= Len(out) THEN out[k]
                   ELSE IF k <= Len(out) + Len(irr) THEN irr[k - Len(out)]
                   ELSE res[k - (Len(out) + Len(irr))]
  <2>1. irr \in Seq(Output) /\ res \in Seq(Output)
    BY <1>2, <1>3
  <2> QED
    BY <2>1, ConcatThree
<1>8. PICK n \in 0 .. 1, x \in Nat, y \in Nat : n = Len(out) /\ x = Len(irr) /\ y = Len(res)
  BY <1>2, <1>3
<1> HIDE DEF q
<1>9. ASSUME NEW k \in 1 .. Len(q)
      PROVE  IF k <= n THEN q[k].step = "New" /\ Ht(q[k].block) = h
             ELSE /\ q[k].step \notin {"New", "Undo"}
                  /\ q[k].step = "Irreversible" => Ht(q[k].block) <= h
  <2>1. k \in 1 .. n + x + y
    BY <1>7, <1>8
  <2>2. q[k] = IF k <= n THEN out[k] ELSE IF k <= n + x THEN irr[k - n] ELSE res[k - (n + x)]
    BY <1>7, <1>8, <2>1
  <2>3. CASE k <= n
    <3>1. k = 1 /\ n = 1
      BY <2>1, <2>3
    <3> QED
      BY <1>8, <2>2, <2>3, <3>1
  <2>4. CASE ~ (k <= n) /\ k <= n + x
    <3>1. k - n \in 1 .. Len(irr)
      BY <1>8, <2>1, <2>4
    <3> QED
      BY <1>6, <2>2, <2>4, <3>1
  <2>5. CASE ~ (k <= n) /\ ~ (k <= n + x)
    <3>1. k - (n + x) \in 1 .. Len(res)
      BY <1>8, <2>1, <2>5
    <3> QED
      BY <1>3, <2>2, <2>5, <3>1
  <2> QED
    BY <2>3, <2>4, <2>5
<1>10. n <= Len(q)
  BY <1>7, <1>8
<1>11. OneCall(q, n, h)
  BY <1>9 DEF OneCall
<1>12. Runs(q, h - n, h)
  <2>1. q \in Seq(Output) /\ h \in Int
    BY <1>7
  <2> QED
    BY <1>10, <1>11, <2>1, RunsCall
<1> QED
  BY <1>1, <1>8, <1>12

\* A push of b behind the buffer.
LEMMA PushRuns ==
    ASSUME TypeOK, NEW c \in Seq(Entry), Linked(c), Contiguous(c), c # <<>>,
           NEW b \in Block, c[Len(c)].id = b,
           canonical' = Pruned(c), Settle(c, fork_history, solidified_head, <<NewOutput(b)>>)
    PROVE  /\ TipAt(canonical', Height[b])
           /\ Runs(ret'.out, Height[b] - 1, Height[b])
<1> DEFINE h == Height[b]
           out == <<NewOutput(b)>>
<1>1. h \in Nat /\ TipAt(c, h)
  BY ChainAssumption DEF TipAt, Ht
<1>2. out \in Seq(Output) /\ Len(out) = 1 /\ out[1] = NewOutput(b)
  BY NewOutputType
<1>3. NewOutput(b).step = "New" /\ Ht(NewOutput(b).block) = h
  BY DEF NewOutput, Streamable, Ht
<1>4. /\ last_irreversible_height \in OptHeight /\ solidified_head \in OptHeight
      /\ fork_history \in Seq(Observation)
  BY DEF TypeOK
<1> HIDE DEF out
<1>5. Settle(c, fork_history, solidified_head, out) /\ Len(out) \in 0 .. 1
  BY <1>2 DEF out
<1> HIDE DEF h
<1>6. Runs(ret'.out, h - Len(out), h)
  BY <1>1, <1>2, <1>3, <1>4, <1>5, SettleRuns
<1>7. TipAt(canonical', h)
  <2> DEFINE d == Pruned(c)
             p == PruneLen(c)
  <2>1. /\ p \in 0 .. Len(c) /\ d \in Seq(Entry) /\ Len(d) = Len(c) - p
        /\ \A i \in 1 .. Len(d) : p + i \in 1 .. Len(c) /\ d[i] = c[p + i]
    BY PrunedSpec
  <2>2. Len(c) \in Nat /\ Len(c) >= 1 /\ p < Len(c)
    <3>1. Len(c) \in Nat /\ Len(c) >= 1
      BY EmptySeq
    <3>2. BufferWindow \in Nat /\ BufferWindow >= 1
      BY EngineAssumption
    <3> QED
      BY <3>1, <3>2 DEF PruneLen
  <2> HIDE DEF d, p
  <2>3. Len(d) \in 1 .. Len(d) /\ p + Len(d) = Len(c) /\ Len(d) >= 1
    BY <2>1, <2>2
  <2>4. d[Len(d)] = c[Len(c)] /\ d # <<>>
    <3>1. d[Len(d)] = c[p + Len(d)]
      BY <2>1, <2>3
    <3>2. d # <<>>
      BY <2>3
    <3> QED
      BY <2>3, <3>1, <3>2
  <2> QED
    BY <1>1, <2>4 DEF TipAt, d
<1> QED
  BY <1>2, <1>6, <1>7 DEF h

\* On a tree without forks the parent of a new block is the tip or unknown.
LEMMA NoReorg ==
    ASSUME OneBranch, IInv, NEW b \in Block
    PROVE  ~ ReorgCandidate(b)
<1> SUFFICES ASSUME ReorgCandidate(b) PROVE FALSE
  OBVIOUS
<1>1. PICK a \in 1 .. Len(canonical) - 1 : canonical[a].id = Parent[b]
  BY AncestorSpec
<1>2. Len(canonical) \in Nat
  BY BufferFacts
<1>3. /\ a \in 1 .. Len(canonical) /\ a + 1 \in 1 .. Len(canonical)
      /\ 1 \in 1 .. Len(canonical) /\ a \in Int
  BY <1>2
<1>4. canonical[a] \in Entry /\ canonical[a + 1] \in Entry /\ Ht(canonical[1]) \in Nat
  BY <1>3, BufferFacts
<1>5. Parent[b] \in Block /\ Height[b] = Ht(canonical[a]) + 1
  BY <1>1, <1>4, ChainAssumption DEF Entry, Ht
<1>6. /\ Ht(canonical[a]) = Ht(canonical[1]) + a - 1
      /\ Ht(canonical[a + 1]) = Ht(canonical[1]) + (a + 1) - 1
  BY <1>3, BufferFacts DEF Contiguous
<1>7. PICK x \in Nat : x = Ht(canonical[1])
  BY <1>4
<1>8. Height[b] = Ht(canonical[a + 1])
  BY <1>3, <1>5, <1>6, <1>7
<1>9. canonical[a + 1].id = b
  BY <1>4, <1>8 DEF OneBranch, Entry, Ht
<1>10. b \in canonical_ids
  BY <1>3, <1>9, BufferFacts
<1> QED
  BY <1>10 DEF ReorgCandidate

\* An engine that has seen nothing stays silent or begins a chain.
Begins ==
    \/ canonical' = <<>> /\ fork_history' = <<>> /\ ret'.out = <<>>
    \/ \E g \in Nat : TipAt(canonical', g) /\ Runs(ret'.out, g - 1, g)

\* An engine whose tip is at height h carries the chain on from there.
CarriesOn(h) == \E g \in Nat : TipAt(canonical', g) /\ Runs(ret'.out, h, g)

\* What a call of the engine does on a tree without forks.
LEMMA CallRuns ==
    ASSUME OneBranch, IInv,
           \/ \E b \in Block : Accept(b)
           \/ \E h \in SolidHead : SetSolidifiedHead(h)
    PROVE  /\ canonical = <<>> /\ fork_history = <<>> => Begins
           /\ \A h : TipAt(canonical, h) => CarriesOn(h)
<1> DEFINE Goal == /\ canonical = <<>> /\ fork_history = <<>> => Begins
                   /\ \A h : TipAt(canonical, h) => CarriesOn(h)
<1>1. /\ TypeOK /\ last_irreversible_height \in OptHeight /\ solidified_head \in OptHeight
      /\ fork_history \in Seq(Observation) /\ next_fork_id \in 0 .. ForkIdModulus - 1
  BY DEF IInv, TypeOK
<1>2. /\ canonical \in Seq(Entry) /\ Len(canonical) \in Nat
      /\ Linked(canonical) /\ Contiguous(canonical)
      /\ \A i \in 1 .. Len(canonical) : canonical[i] \in Entry /\ Ht(canonical[i]) \in Nat
  BY BufferFacts
<1>3. \A h : TipAt(canonical, h) =>
               /\ h \in Nat /\ Len(canonical) \in 1 .. Len(canonical)
               /\ canonical[Len(canonical)] \in Entry
  BY <1>2, EmptySeq DEF TipAt
<1>4. ASSUME UNCHANGED <<canonical, fork_history>>, ret'.out = <<>> PROVE Goal
  <2>1. \A h \in Nat : Runs(<<>>, h, h)
    BY RunsEmpty
  <2> QED
    BY <1>3, <1>4, <2>1 DEF Begins, CarriesOn, TipAt
<1>5. ASSUME NEW b \in Block, PushCanonicalFirst(b) \/ ExtendCanonical(b) PROVE Goal
  <2> DEFINE e == [id |-> b, fork_id |-> next_fork_id]
             c == Append(canonical, e)
  <2>1. /\ canonical' = Pruned(c)
        /\ Settle(c, fork_history, solidified_head, <<NewOutput(b)>>)
        /\ canonical # <<>> => Parent[b] = canonical[Len(canonical)].id
    BY <1>5 DEF PushCanonicalFirst, ExtendCanonical, Push, Tip
  <2>2. e \in Entry /\ e.id = b
    BY <1>1 DEF Entry
  <2> HIDE DEF e
  <2>3. c \in Seq(Entry) /\ Linked(c) /\ Contiguous(c)
    BY <1>2, <2>1, <2>2, AppendBranch
  <2>4. c # <<>> /\ c[Len(c)] = e
    BY <1>2, <2>2, AppendProperties
  <2> HIDE DEF c
  <2>5. TipAt(canonical', Height[b]) /\ Runs(ret'.out, Height[b] - 1, Height[b])
    BY <1>1, <2>1, <2>2, <2>3, <2>4, PushRuns
  <2>6. Height[b] \in Nat
    BY ChainAssumption
  <2>7. ASSUME NEW h, TipAt(canonical, h) PROVE Height[b] - 1 = h
    <3>1. h \in Nat /\ canonical[Len(canonical)] \in Entry /\ canonical # <<>>
      BY <1>3, <2>7 DEF TipAt
    <3>2. Parent[b] \in Block /\ Height[Parent[b]] = h
      BY <2>1, <2>7, <3>1 DEF Entry, TipAt, Ht
    <3>3. Height[b] = h + 1
      BY <3>2, ChainAssumption
    <3> QED
      BY <3>1, <3>3
  <2> QED
    BY <2>5, <2>6, <2>7 DEF Begins, CarriesOn
<1>6. ASSUME NEW head \in SolidHead, AdvanceHead(head) PROVE Goal
  <2>1. /\ Settle(canonical, fork_history, head, <<>>) /\ canonical' = canonical
        /\ head \in OptHeight
    BY <1>6, EngineAssumption DEF AdvanceHead, OptHeight
  <2>2. ASSUME NEW h, TipAt(canonical, h) PROVE CarriesOn(h)
    <3>1. h \in Nat
      BY <1>3, <2>2
    <3>2. PICK out : out \in Seq(Output) /\ out = <<>>
      <4>1. <<>> \in Seq(Output)
        OBVIOUS
      <4> QED
        BY <4>1
    <3>3. Len(out) = 0 /\ h - 0 = h /\ Settle(canonical, fork_history, head, out)
      BY <2>1, <3>1, <3>2
    <3>4. Len(out) \in 0 .. 1 /\ (Len(out) = 1 => out[1].step = "New" /\ Ht(out[1].block) = h)
      BY <3>3
    <3>5. Runs(ret'.out, h - Len(out), h)
      BY <1>1, <1>2, <2>1, <2>2, <3>1, <3>2, <3>3, <3>4, SettleRuns
    <3> QED
      BY <2>1, <2>2, <3>1, <3>3, <3>5 DEF CarriesOn
  <2>3. ASSUME canonical = <<>>, fork_history = <<>> PROVE Begins
    <3> DEFINE irr == IrreversibleOutputs(<<>>, head, last_irreversible_height)
               fresh == FreshlyFinal(<<>>, head, last_irreversible_height)
               res == Resolved(<<>>, head)
    <3>1. /\ ret'.out = (<<>> \o irr) \o ForkOutputs(<<>>, head)
          /\ fork_history' = SubSeq(<<>>, Len(res) + 1, 0)
      BY <2>1, <2>3 DEF Settle, Ok
    <3>2. irr = <<>>
      <4>1. <<>> \in Seq(Entry) /\ Len(<<>>) = 0 /\ Contiguous(<<>>)
        BY <1>2, <2>3
      <4>2. WalkLen(<<>>, head) \in 0 .. 0
        BY <2>1, <4>1, WalkLenSpec
      <4>3. /\ irr \in Seq(Output) /\ Len(irr) = Len(fresh)
        BY <1>1, <2>1, <4>1, IrreversibleOutputsSpec
      <4>4. LET w == WalkLen(<<>>, last_irreversible_height)
            IN  /\ w \in 0 .. 0
                /\ Len(fresh) = IF w + 1 <= WalkLen(<<>>, head)
                                THEN WalkLen(<<>>, head) - w ELSE 0
        BY <1>1, <2>1, <4>1, FreshlyFinalSpec
      <4>5. Len(irr) = 0
        BY <4>2, <4>3, <4>4
      <4> QED
        BY <4>3, <4>5, EmptySeq
    <3>3. <<>> \in Seq(Observation) /\ Len(<<>>) = 0
      OBVIOUS
    <3>4. res \in Seq(Observation) /\ Len(res) \in 0 .. 0
      BY <2>1, <3>3, ResolvedSpec
    <3>5. ForkOutputs(<<>>, head) = <<>>
      <4>1. ForkOutputs(<<>>, head) = [i \in 1 .. Len(res) |-> ForkResolved(res[i], head)]
        BY DEF ForkOutputs
      <4>2. Len(res) = 0
        BY <3>4
      <4> QED
        BY <4>1, <4>2
    <3>6. ret'.out = <<>>
      BY <3>1, <3>2, <3>5
    <3>7. fork_history' = <<>>
      <4>1. fork_history' = SubSeq(<<>>, 1, 0)
        BY <3>1, <3>4
      <4> QED
        BY <4>1
    <3> QED
      BY <2>1, <2>3, <3>6, <3>7 DEF Begins
  <2> QED
    BY <2>2, <2>3
<1>7. ASSUME NEW b \in Block, Accept(b) PROVE Goal
  <2>1. ~ RefuseReorg(b) /\ ~ HandleReorg(b)
    BY NoReorg DEF RefuseReorg, HandleReorg
  <2>2. CASE RejectDuplicate(b) \/ RejectUnknownParent(b)
    <3>1. UNCHANGED <<canonical, fork_history>> /\ ret'.out = <<>>
      BY <2>2 DEF RejectDuplicate, RejectUnknownParent, Err
    <3> QED
      BY <1>4, <3>1
  <2> QED
    BY <1>5, <1>7, <2>1, <2>2 DEF Accept
<1>8. ASSUME NEW h \in SolidHead, IgnoreHead(h) PROVE Goal
  <2>1. UNCHANGED <<canonical, fork_history>> /\ ret'.out = <<>>
    BY <1>8 DEF IgnoreHead, Ok
  <2> QED
    BY <1>4, <2>1
<1> HIDE DEF Goal
<1>9. Goal
  BY <1>6, <1>7, <1>8 DEF SetSolidifiedHead
<1> QED
  BY <1>9 DEF Goal

-----------------------------------------------------------------------------
(* The cache on a tree without forks *)

\* The cache c holds blocks at their heights, none above m, and one at m if any.
Shows(c, m) ==
    /\ \A k \in DOMAIN c.by_height :
          k <= m /\ c.by_height[k].id \in Block /\ Height[c.by_height[k].id] = k
    /\ DOMAIN c.by_height # {} => m \in DOMAIN c.by_height

\* A block above all that is cached comes in, and is not evicted.
LEMMA NewestInserted ==
    ASSUME CacheInv, NEW m \in Int, Shows(cache, m), NEW e \in Entry, Ht(e) = m + 1
    PROVE  Shows(Insert(cache, Ht(e), e.id, e), m + 1)
<1> DEFINE h == Ht(e)
           row == [id |-> e.id, value |-> e]
           put == [by_height |-> With(Without(cache.by_height, Moved(cache, h, e.id)), h, row),
                   by_id |-> With(Without(cache.by_id, Displaced(cache, h, e.id)), e.id, h)]
           gone == Excess(put.by_height)
           d == DropHeights(put, gone)
           D == DOMAIN cache.by_height
<1>1. Insert(cache, h, e.id, e) = d
  BY DEF Insert
<1>2. h \in Nat /\ e.id \in Block /\ Height[e.id] = h /\ row.id = e.id
  BY HtType DEF Entry, Ht
<1>3. h = m + 1
  OBVIOUS
<1> HIDE DEF h, row
<1>4. /\ h \in DOMAIN put.by_height /\ put.by_height[h] = row
      /\ \A k \in DOMAIN put.by_height :
            k # h => k \in D /\ put.by_height[k] = cache.by_height[k]
  BY DEF With, Without
<1> HIDE DEF put
<1>5. \A k \in D : k \in Nat
  BY CacheAssumption DEF CacheInv, Typed
<1>6. ASSUME NEW k \in DOMAIN put.by_height
      PROVE  /\ k \in Nat /\ k <= h
             /\ put.by_height[k].id \in Block /\ Height[put.by_height[k].id] = k
  <2>1. CASE k = h
    BY <1>2, <1>4, <2>1
  <2>2. CASE k # h
    <3>1. k \in D /\ put.by_height[k] = cache.by_height[k] /\ k <= m
      BY <1>4, <2>2 DEF Shows
    <3> QED
      BY <1>3, <1>5, <3>1 DEF Shows
  <2> QED
    BY <2>1, <2>2
<1>7. /\ DOMAIN d.by_height = DOMAIN put.by_height \ gone
      /\ \A k \in DOMAIN d.by_height : d.by_height[k] = put.by_height[k]
  BY DEF DropHeights, Without
<1>8. h \notin gone
  <2>1. {k \in DOMAIN put.by_height : k > h} = {}
    BY <1>2, <1>6
  <2>2. Cardinality({k \in DOMAIN put.by_height : k > h}) = 0
    BY <2>1, FS_EmptySet
  <2> QED
    BY <2>2, CacheAssumption DEF Excess
<1> HIDE DEF d, gone
<1>9. Shows(d, h)
  BY <1>4, <1>6, <1>7, <1>8 DEF Shows
<1> QED
  BY <1>1, <1>3, <1>9 DEF h

-----------------------------------------------------------------------------
(* The client *)

\* Height of the newest block of a chain of blocks.
Newest(c) == Height[c[Len(c)]]

\* The heights of the blocks c count up by one.
CountsUp(c) == \A i \in 1 .. Len(c) : Height[c[i]] = Height[c[1]] + i - 1

\* What the client c holds has no gap, starts no later than asked, and its cursor is
\* not ahead of it.
ClientOK(c) ==
    /\ c = [chain |-> c.chain, cursor |-> c.cursor, from |-> c.from, ok |-> c.ok,
            connects |-> c.connects]
    /\ c.chain \in Seq(Block) /\ CountsUp(c.chain)
    /\ c.ok = TRUE
    /\ c.from \in Nat
    /\ c.cursor \in Block \cup {NoBlock}
    /\ c.chain # <<>> =>
          /\ c.cursor # NoBlock /\ Height[c.cursor] <= Newest(c.chain)
          /\ c.from # 0 => Height[c.chain[1]] <= c.from

\* A block at height h leaves no gap at the client c.
Fits(c, h) ==
    IF c.chain = <<>> THEN c.from # 0 => h <= c.from ELSE h <= Newest(c.chain) + 1

\* The chain of a client, taken apart.
LEMMA ChainFacts ==
    ASSUME NEW c \in Seq(Block), CountsUp(c), c # <<>>
    PROVE  /\ Len(c) \in Nat /\ Len(c) >= 1 /\ DOMAIN c = 1 .. Len(c)
           /\ 1 \in 1 .. Len(c) /\ Len(c) \in 1 .. Len(c)
           /\ Newest(c) \in Nat /\ Height[c[1]] \in Nat
           /\ Newest(c) = Height[c[1]] + Len(c) - 1
<1>1. Len(c) \in Nat /\ Len(c) >= 1 /\ DOMAIN c = 1 .. Len(c)
  BY EmptySeq
<1>2. 1 \in 1 .. Len(c) /\ Len(c) \in 1 .. Len(c)
  BY <1>1
<1>3. c[1] \in Block /\ c[Len(c)] \in Block
  BY <1>1, <1>2
<1> QED
  BY <1>1, <1>2, <1>3, ChainAssumption DEF CountsUp, Newest

\* No blocks count up.
LEMMA NothingCounts == <<>> \in Seq(Block) /\ CountsUp(<<>>)
<1>1. Len(<<>>) = 0 /\ <<>> \in Seq(Block)
  OBVIOUS
<1>2. 1 .. 0 = {}
  OBVIOUS
<1> QED
  BY <1>1, <1>2 DEF CountsUp

\* A New that fits: held, old, or the next.
LEMMA ClientTakes ==
    ASSUME OneBranch, NEW c, ClientOK(c), NEW id \in Block, Fits(c, Height[id]),
           NEW d, d = ClientApply(c, "New", id)
    PROVE  /\ ClientOK(d) /\ d.chain # <<>> /\ Newest(d.chain) >= Height[id]
           /\ c.chain # <<>> => Newest(d.chain) >= Newest(c.chain)
<1> DEFINE h == Height[id]
           held == id \in {c.chain[i] : i \in DOMAIN c.chain}
           old == c.chain # <<>> /\ h < Height[c.chain[1]]
           tip == c.chain[Len(c.chain)]
           more == Append(c.chain, id)
<1>1. h \in Nat /\ id # NoBlock /\ c.chain \in Seq(Block)
  BY ChainAssumption DEF ClientOK
<1>2. CASE ~ held /\ ~ old
  <2> DEFINE joins == c.chain # <<>> => Parent[id] = tip
  <2>1. d = [chain |-> more, cursor |-> id, from |-> c.from, ok |-> joins,
             connects |-> c.connects]
    BY <1>2 DEF ClientApply, ClientOK
  <2>2. ASSUME joins = TRUE, CountsUp(more), c.from # 0 => Height[more[1]] <= c.from,
               Newest(more) = h, more \in Seq(Block)
        PROVE  ClientOK(d)
    <3> HIDE DEF more, joins
    <3>1. /\ d.chain = more /\ d.cursor = id /\ d.from = c.from /\ d.ok = joins
          /\ d = [chain |-> d.chain, cursor |-> d.cursor, from |-> d.from, ok |-> d.ok,
                  connects |-> d.connects]
      BY <2>1
    <3>2. d.ok = TRUE
      BY <2>2, <3>1
    <3>3. c.from \in Nat
      BY DEF ClientOK
    <3> QED
      BY <1>1, <2>2, <3>1, <3>2, <3>3 DEF ClientOK
  <2>3. /\ more \in Seq(Block) /\ Len(more) = Len(c.chain) + 1 /\ Len(c.chain) \in Nat
        /\ more[Len(c.chain) + 1] = id /\ \A i \in 1 .. Len(c.chain) : more[i] = c.chain[i]
    BY <1>1, AppendProperties
  <2>4. Newest(more) = h /\ more # <<>>
    BY <2>3 DEF Newest
  <2>5. CASE c.chain = <<>>
    <3>1. Len(c.chain) = 0 /\ more[1] = id /\ Len(more) = 1
      BY <2>3, <2>5
    <3>2. CountsUp(more)
      BY <1>1, <3>1 DEF CountsUp
    <3>3. c.from # 0 => Height[more[1]] <= c.from
      BY <2>5, <3>1 DEF Fits
    <3>4. joins = TRUE
      BY <2>5
    <3> HIDE DEF more, joins
    <3>5. ClientOK(d)
      BY <2>2, <2>3, <2>4, <3>2, <3>3, <3>4
    <3> QED
      BY <1>1, <2>1, <2>4, <2>5, <3>5
  <2>6. CASE c.chain # <<>>
    <3> DEFINE L == Len(c.chain)
               x == Height[c.chain[1]]
    <3>1. /\ L \in Nat /\ L >= 1 /\ x \in Nat /\ DOMAIN c.chain = 1 .. L
          /\ L \in 1 .. L /\ 1 \in 1 .. L
          /\ Newest(c.chain) = x + L - 1 /\ \A i \in 1 .. L : Height[c.chain[i]] = x + i - 1
      BY <2>6, ChainFacts DEF ClientOK, CountsUp
    <3>2. h <= x + L /\ h >= x
      <4>1. h <= Newest(c.chain) + 1
        BY <2>6 DEF Fits
      <4>2. ~ (h < x)
        BY <1>2, <2>6
      <4> QED
        BY <1>1, <3>1, <4>1, <4>2
    <3>3. h = x + L
      <4> SUFFICES ASSUME h # x + L PROVE FALSE
        OBVIOUS
      <4>1. (h - x) + 1 \in 1 .. L /\ x + ((h - x) + 1) - 1 = h
        BY <1>1, <3>1, <3>2
      <4>2. PICK i \in 1 .. L : Height[c.chain[i]] = h
        BY <3>1, <4>1
      <4>3. c.chain[i] \in Block
        BY <1>1, <4>2
      <4>4. c.chain[i] = id
        BY <4>2, <4>3 DEF OneBranch
      <4> QED
        BY <1>2, <3>1, <4>2, <4>4
    <3>4. CountsUp(more)
      <4>1. ASSUME NEW i \in 1 .. Len(more) PROVE Height[more[i]] = Height[more[1]] + i - 1
        <5>1. more[1] = c.chain[1]
          BY <2>3, <3>1
        <5>2. CASE i = L + 1
          BY <2>3, <3>1, <3>3, <5>1, <5>2
        <5>3. CASE i # L + 1
          <6>1. i \in 1 .. L
            BY <2>3, <3>1, <5>3
          <6> QED
            BY <2>3, <3>1, <5>1, <6>1
        <5> QED
          BY <5>2, <5>3
      <4> QED
        BY <4>1 DEF CountsUp
    <3>5. Parent[id] = tip
      <4>1. tip \in Block
        BY <1>1, <3>1
      <4>2. Height[tip] = x + L - 1
        BY <3>1 DEF Newest
      <4> HIDE DEF h, x, L, tip
      <4>3. h = Height[tip] + 1
        BY <1>1, <3>1, <3>3, <4>2
      <4> QED
        BY <4>1, <4>3 DEF OneBranch, h
    <3>6. joins = TRUE
      BY <3>5
    <3>7. more[1] = c.chain[1]
      BY <2>3, <3>1
    <3> HIDE DEF more, joins
    <3>8. c.from # 0 => Height[c.chain[1]] <= c.from
      BY <2>6 DEF ClientOK
    <3>9. ClientOK(d)
      BY <2>3, <2>4, <2>2, <3>4, <3>7, <3>6, <3>8
    <3> QED
      BY <1>1, <2>1, <2>4, <3>1, <3>3, <3>9
  <2> QED
    BY <2>5, <2>6
<1>3. CASE held \/ old
  <2>1. d = [chain |-> c.chain, cursor |-> id, from |-> c.from, ok |-> c.ok,
             connects |-> c.connects]
    BY <1>3 DEF ClientApply, ClientOK
  <2>2. c.chain # <<>>
    BY <1>3
  <2>3. Newest(c.chain) \in Nat /\ h <= Newest(c.chain)
    <3> DEFINE L == Len(c.chain)
               x == Height[c.chain[1]]
    <3>1. /\ L \in Nat /\ L >= 1 /\ x \in Nat /\ DOMAIN c.chain = 1 .. L
          /\ Newest(c.chain) \in Nat
          /\ Newest(c.chain) = x + L - 1 /\ \A i \in 1 .. L : Height[c.chain[i]] = x + i - 1
      BY <2>2, ChainFacts DEF ClientOK, CountsUp
    <3>2. CASE held
      <4>1. PICK i \in 1 .. L : c.chain[i] = id
        BY <3>1, <3>2
      <4>2. h = x + i - 1
        BY <3>1, <4>1
      <4> QED
        BY <3>1, <4>2
    <3>3. CASE old
      BY <1>1, <3>1, <3>3
    <3> QED
      BY <1>3, <3>2, <3>3
  <2>4. ClientOK(d)
    BY <1>1, <2>1, <2>3 DEF ClientOK
  <2> QED
    BY <1>1, <2>1, <2>2, <2>3, <2>4
<1> QED
  BY <1>2, <1>3

\* A response that is no New and not ahead of the chain moves the cursor only.
LEMMA ClientNotes ==
    ASSUME NEW c, ClientOK(c), NEW id \in Block,
           c.chain # <<>> => Height[id] <= Newest(c.chain),
           NEW d, d = ClientApply(c, "Irreversible", id)
    PROVE  ClientOK(d) /\ d.chain = c.chain /\ d.from = c.from
<1>1. d = [chain |-> c.chain, cursor |-> id, from |-> c.from, ok |-> c.ok,
           connects |-> c.connects]
  BY DEF ClientApply, ClientOK
<1>2. id # NoBlock
  BY ChainAssumption
<1> QED
  BY <1>1, <1>2 DEF ClientOK

-----------------------------------------------------------------------------
(* The inductive invariant *)

\* What does not depend on where the stream is: the session's types, that what it was
\* asked for and what it is about to ship leave no gap, and that de-duplication drops
\* only what the client has been sent.
SessionOK ==
    /\ sess \in {"off", "subscribed", "walking", "live"}
    /\ ring = [items |-> ring.items, lagged |-> ring.lagged]
    /\ ring.items \in Seq(Output) /\ ring.lagged \in BOOLEAN
    /\ rows \in Seq(Block) /\ CountsUp(rows)
    /\ start \in Nat /\ top \in Int /\ dedup \in Int
    /\ sess = "off" => ring = FreshRing
    /\ sess # "live" => rows = <<>> /\ dedup = None
    /\ sess \in {"subscribed", "walking"} => Fits(client, start)
    /\ sess = "walking" => start <= top + 1
    /\ rows # <<>> => Fits(client, Height[rows[1]]) /\ Newest(rows) = dedup
    /\ rows = <<>> /\ dedup # None =>
          client.chain # <<>> /\ dedup <= Newest(client.chain)

\* Live outputs that begin behind height a meet what the session ships before them.
JoinsLive(a) ==
    ~ ring.lagged =>
        /\ sess = "walking" => a <= top
        /\ sess = "live" /\ rows # <<>> => a <= dedup
        /\ sess = "live" /\ rows = <<>> => Fits(client, a + 1)

\* Where the one chain is: the receiver has read it up to a and holds it up to p, the
\* channel up to s, the cache up to m and the engine up to h.  A closed channel is
\* empty, and its receiver gets nothing any more.
Flow(a, p, s, m, h) ==
    /\ m \in Int
    /\ Runs(ring.items, a, p) /\ p <= m
    /\ ~ closed => /\ Runs(channel, p, s)
                   /\ IF fed THEN Follows(s, Head(outbox), m) ELSE s = m
    /\ Runs(Pending, m, h)
    /\ TipAt(canonical, h)
    /\ Shows(cache, m)

\* Nothing has been accepted yet.
Silent ==
    /\ outbox = <<>> /\ channel = <<>> /\ ring.items = <<>> /\ fork_history = <<>>
    /\ CachedHeights = {}
    /\ client.chain = <<>> /\ rows = <<>> /\ sess # "walking"
    /\ sess = "live" => client.from = 0

Underway ==
    \/ canonical = <<>> /\ Silent
    \/ \E a, p, s, m, h : Flow(a, p, s, m, h) /\ JoinsLive(a)

\* The inductive invariant.
FirehoseInv ==
    /\ ServiceInv /\ CacheInv
    /\ ClientOK(client) /\ SessionOK
    /\ Underway

\* The order of the five heights.
LEMMA FlowFacts ==
    ASSUME ServiceInv, SessionOK, NEW a, NEW p, NEW s, NEW m, NEW h, Flow(a, p, s, m, h)
    PROVE  /\ a \in Int /\ p \in Int /\ m \in Int /\ h \in Int /\ a <= p /\ p <= m
           /\ canonical # <<>>
           /\ ~ closed => s \in Int /\ p <= s
<1>1. a \in Int /\ p \in Int /\ a <= p
  BY RunsRise DEF Flow, SessionOK
<1>2. ~ closed => s \in Int /\ p <= s
  BY RunsRise DEF Flow, ServiceInv
<1>3. Pending \in Seq(Output)
  BY MoveHead DEF ServiceInv, Pending
<1>4. h \in Int
  BY <1>3, RunsRise DEF Flow
<1> QED
  BY <1>1, <1>2, <1>4 DEF Flow, TipAt

-----------------------------------------------------------------------------
(* Steps of the relayer *)

\* A call of the engine.
LEMMA CallFlows ==
    ASSUME OneBranch, FirehoseInv, EngineCall, UNCHANGED <<sessionVars, client>>
    PROVE  Underway'
<1>1. /\ outbox = <<>> /\ outbox' = ret'.out /\ ~ fed /\ IInv
      /\ UNCHANGED <<fed, channel, closed, cache>>
  BY DEF EngineCall, FirehoseInv, ServiceInv
<1>2. \/ \E b \in Block : Accept(b)
      \/ \E h \in SolidHead : SetSolidifiedHead(h)
  BY DEF EngineCall
<1>3. /\ canonical = <<>> /\ fork_history = <<>> => Begins
      /\ \A h : TipAt(canonical, h) => CarriesOn(h)
  BY <1>1, <1>2, CallRuns
<1>4. UNCHANGED <<sess, start, top, ring, rows, dedup, client>>
  BY DEF sessionVars
<1>5. Pending = <<>> /\ Pending' = ret'.out
  BY <1>1 DEF Pending
<1>6. CASE canonical = <<>> /\ Silent
  <2>1. Begins
    BY <1>3, <1>6 DEF Silent
  <2>2. CASE canonical' = <<>> /\ fork_history' = <<>> /\ ret'.out = <<>>
    BY <1>1, <1>4, <1>6, <2>2 DEF Underway, Silent, CachedHeights
  <2>3. ASSUME NEW g \in Nat, TipAt(canonical', g), Runs(ret'.out, g - 1, g)
        PROVE  Underway'
    <3>1. PICK x \in Int : x = g - 1
      OBVIOUS
    <3>2. Runs(<<>>, x, x) /\ Runs(ret'.out, x, g)
      BY <2>3, <3>1, RunsEmpty
    <3>3. Shows(cache, x)
      BY <1>6 DEF Silent, Shows, CachedHeights
    <3>4. Flow(x, x, x, x, g)'
      BY <1>1, <1>4, <1>5, <1>6, <2>3, <3>1, <3>2, <3>3 DEF Flow, Silent
    <3>5. JoinsLive(x)'
      BY <1>4, <1>6 DEF JoinsLive, Silent, Fits
    <3> QED
      BY <3>4, <3>5 DEF Underway
  <2> QED
    BY <2>1, <2>2, <2>3 DEF Begins
<1>7. ASSUME NEW a, NEW p, NEW s, NEW m, NEW h, Flow(a, p, s, m, h), JoinsLive(a)
      PROVE  Underway'
  <2>1. m = h
    BY <1>5, <1>7, RunsEmpty DEF Flow
  <2>2. PICK g \in Nat : TipAt(canonical', g) /\ Runs(ret'.out, h, g)
    BY <1>3, <1>7 DEF Flow, CarriesOn
  <2>3. Flow(a, p, s, m, g)'
    BY <1>1, <1>4, <1>5, <1>7, <2>1, <2>2 DEF Flow
  <2>4. JoinsLive(a)'
    BY <1>4, <1>7 DEF JoinsLive, Fits, Newest
  <2> QED
    BY <2>3, <2>4 DEF Underway
<1> QED
  BY <1>6, <1>7 DEF FirehoseInv, Underway

\* The horizon and the cache are shown the next output.
LEMMA FeedFlows ==
    ASSUME FirehoseInv, FeedOutput, UNCHANGED engineVars, UNCHANGED <<sessionVars, client>>
    PROVE  Underway'
<1> DEFINE o == Head(outbox)
<1>1. /\ outbox # <<>> /\ ~ fed /\ fed' = TRUE /\ cache' = FeedCache(cache, o)
      /\ UNCHANGED <<outbox, channel, closed>> /\ canonical' = canonical
  BY DEF FeedOutput, engineVars
<1>2. UNCHANGED <<sess, start, top, ring, rows, dedup, client>>
  BY DEF sessionVars
<1>3. outbox \in Seq(Output) /\ CacheInv
  BY DEF FirehoseInv, ServiceInv
<1>4. Pending = outbox /\ Pending' = Tail(outbox)
  BY <1>1 DEF Pending
<1>5. PICK a, p, s, m, h : Flow(a, p, s, m, h) /\ JoinsLive(a)
  BY <1>1 DEF FirehoseInv, Underway, Silent
<1>6. PICK n \in Int : Follows(m, o, n) /\ Runs(Tail(outbox), n, h)
  BY <1>1, <1>3, <1>4, <1>5, RunsHead DEF Flow
<1>7. m \in Int /\ p \in Int /\ p <= m /\ m <= n
  <2>1. m \in Int /\ p \in Int /\ p <= m
    BY <1>5, FlowFacts DEF FirehoseInv
  <2> QED
    BY <1>6, <2>1 DEF Follows
<1>8. o \in Output
  BY <1>1, <1>3, MoveHead
<1>9. Shows(cache', n)
  <2> HIDE DEF o
  <2>1. CASE o.step = "New"
    <3>1. o.block \in Entry /\ Ht(o.block) = m + 1 /\ n = m + 1
      BY <1>6, <1>8, <2>1 DEF Output, Follows
    <3>2. cache' = Insert(cache, Ht(o.block), o.block.id, o.block)
      BY <1>1, <2>1 DEF FeedCache
    <3> QED
      BY <1>3, <1>5, <1>7, <3>1, <3>2, NewestInserted DEF Flow
  <2>2. CASE o.step # "New"
    <3>1. cache' = cache /\ n = m
      BY <1>1, <1>6, <2>2 DEF FeedCache, Follows
    <3> QED
      BY <1>5, <3>1 DEF Flow
  <2> QED
    BY <2>1, <2>2
<1>10. p <= n
  BY <1>7
<1> HIDE DEF o
<1>11. ~ closed => Runs(channel, p, s) /\ Follows(s, o, n)
  BY <1>1, <1>5, <1>6 DEF Flow
<1>12. Flow(a, p, s, n, h)'
  BY <1>1, <1>2, <1>4, <1>5, <1>6, <1>9, <1>10, <1>11 DEF Flow, o
<1>13. JoinsLive(a)'
  BY <1>2, <1>5 DEF JoinsLive, Fits, Newest
<1> QED
  BY <1>12, <1>13 DEF Underway

\* It goes into the channel.
LEMMA SendFlows ==
    ASSUME FirehoseInv, SendOutput, UNCHANGED engineVars, UNCHANGED <<sessionVars, client>>
    PROVE  Underway'
<1> DEFINE o == Head(outbox)
<1>1. /\ fed /\ ~ closed /\ channel' = Append(channel, o) /\ outbox' = Tail(outbox)
      /\ fed' = FALSE /\ UNCHANGED <<closed, cache>> /\ canonical' = canonical
  BY DEF SendOutput, TakeFirst, engineVars
<1>2. UNCHANGED <<sess, start, top, ring, rows, dedup, client>>
  BY DEF sessionVars
<1>3. outbox \in Seq(Output) /\ channel \in Seq(Output) /\ outbox # <<>>
  BY <1>1 DEF FirehoseInv, ServiceInv
<1>4. Pending' = Pending
  BY <1>1 DEF Pending
<1>5. PICK a, p, s, m, h : Flow(a, p, s, m, h) /\ JoinsLive(a)
  BY <1>3 DEF FirehoseInv, Underway, Silent
<1>6. o \in Output
  BY <1>3, MoveHead
<1>7. Runs(channel, p, s) /\ Follows(s, o, m)
  BY <1>1, <1>5 DEF Flow
<1> HIDE DEF o
<1>8. Runs(channel', p, m)
  BY <1>1, <1>3, <1>6, <1>7, RunsAppend
<1>9. Flow(a, p, m, m, h)'
  BY <1>1, <1>2, <1>4, <1>5, <1>8 DEF Flow
<1>10. JoinsLive(a)'
  BY <1>2, <1>5 DEF JoinsLive, Fits, Newest
<1> QED
  BY <1>9, <1>10 DEF Underway

\* The channel is closed.
LEMMA CloseFlows ==
    ASSUME FirehoseInv, CloseChannel, UNCHANGED engineVars, UNCHANGED <<sessionVars, client>>
    PROVE  Underway'
<1>1. /\ closed' = TRUE /\ channel' = <<>> /\ UNCHANGED <<outbox, fed, cache>>
      /\ canonical' = canonical /\ fork_history' = fork_history
  BY DEF CloseChannel, engineVars
<1>2. UNCHANGED <<sess, start, top, ring, rows, dedup, client>>
  BY DEF sessionVars
<1>3. CASE canonical = <<>> /\ Silent
  BY <1>1, <1>2, <1>3 DEF Underway, Silent, CachedHeights
<1>4. ASSUME NEW a, NEW p, NEW s, NEW m, NEW h, Flow(a, p, s, m, h), JoinsLive(a)
      PROVE  Underway'
  <2>1. Pending' = Pending
    BY <1>1 DEF Pending
  <2>2. Flow(a, p, s, m, h)'
    BY <1>1, <1>2, <1>4, <2>1 DEF Flow
  <2>3. JoinsLive(a)'
    BY <1>2, <1>4 DEF JoinsLive, Fits, Newest
  <2> QED
    BY <2>2, <2>3 DEF Underway
<1> QED
  BY <1>3, <1>4 DEF FirehoseInv, Underway

\* Nothing of this moves.
LEMMA RestFlows ==
    ASSUME FirehoseInv, UNCHANGED <<engineVars, outbox, fed, channel, closed, cache>>,
           UNCHANGED <<sessionVars, client>>
    PROVE  Underway'
<1>1. /\ UNCHANGED <<outbox, fed, cache, closed, channel>>
      /\ canonical' = canonical /\ fork_history' = fork_history
  BY DEF engineVars
<1>2. UNCHANGED <<sess, start, top, ring, rows, dedup, client>>
  BY DEF sessionVars
<1>3. CASE canonical = <<>> /\ Silent
  BY <1>1, <1>2, <1>3 DEF Underway, Silent, CachedHeights
<1>4. ASSUME NEW a, NEW p, NEW s, NEW m, NEW h, Flow(a, p, s, m, h), JoinsLive(a)
      PROVE  Underway'
  <2>1. Pending' = Pending
    BY <1>1 DEF Pending
  <2>2. Flow(a, p, s, m, h)'
    BY <1>1, <1>2, <1>4, <2>1 DEF Flow
  <2>3. JoinsLive(a)'
    BY <1>2, <1>4 DEF JoinsLive, Fits, Newest
  <2> QED
    BY <2>2, <2>3 DEF Underway
<1> QED
  BY <1>3, <1>4 DEF FirehoseInv, Underway

\* The pump takes an output off the channel and publishes it.
LEMMA PumpFlows ==
    ASSUME FirehoseInv, PumpOutput
    PROVE  SessionOK' /\ Underway'
<1> DEFINE o == Head(channel)
<1>1. /\ channel # <<>> /\ ~ closed /\ channel' = Tail(channel)
      /\ UNCHANGED <<outbox, fed, closed, cache>> /\ canonical' = canonical
      /\ ring' = IF sess = "off" THEN ring ELSE Broadcast(ring, o)
      /\ UNCHANGED <<sess, start, top, rows, dedup, client>>
  BY DEF PumpOutput, Recv, engineVars
<1>2. /\ channel \in Seq(Output) /\ SessionOK /\ ServiceInv
  BY DEF FirehoseInv, ServiceInv
<1>3. /\ ring = [items |-> ring.items, lagged |-> ring.lagged]
      /\ ring.items \in Seq(Output) /\ ring.lagged \in BOOLEAN
  BY <1>2 DEF SessionOK
<1>4. PICK a, p, s, m, h : Flow(a, p, s, m, h) /\ JoinsLive(a)
  BY <1>1 DEF FirehoseInv, Underway, Silent
<1>5. Runs(ring.items, a, p) /\ Runs(channel, p, s)
  BY <1>1, <1>4 DEF Flow
<1>6. PICK n \in Int : Follows(p, o, n) /\ Runs(Tail(channel), n, s)
  BY <1>1, <1>2, <1>5, RunsHead
<1>7. o \in Output /\ Tail(channel) \in Seq(Output)
  BY <1>1, <1>2, MoveHead
<1>8. n <= m
  <2>1. n <= s /\ s \in Int /\ m \in Int
    BY <1>1, <1>2, <1>4, <1>6, <1>7, FlowFacts, RunsRise
  <2>2. s <= m
    <3>1. CASE fed
      BY <1>1, <1>4, <2>1, <3>1 DEF Flow, Follows
    <3>2. CASE ~ fed
      BY <1>1, <1>4, <2>1, <3>2 DEF Flow
    <3> QED
      BY <3>1, <3>2
  <2> QED
    BY <2>1, <2>2
<1>9. Pending' = Pending
  BY <1>1 DEF Pending
<1> HIDE DEF o
<1>10. ASSUME NEW b, Runs(ring'.items, b, n) PROVE Flow(b, n, s, m, h)'
  BY <1>1, <1>4, <1>6, <1>8, <1>9, <1>10 DEF Flow
<1>11. CASE sess = "off"
  <2>1. ring' = ring /\ ring.items = <<>>
    BY <1>1, <1>2, <1>11 DEF SessionOK, FreshRing
  <2>2. Runs(ring'.items, n, n)
    BY <1>6, <2>1, RunsEmpty
  <2>3. JoinsLive(n)'
    BY <1>1, <1>11 DEF JoinsLive
  <2>4. SessionOK'
    BY <1>1, <1>2, <2>1 DEF SessionOK, Fits, Newest, CountsUp
  <2> QED
    BY <1>10, <2>2, <2>3, <2>4 DEF Underway
<1>12. ASSUME sess # "off", NEW b, NEW q \in Seq(Output), NEW l \in BOOLEAN,
              ring' = [items |-> q, lagged |-> l], Runs(q, b, n),
              l = FALSE => ~ ring.lagged /\ b = a
       PROVE  SessionOK' /\ Underway'
  <2>1. ring'.items = q /\ ring'.lagged = l
    BY <1>12
  <2>2. JoinsLive(b)'
    <3>1. CASE l = FALSE
      BY <1>1, <1>4, <1>12, <2>1, <3>1 DEF JoinsLive, Fits, Newest
    <3>2. CASE l = TRUE
      BY <2>1, <3>2 DEF JoinsLive
    <3> QED
      BY <1>12, <3>1, <3>2
  <2>3. SessionOK'
    BY <1>1, <1>2, <1>12, <2>1 DEF SessionOK, Fits, Newest, CountsUp
  <2> QED
    BY <1>10, <1>12, <2>1, <2>2, <2>3 DEF Underway
<1>13. CASE sess # "off" /\ Len(ring.items) < HubCapacity
  <2> DEFINE q == Append(ring.items, o)
  <2>1. ring' = [items |-> q, lagged |-> ring.lagged]
    BY <1>1, <1>3, <1>13 DEF Broadcast
  <2>2. q \in Seq(Output) /\ Runs(q, a, n)
    BY <1>3, <1>5, <1>6, <1>7, RunsAppend, AppendProperties
  <2> HIDE DEF q
  <2> QED
    BY <1>3, <1>12, <1>13, <2>1, <2>2
<1>14. CASE sess # "off" /\ ~ (Len(ring.items) < HubCapacity)
  <2> DEFINE t == Tail(ring.items)
             q == Append(t, o)
  <2>1. ring' = [items |-> q, lagged |-> TRUE]
    BY <1>1, <1>14 DEF Broadcast
  <2>2. ring.items # <<>>
    BY <1>14, HubAssumption
  <2>3. PICK b \in Int : Runs(t, b, p)
    BY <1>3, <1>5, <2>2, RunsHead
  <2>4. t \in Seq(Output)
    BY <1>3, <2>2, MoveHead
  <2> HIDE DEF t
  <2>5. q \in Seq(Output) /\ Runs(q, b, n)
    BY <1>6, <1>7, <2>3, <2>4, RunsAppend, AppendProperties
  <2> HIDE DEF q
  <2> QED
    BY <1>12, <1>14, <2>1, <2>5
<1> QED
  BY <1>11, <1>13, <1>14

-----------------------------------------------------------------------------
(* Steps of the session *)

\* The end of a session.
LEMMA EndFlows ==
    ASSUME FirehoseInv, EndSession, UNCHANGED <<serviceVars, client>>
    PROVE  ClientOK(client)' /\ SessionOK' /\ Underway'
<1>1. /\ sess' = "off" /\ start' = 0 /\ top' = 0 /\ ring' = FreshRing
      /\ rows' = <<>> /\ dedup' = None /\ client' = client
  BY DEF EndSession
<1>2. UNCHANGED <<canonical, fork_history, outbox, fed, channel, closed, cache>>
  BY DEF serviceVars, serviceOnly, engineVars
<1>3. /\ FreshRing = [items |-> FreshRing.items, lagged |-> FreshRing.lagged]
      /\ FreshRing.items = <<>> /\ FreshRing.lagged = FALSE
  BY DEF FreshRing
<1>4. ClientOK(client)'
  BY <1>1 DEF FirehoseInv
<1>5. SessionOK'
  <2>1. <<>> \in Seq(Output)
    OBVIOUS
  <2>2. <<>> \in Seq(Block) /\ CountsUp(<<>>)
    BY NothingCounts
  <2>3. 0 \in Nat /\ 0 \in Int /\ None \in Int
    BY DEF None
  <2>4. ring'.items = <<>> /\ ring'.lagged = FALSE
    BY <1>1, <1>3
  <2>5. ring' = [items |-> ring'.items, lagged |-> ring'.lagged]
    BY <1>1, <1>3
  <2> HIDE DEF None
  <2> QED
    BY <1>1, <2>1, <2>2, <2>3, <2>4, <2>5 DEF SessionOK
<1>6. ASSUME canonical = <<>> /\ Silent PROVE Underway'
  BY <1>1, <1>2, <1>3, <1>6 DEF Underway, Silent, CachedHeights
<1>7. ASSUME NEW a, NEW p, NEW s, NEW m, NEW h, Flow(a, p, s, m, h), JoinsLive(a)
      PROVE  Underway'
  <2>1. p \in Int
    BY <1>7, FlowFacts DEF FirehoseInv
  <2>2. Runs(<<>>, p, p) /\ Pending' = Pending
    BY <1>2, <2>1, RunsEmpty DEF Pending
  <2>3. Flow(p, p, s, m, h)'
    BY <1>1, <1>2, <1>3, <1>7, <2>2 DEF Flow
  <2>4. JoinsLive(p)'
    BY <1>1 DEF JoinsLive
  <2> QED
    BY <2>3, <2>4 DEF Underway
<1> QED
  BY <1>4, <1>5, <1>6, <1>7 DEF FirehoseInv, Underway

\* A client connects.
LEMMA ConnectFlows ==
    ASSUME FirehoseInv, NEW x \in StartBlock, Connect(x)
    PROVE  ClientOK(client)' /\ SessionOK' /\ Underway'
<1>1. /\ sess = "off" /\ ring' = FreshRing /\ UNCHANGED <<top, rows, dedup>>
      /\ start' \in IF client.cursor # NoBlock THEN CursorStart(client.cursor) ELSE {x}
      /\ sess' = IF start' = 0 THEN "live" ELSE "subscribed"
      /\ client' = [client EXCEPT !.connects = @ + 1,
                                  !.from = IF client.chain = <<>> THEN start' ELSE @]
  BY DEF Connect, StartHeight
<1>2. UNCHANGED <<canonical, fork_history, outbox, fed, channel, closed, cache>>
  BY DEF Connect, serviceVars, serviceOnly, engineVars
<1>3. ClientOK(client) /\ SessionOK /\ ServiceInv
  BY DEF FirehoseInv
<1>4. ring = FreshRing /\ rows = <<>> /\ dedup = None
  BY <1>1, <1>3 DEF SessionOK
<1>5. /\ client'.chain = client.chain /\ client'.cursor = client.cursor
      /\ client'.ok = client.ok
      /\ client'.from = IF client.chain = <<>> THEN start' ELSE client.from
      /\ client' = [chain |-> client'.chain, cursor |-> client'.cursor, from |-> client'.from,
                    ok |-> client'.ok, connects |-> client'.connects]
  BY <1>1, <1>3 DEF ClientOK
<1>6. /\ start' \in Nat
      /\ client.cursor # NoBlock => start' = Height[client.cursor] + 1 /\ start' # 0
  <2>1. CASE client.cursor # NoBlock
    <3>1. client.cursor \in Block
      BY <1>3, <2>1 DEF ClientOK
    <3>2. Height[client.cursor] \in Nat
      BY <3>1, ChainAssumption
    <3> QED
      BY <1>1, <2>1, <3>1, <3>2, CursorResumes
  <2>2. CASE client.cursor = NoBlock
    BY <1>1, <2>2, StreamAssumption
  <2> QED
    BY <2>1, <2>2
<1>7. ClientOK(client')
  <2> DEFINE c == client
             d == client'
  <2>1. /\ d.chain \in Seq(Block) /\ CountsUp(d.chain) /\ d.ok = TRUE
        /\ d.cursor \in Block \cup {NoBlock} /\ d.from \in Nat
    BY <1>3, <1>5, <1>6 DEF ClientOK
  <2>2. d.chain # <<>> =>
          /\ d.cursor # NoBlock /\ Height[d.cursor] <= Newest(d.chain)
          /\ d.from # 0 => Height[d.chain[1]] <= d.from
    BY <1>3, <1>5 DEF ClientOK
  <2> QED
    BY <1>5, <2>1, <2>2 DEF ClientOK
<1>8. Fits(client', start')
  <2>1. CASE client.chain = <<>>
    BY <1>5, <1>6, <2>1 DEF Fits
  <2>2. CASE client.chain # <<>>
    <3>1. client.cursor \in Block /\ Height[client.cursor] <= Newest(client.chain)
      BY <1>3, <2>2 DEF ClientOK
    <3>2. start' = Height[client.cursor] + 1 /\ Height[client.cursor] \in Nat
      BY <1>3, <1>6, <2>2, <3>1, ChainAssumption DEF ClientOK
    <3>3. Newest(client.chain) \in Nat
      BY <1>3, <2>2, ChainFacts DEF ClientOK
    <3>4. start' <= Newest(client.chain) + 1
      BY <3>1, <3>2, <3>3
    <3> QED
      BY <1>5, <2>2, <3>4 DEF Fits
  <2> QED
    BY <2>1, <2>2
<1>9. sess' = "live" => client.chain = <<>> /\ client'.from = 0
  BY <1>1, <1>3, <1>5, <1>6 DEF ClientOK
<1>10. SessionOK'
  <2>1. rows' = <<>> /\ dedup' = None /\ ring' = ring /\ top' = top
    BY <1>1, <1>4
  <2>2. sess' \in {"live", "subscribed"}
    BY <1>1
  <2> QED
    BY <1>3, <1>4, <1>6, <1>8, <2>1, <2>2 DEF SessionOK
<1>11. ASSUME canonical = <<>> /\ Silent PROVE Underway'
  <2>1. ring' = ring /\ rows' = rows
    BY <1>1, <1>4
  <2>2. sess' # "walking" /\ (sess' = "live" => client'.from = 0)
    BY <1>1, <1>9
  <2>3. Silent'
    BY <1>2, <1>5, <1>11, <2>1, <2>2 DEF Silent, CachedHeights
  <2> QED
    BY <1>2, <1>11, <2>3 DEF Underway
<1>12. ASSUME NEW a, NEW p, NEW s, NEW m, NEW h, Flow(a, p, s, m, h), JoinsLive(a)
       PROVE  Underway'
  <2>1. Pending' = Pending
    BY <1>2 DEF Pending
  <2>2. Flow(a, p, s, m, h)'
    BY <1>1, <1>2, <1>4, <1>12, <2>1 DEF Flow
  <2>3. JoinsLive(a)'
    <3>1. sess' = "live" => Fits(client', a + 1)
      BY <1>5, <1>9 DEF Fits
    <3> QED
      BY <1>1, <1>4, <3>1 DEF JoinsLive
  <2> QED
    BY <2>2, <2>3 DEF Underway
<1> QED
  BY <1>7, <1>10, <1>11, <1>12 DEF FirehoseInv, Underway

\* The session reads the window of the cache.
LEMMA WindowFlows ==
    ASSUME FirehoseInv, ReadWindow
    PROVE  ClientOK(client)' /\ SessionOK' /\ Underway'
<1>1. UNCHANGED <<serviceVars, client>> /\ sess = "subscribed"
  BY DEF ReadWindow
<1>2. CASE ~ Covered(start)
  <2>1. EndSession
    BY <1>2 DEF ReadWindow
  <2> QED
    BY <1>1, <2>1, EndFlows
<1>3. CASE Covered(start)
  <2>1. /\ sess' = "walking" /\ top' = Highest /\ UNCHANGED <<start, ring, rows, dedup>>
        /\ client' = client
    BY <1>1, <1>3 DEF ReadWindow
  <2>2. UNCHANGED <<canonical, fork_history, outbox, fed, channel, closed, cache>>
    BY <1>1 DEF serviceVars, serviceOnly, engineVars
  <2>3. CachedHeights # {} /\ start <= Highest + 1
    BY <1>3 DEF Covered
  <2>4. ClientOK(client) /\ SessionOK /\ ServiceInv /\ CacheInv
    BY DEF FirehoseInv
  <2>5. PICK a, p, s, m, h : Flow(a, p, s, m, h) /\ JoinsLive(a)
    BY <2>3 DEF FirehoseInv, Underway, Silent
  <2>6. a \in Int /\ m \in Int /\ p \in Int /\ a <= p /\ p <= m
    BY <2>4, <2>5, FlowFacts
  <2>7. m \in CachedHeights /\ \A k \in CachedHeights : k <= m /\ k \in Nat
    BY <2>3, <2>4, <2>5, CacheAssumption DEF Flow, Shows, CachedHeights, CacheInv, Typed
  <2>8. Highest = m
    <3>1. \E h0 \in CachedHeights : \A k \in CachedHeights : h0 >= k
      BY <2>6, <2>7
    <3>2. Highest \in CachedHeights /\ \A k \in CachedHeights : Highest >= k
      BY <3>1 DEF Highest
    <3> QED
      BY <2>6, <2>7, <3>2
  <2>9. SessionOK'
    BY <1>1, <2>1, <2>3, <2>4, <2>6, <2>8 DEF SessionOK, Fits, Newest, CountsUp
  <2>10. Pending' = Pending
    BY <2>2 DEF Pending
  <2>11. Flow(a, p, s, m, h)'
    BY <2>1, <2>2, <2>5, <2>10 DEF Flow
  <2>12. JoinsLive(a)'
    <3>1. a <= m
      BY <2>6
    <3> QED
      BY <2>1, <2>8, <3>1 DEF JoinsLive
  <2> QED
    BY <2>1, <2>4, <2>9, <2>11, <2>12 DEF Underway
<1> QED
  BY <1>2, <1>3

\* What fits leaves no gap any lower either.
LEMMA FitsLower ==
    ASSUME ClientOK(client), NEW x \in Int, NEW y \in Int, Fits(client, x), y <= x
    PROVE  Fits(client, y)
<1>1. CASE client.chain = <<>>
  BY <1>1 DEF Fits, ClientOK
<1>2. CASE client.chain # <<>>
  <2>1. Newest(client.chain) \in Nat
    BY <1>2, ChainFacts DEF ClientOK
  <2>2. x <= Newest(client.chain) + 1
    BY <1>2 DEF Fits
  <2>3. y <= Newest(client.chain) + 1
    BY <2>1, <2>2
  <2> QED
    BY <1>2, <2>3 DEF Fits
<1> QED
  BY <1>1, <1>2

\* The rows of a walk from height x to height t.
Walked(x, t) == [i \in 1 .. t - x + 1 |-> cache.by_height[x + i - 1].id]

\* When all these heights are cached.
LEMMA WalkedRows ==
    ASSUME NEW m \in Int, Shows(cache, m), NEW x \in Nat, NEW t \in Int,
           x <= t, x .. t \subseteq CachedHeights
    PROVE  /\ Walked(x, t) \in Seq(Block) /\ Walked(x, t) # <<>> /\ CountsUp(Walked(x, t))
           /\ Height[Walked(x, t)[1]] = x /\ Newest(Walked(x, t)) = t
<1> DEFINE n == t - x + 1
           r == Walked(x, t)
<1>1. n \in Nat /\ n >= 1 /\ 1 \in 1 .. n /\ n \in 1 .. n
  OBVIOUS
<1>2. ASSUME NEW i \in 1 .. n
      PROVE  /\ cache.by_height[x + i - 1].id \in Block
             /\ Height[cache.by_height[x + i - 1].id] = x + i - 1
  <2>1. x + i - 1 \in x .. t
    BY <1>1
  <2>2. x + i - 1 \in DOMAIN cache.by_height
    BY <2>1 DEF CachedHeights
  <2> QED
    BY <2>2 DEF Shows
<1>3. \A i \in 1 .. n : r[i] \in Block /\ Height[r[i]] = x + i - 1
  BY <1>2 DEF Walked
<1>4. r \in [1 .. n -> Block]
  BY <1>2 DEF Walked
<1>5. x + n - 1 = t /\ x + 1 - 1 = x
  OBVIOUS
<1> HIDE DEF n, r
<1>6. r \in Seq(Block) /\ Len(r) = n
  BY <1>1, <1>4, FunctionIsSeq
<1>7. r # <<>>
  BY <1>1, <1>6
<1>8. Height[r[1]] = x /\ Height[r[n]] = t
  BY <1>1, <1>3, <1>5
<1>9. CountsUp(r) /\ Newest(r) = t
  BY <1>3, <1>6, <1>8 DEF CountsUp, Newest
<1> QED
  BY <1>6, <1>7, <1>8, <1>9 DEF r

\* The session walks the cache.
LEMMA WalkFlows ==
    ASSUME FirehoseInv, WalkCache
    PROVE  ClientOK(client)' /\ SessionOK' /\ Underway'
<1>1. UNCHANGED <<serviceVars, client>> /\ sess = "walking"
  BY DEF WalkCache
<1>2. CASE ~ (start .. top \subseteq CachedHeights)
  <2>1. EndSession
    BY <1>2 DEF WalkCache
  <2> QED
    BY <1>1, <2>1, EndFlows
<1>3. CASE start .. top \subseteq CachedHeights
  <2>1. /\ sess' = "live" /\ client' = client /\ UNCHANGED <<start, top, ring>>
        /\ rows' = Walked(start, top) /\ dedup' = DedupFrom(start, top)
    BY <1>1, <1>3 DEF WalkCache, Walked
  <2>2. UNCHANGED <<canonical, fork_history, outbox, fed, channel, closed, cache>>
    BY <1>1 DEF serviceVars, serviceOnly, engineVars
  <2>3. ClientOK(client) /\ SessionOK /\ ServiceInv
    BY DEF FirehoseInv
  <2>4. PICK a, p, s, m, h : Flow(a, p, s, m, h) /\ JoinsLive(a)
    BY <1>1 DEF FirehoseInv, Underway, Silent
  <2>5. a \in Int /\ m \in Int /\ Shows(cache, m)
    BY <2>3, <2>4, FlowFacts DEF Flow
  <2>6. /\ start \in Nat /\ top \in Int /\ start <= top + 1 /\ Fits(client, start)
        /\ ring = [items |-> ring.items, lagged |-> ring.lagged]
        /\ ring.items \in Seq(Output) /\ ring.lagged \in BOOLEAN
    BY <1>1, <2>3 DEF SessionOK
  <2>7. ~ ring.lagged => a <= top
    BY <1>1, <2>4 DEF JoinsLive
  <2>8. Pending' = Pending
    BY <2>2 DEF Pending
  <2>9. Flow(a, p, s, m, h)'
    BY <2>1, <2>2, <2>4, <2>8 DEF Flow
  <2>10. CASE start > top
    <3>1. start = top + 1 /\ 1 .. top - start + 1 = {} /\ dedup' = None
      BY <2>1, <2>6, <2>10 DEF DedupFrom
    <3>2. rows' = <<>>
      BY <2>1, <3>1 DEF Walked
    <3>3. <<>> \in Seq(Block) /\ CountsUp(<<>>)
      BY NothingCounts
    <3>4. None \in Int
      BY DEF None
    <3>5. SessionOK'
      BY <2>1, <2>6, <3>1, <3>2, <3>3, <3>4 DEF SessionOK
    <3>6. ~ ring.lagged => Fits(client, a + 1)
      BY <2>3, <2>5, <2>6, <2>7, <3>1, FitsLower
    <3>7. JoinsLive(a)'
      BY <2>1, <3>2, <3>6 DEF JoinsLive, Fits, Newest
    <3> QED
      BY <2>1, <2>3, <2>9, <3>5, <3>7 DEF Underway
  <2>11. CASE ~ (start > top)
    <3>1. dedup' = top /\ start <= top
      BY <2>1, <2>6, <2>11 DEF DedupFrom
    <3>2. PICK r : r = Walked(start, top)
      OBVIOUS
    <3>3. /\ r \in Seq(Block) /\ r # <<>> /\ CountsUp(r)
          /\ Height[r[1]] = start /\ Newest(r) = top
      BY <1>3, <2>5, <2>6, <3>1, <3>2, WalkedRows
    <3>4. rows' = r
      BY <2>1, <3>2
    <3>5. Fits(client, Height[r[1]])
      BY <2>6, <3>3
    <3>6. /\ rows' # <<>> /\ rows' \in Seq(Block) /\ CountsUp(rows')
          /\ Fits(client', Height[rows'[1]]) /\ Newest(rows') = dedup'
      BY <2>1, <3>1, <3>3, <3>4, <3>5
    <3>7. SessionOK'
      BY <2>1, <2>6, <3>1, <3>6 DEF SessionOK
    <3>8. JoinsLive(a)'
      BY <2>1, <2>7, <3>1, <3>6 DEF JoinsLive
    <3> QED
      BY <2>1, <2>3, <2>9, <3>7, <3>8 DEF Underway
  <2> QED
    BY <2>10, <2>11
<1> QED
  BY <1>2, <1>3

\* The session ships a row.
LEMMA RowFlows ==
    ASSUME OneBranch, FirehoseInv, DeliverRow
    PROVE  ClientOK(client)' /\ SessionOK' /\ Underway'
<1> DEFINE id == Head(rows)
           x == Height[id]
           L == Len(rows)
           t == Tail(rows)
<1>1. /\ sess = "live" /\ rows # <<>> /\ rows' = t
      /\ client' = ClientApply(client, "New", id)
      /\ UNCHANGED <<serviceVars, sess, start, top, ring, dedup>>
  BY DEF DeliverRow
<1>2. UNCHANGED <<canonical, fork_history, outbox, fed, channel, closed, cache>>
  BY <1>1 DEF serviceVars, serviceOnly, engineVars
<1>3. ClientOK(client) /\ SessionOK /\ ServiceInv
  BY DEF FirehoseInv
<1>4. PICK a, p, s, m, h : Flow(a, p, s, m, h) /\ JoinsLive(a)
  BY <1>1 DEF FirehoseInv, Underway, Silent
<1>5. a \in Int
  BY <1>3, <1>4, FlowFacts
<1>6. /\ rows \in Seq(Block) /\ CountsUp(rows) /\ Newest(rows) = dedup /\ dedup \in Int
      /\ Fits(client, Height[rows[1]])
  BY <1>1, <1>3 DEF SessionOK
<1>7. id = rows[1] /\ id \in Block /\ x \in Nat
  BY <1>1, <1>6, MoveHead, ChainAssumption
<1>8. /\ L \in Nat /\ L >= 1 /\ Newest(rows) = x + L - 1
      /\ \A i \in 1 .. L : Height[rows[i]] = x + i - 1
  BY <1>1, <1>6, <1>7, ChainFacts DEF CountsUp
<1>9. /\ t \in Seq(Block) /\ Len(t) = L - 1 /\ \A k \in 1 .. L - 1 : t[k] = rows[k + 1]
  BY <1>1, <1>6, MoveHead
<1> HIDE DEF t, L
<1>10. ClientOK(client') /\ client'.chain # <<>> /\ Newest(client'.chain) >= x
  BY <1>1, <1>3, <1>6, <1>7, ClientTakes
<1>11. Newest(client'.chain) \in Nat
  BY <1>10, ChainFacts DEF ClientOK
<1>12. \A k \in 1 .. L - 1 : Height[t[k]] = x + k
  <2>1. \A k \in 1 .. L - 1 : k + 1 \in 1 .. L /\ x + (k + 1) - 1 = x + k
    BY <1>7, <1>8
  <2> QED
    BY <1>8, <1>9, <2>1
<1> HIDE DEF x, id
<1>13. CountsUp(t)
  <2>1. ASSUME NEW k \in 1 .. Len(t) PROVE Height[t[k]] = Height[t[1]] + k - 1
    <3>1. k \in 1 .. L - 1 /\ 1 \in 1 .. L - 1
      BY <1>8, <1>9, <2>1
    <3>2. Height[t[k]] = x + k /\ Height[t[1]] = x + 1
      BY <1>12, <3>1
    <3> QED
      BY <1>7, <3>1, <3>2
  <2> QED
    BY <2>1 DEF CountsUp
<1>14. Pending' = Pending
  BY <1>2 DEF Pending
<1>15. Flow(a, p, s, m, h)'
  BY <1>1, <1>2, <1>4, <1>14 DEF Flow
<1>16. ~ ring.lagged => a <= dedup
  BY <1>1, <1>4 DEF JoinsLive
<1>17. CASE t # <<>>
  <2>1. L - 1 >= 1
    BY <1>8, <1>9, <1>17, EmptySeq
  <2>2. 1 \in 1 .. L - 1 /\ L - 1 \in 1 .. L - 1
    BY <1>8, <2>1
  <2>3. Height[t[1]] = x + 1 /\ Height[t[L - 1]] = x + (L - 1)
    BY <1>12, <2>2
  <2>4. Newest(t) = dedup
    BY <1>6, <1>7, <1>8, <1>9, <2>3 DEF Newest
  <2>5. Fits(client', Height[t[1]])
    <3>1. x + 1 <= Newest(client'.chain) + 1
      BY <1>7, <1>10, <1>11
    <3> QED
      BY <1>10, <2>3, <3>1 DEF Fits
  <2>6. SessionOK'
    BY <1>1, <1>3, <1>9, <1>13, <1>17, <2>4, <2>5 DEF SessionOK
  <2>7. JoinsLive(a)'
    BY <1>1, <1>16, <1>17 DEF JoinsLive
  <2> QED
    BY <1>10, <1>15, <2>6, <2>7 DEF Underway
<1>18. CASE t = <<>>
  <2>1. L = 1
    <3>1. Len(t) = 0
      BY <1>18
    <3> QED
      BY <1>8, <1>9, <3>1
  <2>2. x = dedup
    BY <1>6, <1>7, <1>8, <2>1
  <2>3. dedup <= Newest(client'.chain)
    BY <1>10, <2>2
  <2>4. SessionOK'
    BY <1>1, <1>3, <1>9, <1>10, <1>13, <1>18, <2>3 DEF SessionOK
  <2>5. ~ ring.lagged => Fits(client', a + 1)
    <3>1. ~ ring.lagged => a + 1 <= Newest(client'.chain) + 1
      BY <1>5, <1>6, <1>11, <1>16, <2>3
    <3> QED
      BY <1>10, <3>1 DEF Fits
  <2>6. JoinsLive(a)'
    BY <1>1, <1>18, <2>5 DEF JoinsLive
  <2> QED
    BY <1>10, <1>15, <2>4, <2>6 DEF Underway
<1> QED
  BY <1>17, <1>18

\* The session ships or drops a live output.
LEMMA LiveFlows ==
    ASSUME OneBranch, FirehoseInv, DeliverLive
    PROVE  ClientOK(client)' /\ SessionOK' /\ Underway'
<1> DEFINE o == Head(ring.items)
           t == Tail(ring.items)
<1>1. /\ sess = "live" /\ rows = <<>> /\ ring.items # <<>> /\ ~ ring.lagged
      /\ client' = IF Dropped(o) THEN client ELSE ClientApply(client, o.step, o.block.id)
      /\ ring' = [ring EXCEPT !.items = t]
      /\ UNCHANGED <<serviceVars, sess, start, top, rows, dedup>>
  BY DEF DeliverLive
<1>2. UNCHANGED <<canonical, fork_history, outbox, fed, channel, closed, cache>>
  BY <1>1 DEF serviceVars, serviceOnly, engineVars
<1>3. ClientOK(client) /\ SessionOK /\ ServiceInv
  BY DEF FirehoseInv
<1>4. PICK a, p, s, m, h : Flow(a, p, s, m, h) /\ JoinsLive(a)
  BY <1>1 DEF FirehoseInv, Underway, Silent
<1>5. a \in Int
  BY <1>3, <1>4, FlowFacts
<1>6. /\ ring = [items |-> ring.items, lagged |-> ring.lagged]
      /\ ring.items \in Seq(Output) /\ dedup \in Int
      /\ dedup # None => client.chain # <<>> /\ dedup <= Newest(client.chain)
  BY <1>1, <1>3 DEF SessionOK
<1>7. o \in Output /\ t \in Seq(Output)
  BY <1>1, <1>6, MoveHead
<1>8. PICK n \in Int : Follows(a, o, n) /\ Runs(t, n, p)
  BY <1>1, <1>4, <1>6, RunsHead DEF Flow
<1>9. Fits(client, a + 1)
  BY <1>1, <1>4 DEF JoinsLive
<1> HIDE DEF o, t
<1>10. ring'.items = t /\ ring'.lagged = FALSE /\ ring' = [items |-> t, lagged |-> FALSE]
  BY <1>1, <1>3, <1>6 DEF SessionOK
<1>11. client.chain # <<>> => Newest(client.chain) \in Nat
  BY <1>3, ChainFacts DEF ClientOK
<1>12. ASSUME ClientOK(client'), Fits(client', n + 1),
              dedup # None => client'.chain # <<>> /\ dedup <= Newest(client'.chain)
       PROVE  ClientOK(client)' /\ SessionOK' /\ Underway'
  <2>1. SessionOK'
    BY <1>1, <1>3, <1>7, <1>10, <1>12 DEF SessionOK
  <2>2. Pending' = Pending
    BY <1>2 DEF Pending
  <2>3. Flow(n, p, s, m, h)'
    BY <1>2, <1>4, <1>8, <1>10, <2>2 DEF Flow
  <2>4. JoinsLive(n)'
    BY <1>1, <1>12 DEF JoinsLive
  <2> QED
    BY <1>12, <2>1, <2>3, <2>4 DEF Underway
<1>13. o.step \in {"New", "Irreversible"} =>
          o.block.id \in Block /\ Ht(o.block) = Height[o.block.id]
  <2>1. o.step \in {"New", "Irreversible"} => o.block \in Entry
    BY <1>7 DEF Output
  <2> QED
    BY <2>1 DEF Entry, Ht
<1>14. o.step \in {"New", "Irreversible"} => Ht(o.block) \in Nat
  BY <1>13, ChainAssumption
<1>15. CASE o.step = "New"
  <2>1. Ht(o.block) = a + 1 /\ n = a + 1
    BY <1>8, <1>15 DEF Follows
  <2>2. CASE Dropped(o)
    <3>1. client' = client /\ Ht(o.block) <= dedup
      BY <1>1, <1>15, <2>2 DEF Dropped
    <3>2. dedup # None
      BY <1>6, <1>14, <1>15, <3>1 DEF None
    <3>3. n + 1 <= Newest(client.chain) + 1
      BY <1>5, <1>6, <1>11, <2>1, <3>1, <3>2
    <3>4. Fits(client, n + 1)
      BY <1>6, <3>2, <3>3 DEF Fits
    <3> QED
      BY <1>3, <1>6, <1>12, <3>1, <3>4
  <2>3. CASE ~ Dropped(o)
    <3>1. client' = ClientApply(client, "New", o.block.id)
      BY <1>1, <1>15, <2>3
    <3>2. Fits(client, Height[o.block.id])
      BY <1>9, <1>13, <1>15, <2>1
    <3>3. /\ ClientOK(client') /\ client'.chain # <<>>
          /\ Newest(client'.chain) >= Height[o.block.id]
          /\ client.chain # <<>> => Newest(client'.chain) >= Newest(client.chain)
      BY <1>3, <1>13, <1>15, <3>1, <3>2, ClientTakes
    <3>4. Newest(client'.chain) \in Nat
      BY <3>3, ChainFacts DEF ClientOK
    <3>5. n + 1 <= Newest(client'.chain) + 1
      BY <1>5, <1>13, <1>15, <2>1, <3>3, <3>4
    <3>6. Fits(client', n + 1)
      BY <3>3, <3>5 DEF Fits
    <3>7. dedup # None => dedup <= Newest(client'.chain)
      BY <1>6, <1>11, <3>3, <3>4
    <3> QED
      BY <1>12, <3>3, <3>6, <3>7
  <2> QED
    BY <2>2, <2>3
<1>16. CASE o.step = "Irreversible" /\ ~ Dropped(o)
  <2>1. Ht(o.block) <= a /\ n = a
    BY <1>8, <1>16 DEF Follows
  <2>2. client' = ClientApply(client, "Irreversible", o.block.id)
    BY <1>1, <1>16
  <2>3. client.chain # <<>> => Height[o.block.id] <= Newest(client.chain)
    <3>1. client.chain # <<>> => a + 1 <= Newest(client.chain) + 1
      BY <1>9 DEF Fits
    <3> QED
      BY <1>5, <1>11, <1>13, <1>14, <1>16, <2>1, <3>1
  <2>4. ClientOK(client') /\ client'.chain = client.chain /\ client'.from = client.from
    BY <1>3, <1>13, <1>16, <2>2, <2>3, ClientNotes
  <2>5. Fits(client', n + 1)
    BY <1>9, <2>1, <2>4 DEF Fits
  <2> QED
    BY <1>6, <1>12, <2>4, <2>5
<1>17. CASE o.step # "New" /\ Dropped(o)
  <2>1. client' = client /\ n = a
    BY <1>1, <1>8, <1>17 DEF Follows
  <2> QED
    BY <1>3, <1>6, <1>9, <1>12, <2>1
<1>18. o.step \in {"New", "Irreversible", "ForkObserved", "ForkResolved"}
  BY <1>7, <1>8 DEF Output, Follows
<1>19. o.step \in {"ForkObserved", "ForkResolved"} => Dropped(o)
  BY DEF Dropped
<1> QED
  BY <1>15, <1>16, <1>17, <1>18, <1>19

-----------------------------------------------------------------------------
(* The invariant holds for ever *)

\* The initial states.
LEMMA FirehoseStart ==
    ASSUME StreamInit
    PROVE  FirehoseInv
<1>1. ServiceInv /\ CacheInv
  BY ServiceStart, CacheStart DEF StreamInit, ServiceInit
<1>2. /\ sess = "off" /\ start = 0 /\ top = 0 /\ ring = FreshRing
      /\ rows = <<>> /\ dedup = None /\ client = FreshClient
  BY DEF StreamInit
<1>3. <<>> \in Seq(Block) /\ CountsUp(<<>>)
  BY NothingCounts
<1>4. /\ FreshRing = [items |-> FreshRing.items, lagged |-> FreshRing.lagged]
      /\ FreshRing.items = <<>> /\ FreshRing.lagged = FALSE
  BY DEF FreshRing
<1>5. /\ client.chain = <<>> /\ client.cursor = NoBlock /\ client.from = 0
      /\ client.ok = TRUE
      /\ client = [chain |-> client.chain, cursor |-> client.cursor, from |-> client.from,
                   ok |-> client.ok, connects |-> client.connects]
  BY <1>2 DEF FreshClient
<1>6. ClientOK(client)
  BY <1>3, <1>5 DEF ClientOK
<1>7. SessionOK
  <2>1. <<>> \in Seq(Output) /\ 0 \in Nat /\ 0 \in Int
    OBVIOUS
  <2>2. None \in Int
    BY DEF None
  <2>3. ring.items = <<>> /\ ring.lagged = FALSE
    BY <1>2, <1>4
  <2>4. ring = [items |-> ring.items, lagged |-> ring.lagged]
    BY <1>2, <1>4
  <2> QED
    BY <1>2, <1>3, <2>1, <2>2, <2>3, <2>4 DEF SessionOK
<1>8. canonical = <<>> /\ Silent
  <2>1. canonical = <<>> /\ fork_history = <<>> /\ outbox = <<>> /\ channel = <<>>
    BY DEF StreamInit, ServiceInit, EngineInit
  <2>2. CachedHeights = {}
    BY DEF StreamInit, ServiceInit, CacheInit, EmptyCache, CachedHeights
  <2> QED
    BY <1>2, <1>4, <1>5, <2>1, <2>2 DEF Silent
<1> QED
  BY <1>1, <1>6, <1>7, <1>8 DEF FirehoseInv, Underway

\* The relayer's own invariants, in a step of the relayer or of the session alone.
LEMMA RelayerKeeps ==
    ASSUME FirehoseInv, [ServiceNext]_serviceVars
    PROVE  ServiceInv' /\ CacheInv'
<1>1. ServiceInv /\ CacheInv
  BY DEF FirehoseInv
<1> QED
  BY <1>1, ServiceStepKeeps, FeedIsCacheStep, CacheStep

\* A step of the relayer.
LEMMA RelayerFlows ==
    ASSUME OneBranch, FirehoseInv, RelayerStep
    PROVE  ClientOK(client)' /\ SessionOK' /\ Underway'
<1>1. /\ UNCHANGED <<sessionVars, client>> /\ ServiceInv
      /\ ServiceStep \/ CloseChannel \/ \E b \in Block : NodeMoves(b)
  BY DEF RelayerStep, FirehoseInv
<1>2. UNCHANGED <<sess, start, top, ring, rows, dedup, client>>
  BY <1>1 DEF sessionVars
<1>3. ClientOK(client)'
  BY <1>2 DEF FirehoseInv
<1>4. SessionOK'
  BY <1>2 DEF FirehoseInv, SessionOK, Fits, Newest, CountsUp
<1>5. \/ EngineCall
      \/ UNCHANGED engineVars /\ (FeedOutput \/ SendOutput \/ CloseChannel)
      \/ UNCHANGED <<engineVars, outbox, fed, channel, closed, cache, seen_at>>
  BY <1>1, TaskCases
<1>6. Underway'
  BY <1>1, <1>5, CallFlows, FeedFlows, SendFlows, CloseFlows, RestFlows
<1> QED
  BY <1>3, <1>4, <1>6

\* Every step.
LEMMA FirehoseStep ==
    ASSUME OneBranch, FirehoseInv, [StreamNext]_streamVars
    PROVE  FirehoseInv'
<1>1. [ServiceNext]_serviceVars
  <2>1. RelayerStep => ServiceNext
    BY DEF RelayerStep, ServiceNext
  <2>2. PumpOutput => ServiceNext
    BY DEF PumpOutput, ServiceNext
  <2>3. \/ \E x \in StartBlock : Connect(x)
        \/ ReadWindow \/ WalkCache \/ DeliverRow \/ DeliverLive \/ LagOut \/ Disconnect
        \/ UNCHANGED streamVars
        => UNCHANGED serviceVars
    BY DEF Connect, ReadWindow, WalkCache, DeliverRow, DeliverLive, LagOut, Disconnect,
           streamVars
  <2> QED
    BY <2>1, <2>2, <2>3 DEF StreamNext
<1>2. ServiceInv' /\ CacheInv'
  BY <1>1, RelayerKeeps
<1>3. ClientOK(client)' /\ SessionOK' /\ Underway'
  <2>1. CASE RelayerStep
    BY <2>1, RelayerFlows
  <2>2. CASE PumpOutput
    <3>1. client' = client
      BY <2>2 DEF PumpOutput
    <3>2. ClientOK(client)'
      BY <3>1 DEF FirehoseInv
    <3> QED
      BY <2>2, <3>2, PumpFlows
  <2>3. ASSUME NEW x \in StartBlock, Connect(x)
        PROVE  ClientOK(client)' /\ SessionOK' /\ Underway'
    BY <2>3, ConnectFlows
  <2>4. CASE ReadWindow
    BY <2>4, WindowFlows
  <2>5. CASE WalkCache
    BY <2>5, WalkFlows
  <2>6. CASE DeliverRow
    BY <2>6, RowFlows
  <2>7. CASE DeliverLive
    BY <2>7, LiveFlows
  <2>8. CASE LagOut \/ Disconnect
    <3>1. EndSession /\ UNCHANGED <<serviceVars, client>>
      BY <2>8 DEF LagOut, Disconnect
    <3> QED
      BY <3>1, EndFlows
  <2>9. CASE UNCHANGED streamVars
    <3>1. /\ UNCHANGED <<engineVars, outbox, fed, channel, closed, cache>>
          /\ UNCHANGED <<sessionVars, client>>
      BY <2>9 DEF streamVars, serviceVars, serviceOnly
    <3>2. UNCHANGED <<sess, start, top, ring, rows, dedup, client>>
      BY <3>1 DEF sessionVars
    <3>3. ClientOK(client)'
      BY <3>2 DEF FirehoseInv
    <3>4. SessionOK'
      BY <3>2 DEF FirehoseInv, SessionOK, Fits, Newest, CountsUp
    <3> QED
      BY <3>1, <3>3, <3>4, RestFlows
  <2> QED
    BY <2>1, <2>2, <2>3, <2>4, <2>5, <2>6, <2>7, <2>8, <2>9 DEF StreamNext
<1> QED
  BY <1>2, <1>3 DEF FirehoseInv

\* Over a tree without forks the client of Stream.Blocks gets a chain that has neither
\* gap nor foreign block and starts no later than it asked, however the subscription,
\* the cache walk, the pump, lag, hang-ups and resumptions interleave with the relayer.
THEOREM ClientStaysInStep == StreamSpec => []ClientInStep
<1> DEFINE Inv == OneBranch => FirehoseInv
<1>1. StreamInit => Inv
  BY FirehoseStart
<1>2. Inv /\ [StreamNext]_streamVars => Inv'
  <2>1. OneBranch' <=> OneBranch
    BY DEF OneBranch
  <2> QED
    BY <2>1, FirehoseStep
<1>3. Inv => ClientInStep
  <2>1. ASSUME FirehoseInv
        PROVE  /\ client.ok
               /\ client.from # 0 /\ client.chain # <<>> =>
                     Height[client.chain[1]] <= client.from
    <3>1. client.ok = TRUE
      BY <2>1 DEF FirehoseInv, ClientOK
    <3>2. client.from # 0 /\ client.chain # <<>> =>
             Height[client.chain[1]] <= client.from
      BY <2>1 DEF FirehoseInv, ClientOK
    <3> QED
      BY <3>1, <3>2
  <2> QED
    BY <2>1 DEF ClientInStep
<1> HIDE DEF Inv
<1> QED
  BY <1>1, <1>2, <1>3, PTL DEF StreamSpec
=============================================================================
