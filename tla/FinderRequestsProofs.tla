------------------------ MODULE FinderRequestsProofs ------------------------
(***************************************************************************)
(* What holds of the file manager's requests for every set of requests,    *)
(* commands and folders, and any number of connections.                    *)
(***************************************************************************)
EXTENDS FinderRequests, TLAPS, FiniteSetTheorems, WellFoundedInduction

Elements(s) == {s[i] : i \in DOMAIN s}
Distinct(s) == \A i, j \in DOMAIN s : s[i] = s[j] => i = j

-----------------------------------------------------------------------------
(* The lists.                                                              *)

\* A set of numbers has a smallest: what fails for some number fails for a first one.
LEMMA SmallestNat ==
    ASSUME NEW S, S \subseteq Nat, S # {}
    PROVE  \E m \in S : \A n \in S : m <= n
<1>1. IsWellFoundedOn(OpToRel(<, Nat), Nat)
  BY NatLessThanWellFounded
<1>2. PICK m \in S : \A n \in S : ~(<<n, m>> \in OpToRel(<, Nat))
  BY <1>1, WFMin
<1>3. \A n \in S : ~(n < m)
  BY <1>2 DEF OpToRel
<1>4. QED
  BY <1>3

\* The recursive function of ButThoseOf, and that there is one.
Greps(f, c, q, len) ==
    /\ f = [n \in 0..len |-> f[n]]
    /\ \A n \in 0..len : f[n] = IF n = 0 THEN <<>>
                                ELSE IF Cmd[q[n]] = c THEN f[n - 1]
                                ELSE Append(f[n - 1], q[n])

LEMMA ButThoseOfExists ==
    ASSUME NEW c, NEW q \in Seq(Requests), NEW len \in 0..Len(q)
    PROVE  \E f : Greps(f, c, q, len)
<1> USE DEF Greps
<1> DEFINE Step(f, n) == IF n = 0 THEN <<>>
                         ELSE IF Cmd[q[n]] = c THEN f[n - 1] ELSE Append(f[n - 1], q[n])
           Fails == {m \in 0..Len(q) : ~\E f : Greps(f, c, q, m)}
<1> SUFFICES ASSUME Fails # {} PROVE FALSE
  OBVIOUS
<1>0. Fails \subseteq Nat
  OBVIOUS
<1>1. PICK m \in Fails : \A n \in Fails : m <= n
  <2> HIDE DEF Fails
  <2>1. QED
    BY <1>0, SmallestNat
<1>2. m \in 0..Len(q) /\ ~\E f : Greps(f, c, q, m)
  OBVIOUS
<1>3. CASE m = 0
  <2> DEFINE g == [n \in 0..m |-> <<>>]
  <2>1. Greps(g, c, q, m)
    BY <1>3
  <2>2. QED
    BY <1>2, <2>1
<1>4. CASE m # 0
  <2>1. m - 1 \in 0..Len(q) /\ m - 1 \notin Fails
    <3>1. m - 1 \in 0..Len(q) /\ ~(m <= m - 1)
      BY <1>2, <1>4
    <3> HIDE DEF Fails
    <3>2. QED
      BY <1>1, <3>1
  <2>2. PICK f : Greps(f, c, q, m - 1)
    BY <2>1
  <2> DEFINE g == [n \in 0..m |-> IF n = m THEN Step(f, m) ELSE f[n]]
  <2> HIDE DEF Fails
  <2>3. ASSUME NEW n \in 0..m
        PROVE  g[n] = Step(g, n)
    <3>1. CASE n = m
      <4>1. m - 1 \in 0..m /\ m - 1 # m
        BY <1>2, <1>4
      <4>2. g[m - 1] = f[m - 1]
        BY <4>1
      <4>3. QED
        BY <1>4, <3>1, <4>2
    <3>2. CASE n # m
      <4>1. n \in 0..(m - 1)
        BY <1>2, <3>2
      <4>2. f[n] = Step(f, n)
        BY <2>2, <4>1
      <4>3. n # 0 => n - 1 \in 0..m /\ n - 1 # m
        BY <1>2, <4>1
      <4>4. n # 0 => g[n - 1] = f[n - 1]
        BY <4>3
      <4>5. QED
        BY <3>2, <4>2, <4>4
    <3>3. QED
      BY <3>1, <3>2
  <2>4. g = [n \in 0..m |-> g[n]]
    OBVIOUS
  <2> HIDE DEF g
  <2>5. QED
    BY <1>2, <2>3, <2>4
<1>5. QED
  BY <1>3, <1>4

\* $.grep keeps what is not of the command, each once, and the head if it is not.
LEMMA GrepKeeps ==
    ASSUME NEW c, NEW q \in Seq(Requests), Distinct(q), NEW k, k = ButThoseOf(c, q)
    PROVE  /\ k \in Seq(Requests) /\ Distinct(k)
           /\ Elements(k) = {x \in Elements(q) : Cmd[x] # c}
           /\ q # <<>> /\ Cmd[Head(q)] # c => k # <<>> /\ Head(k) = Head(q)
<1> DEFINE body(g) == [n \in 0..Len(q) |->
                         IF n = 0 THEN <<>>
                         ELSE IF Cmd[q[n]] = c THEN g[n - 1] ELSE Append(g[n - 1], q[n])]
           f == CHOOSE g : g = body(g)
           Good(n) == /\ f[n] \in Seq(Requests) /\ Distinct(f[n])
                      /\ Elements(f[n]) = {x \in Requests : Cmd[x] # c /\ \E i \in 1..n : q[i] = x}
                      /\ n # 0 /\ Cmd[q[1]] # c => f[n] # <<>> /\ f[n][1] = q[1]
           Bad == {n \in 0..Len(q) : ~Good(n)}
<1>1. f = body(f)
  <2>1. Len(q) \in 0..Len(q)
    OBVIOUS
  <2>2. \E g : g = body(g)
    <3>1. PICK g : Greps(g, c, q, Len(q))
      BY <2>1, ButThoseOfExists
    <3>2. g = body(g)
      BY <3>1 DEF Greps
    <3>3. QED
      BY <3>2
  <2>3. QED
    BY <2>2
<1>2. k = f[Len(q)]
  BY DEF ButThoseOf
<1> HIDE DEF f
<1>3. \A n \in 0..Len(q) : Good(n)
  <2> SUFFICES ASSUME Bad # {} PROVE FALSE
    OBVIOUS
  <2>0. Bad \subseteq Nat
    OBVIOUS
  <2>1. PICK m \in Bad : \A n \in Bad : m <= n
    <3> HIDE DEF Bad
    <3>1. QED
      BY <2>0, SmallestNat
  <2>2. m \in 0..Len(q) /\ ~Good(m)
    OBVIOUS
  <2>3. CASE m = 0
    <3>1. f[0] = <<>>
      BY <1>1
    <3>2. QED
      BY <2>2, <2>3, <3>1 DEF Elements, Distinct
  <2>4. CASE m # 0
    <3> DEFINE o == f[m - 1]
    <3>1. m - 1 \in 0..Len(q) /\ m \in 1..Len(q) /\ Good(m - 1)
      BY <2>1, <2>2, <2>4
    <3>2. f[m] = IF Cmd[q[m]] = c THEN o ELSE Append(o, q[m])
      BY <1>1, <2>2, <2>4
    <3>3. /\ o \in Seq(Requests) /\ Distinct(o)
          /\ Elements(o) = {x \in Requests : Cmd[x] # c /\ \E i \in 1..(m - 1) : q[i] = x}
          /\ m - 1 # 0 /\ Cmd[q[1]] # c => o # <<>> /\ o[1] = q[1]
      BY <3>1
    <3>4. q[m] \in Requests
      BY <3>1
    <3> HIDE DEF o, Bad
    <3>5. CASE Cmd[q[m]] = c
      <4>1. f[m] = o
        BY <3>2, <3>5
      <4>2. Elements(o) = {x \in Requests : Cmd[x] # c /\ \E i \in 1..m : q[i] = x}
        BY <3>1, <3>3, <3>5
      <4>3. Cmd[q[1]] # c => m - 1 # 0
        BY <3>1, <3>5
      <4>4. QED
        BY <2>2, <3>3, <4>1, <4>2, <4>3
    <3>6. CASE Cmd[q[m]] # c
      <4>1. f[m] = Append(o, q[m])
        BY <3>2, <3>6
      <4>2. /\ f[m] \in Seq(Requests) /\ Len(f[m]) = Len(o) + 1 /\ Len(o) \in Nat
            /\ f[m][Len(o) + 1] = q[m]
            /\ \A i \in 1..Len(o) : f[m][i] = o[i]
        BY <3>3, <3>4, <4>1
      <4>3. q[m] \notin Elements(o)
        <5>1. \A i \in 1..(m - 1) : q[i] # q[m]
          BY <3>1 DEF Distinct
        <5>2. QED
          BY <3>3, <5>1
      <4>4. \A i \in 1..Len(o) : o[i] # q[m]
        BY <3>3, <4>3 DEF Elements
      <4>5. Distinct(f[m])
        <5> SUFFICES ASSUME NEW i \in 1..(Len(o) + 1), NEW j \in 1..(Len(o) + 1),
                            f[m][i] = f[m][j]
                     PROVE  i = j
          BY <4>2 DEF Distinct
        <5>1. \A a, b \in 1..Len(o) : o[a] = o[b] => a = b
          BY <3>3 DEF Distinct
        <5>2. CASE i \in 1..Len(o) /\ j \in 1..Len(o)
          BY <4>2, <5>1, <5>2
        <5>3. CASE i = Len(o) + 1 \/ j = Len(o) + 1
          BY <4>2, <4>4, <5>3
        <5>4. QED
          BY <4>2, <5>2, <5>3
      <4>6. Elements(f[m]) = Elements(o) \cup {q[m]}
        BY <4>2 DEF Elements
      <4>7. Elements(f[m]) = {x \in Requests : Cmd[x] # c /\ \E i \in 1..m : q[i] = x}
        BY <3>1, <3>3, <3>4, <3>6, <4>6
      <4>8. f[m] # <<>>
        BY <4>2
      <4>9. Cmd[q[1]] # c => f[m][1] = q[1]
        <5>1. CASE m = 1
          <6>1. o = <<>>
            <7>1. f[0] = <<>>
              BY <1>1
            <7>2. QED
              BY <5>1, <7>1 DEF o
          <6>2. QED
            BY <4>2, <5>1, <6>1
        <5>2. CASE m # 1
          BY <3>1, <3>3, <4>2, <5>2
        <5>3. QED
          BY <5>1, <5>2
      <4>10. QED
        BY <2>2, <4>2, <4>5, <4>7, <4>8, <4>9
    <3>7. QED
      BY <3>5, <3>6
  <2>5. QED
    BY <2>3, <2>4
<1>4. Good(Len(q)) /\ Len(q) \in Nat
  <2>1. Len(q) \in 0..Len(q) /\ Len(q) \in Nat
    OBVIOUS
  <2> HIDE DEF Good
  <2>2. QED
    BY <1>3, <2>1
<1>5. Elements(q) = {x \in Requests : \E i \in 1..Len(q) : q[i] = x}
  BY DEF Elements
<1>6. Elements(k) = {x \in Elements(q) : Cmd[x] # c}
  BY <1>2, <1>4, <1>5
<1>7. ASSUME q # <<>>, Cmd[Head(q)] # c
      PROVE  k # <<>> /\ Head(k) = Head(q)
  <2>1. Len(q) # 0 /\ Head(q) = q[1]
    BY <1>7
  <2>2. k # <<>> /\ k[1] = q[1] /\ k \in Seq(Requests)
    BY <1>2, <1>4, <1>7, <2>1
  <2>3. QED
    BY <2>1, <2>2
<1>8. QED
  BY <1>2, <1>4, <1>6, <1>7

\* unbind() takes a handler out of a list in which each is once, and no other.
LEMMA UnboundIsOut ==
    ASSUME NEW s \in Seq(Requests), Distinct(s), NEW r
    PROVE  /\ Without(s, r) \in Seq(Requests) /\ Distinct(Without(s, r))
           /\ Elements(Without(s, r)) = Elements(s) \ {r}
<1>1. CASE ~\E i \in DOMAIN s : s[i] = r
  BY <1>1 DEF Without, Elements
<1>2. CASE \E i \in DOMAIN s : s[i] = r
  <2> DEFINE P(i) == s[i] = r /\ \A j \in 1..(i - 1) : s[j] # r
             first == CHOOSE i \in DOMAIN s : P(i)
             t == [i \in 1..(Len(s) - 1) |-> IF i < first THEN s[i] ELSE s[i + 1]]
  <2>1. PICK k \in DOMAIN s : s[k] = r
    BY <1>2
  <2>2. P(k)
    <3> SUFFICES ASSUME NEW j \in 1..(k - 1), s[j] = r PROVE FALSE
      BY <2>1
    <3>1. j \in DOMAIN s /\ j # k
      OBVIOUS
    <3>2. QED
      BY <2>1, <3>1 DEF Distinct
  <2>3. first \in DOMAIN s /\ s[first] = r
    BY <2>2
  <2>4. Without(s, r) = t
    BY <1>2 DEF Without
  <2> HIDE DEF first
  <2>5. Len(s) - 1 \in Nat /\ Len(s) \in Nat /\ DOMAIN s = 1..Len(s) /\ first \in 1..Len(s)
    BY <2>3
  <2>6. t \in Seq(Requests) /\ Len(t) = Len(s) - 1 /\ DOMAIN t = 1..(Len(s) - 1)
    <3>1. \A i \in 1..(Len(s) - 1) : t[i] \in Requests
      BY <2>5
    <3>2. QED
      BY <2>5, <3>1
  <2>7. Distinct(t)
    BY <2>5, <2>6 DEF Distinct
  <2>8. Elements(t) \subseteq Elements(s) \ {r}
    <3> SUFFICES ASSUME NEW i \in 1..(Len(s) - 1)
                 PROVE  t[i] \in Elements(s) /\ t[i] # r
      BY <2>6 DEF Elements
    <3>1. PICK j \in 1..Len(s) : j # first /\ t[i] = s[j]
      BY <2>5
    <3>2. QED
      BY <2>3, <2>5, <3>1 DEF Distinct, Elements
  <2>9. Elements(s) \ {r} \subseteq Elements(t)
    <3> SUFFICES ASSUME NEW j \in 1..Len(s), s[j] # r
                 PROVE  \E i \in 1..(Len(s) - 1) : t[i] = s[j]
      BY <2>5, <2>6 DEF Elements
    <3>1. j # first
      BY <2>3
    <3>2. CASE j < first
      BY <2>5, <3>2
    <3>3. CASE first < j
      <4>1. j - 1 \in 1..(Len(s) - 1) /\ ~(j - 1 < first)
        BY <2>5, <3>3
      <4>2. t[j - 1] = s[j]
        BY <2>5, <4>1
      <4>3. QED
        BY <4>1, <4>2
    <3>4. QED
      BY <2>5, <3>1, <3>2, <3>3
  <2>10. QED
    BY <2>4, <2>6, <2>7, <2>8, <2>9
<1>3. QED
  BY <1>1, <1>2

\* The head of the queue goes.
LEMMA ShiftedIsOut ==
    ASSUME NEW q \in Seq(Requests), Distinct(q), q # <<>>
    PROVE  /\ Tail(q) \in Seq(Requests) /\ Distinct(Tail(q))
           /\ Elements(Tail(q)) = Elements(q) \ {Head(q)}
           /\ Head(q) \in Elements(q) /\ Head(q) \in Requests
<1>1. /\ Tail(q) \in Seq(Requests) /\ Len(q) \in Nat \ {0} /\ Len(Tail(q)) = Len(q) - 1
      /\ \A i \in 1..(Len(q) - 1) : Tail(q)[i] = q[i + 1]
      /\ Head(q) = q[1] /\ q[1] \in Requests
      /\ DOMAIN q = 1..Len(q) /\ DOMAIN Tail(q) = 1..(Len(q) - 1)
  OBVIOUS
<1>2. Distinct(Tail(q))
  BY <1>1 DEF Distinct
<1>3. Head(q) \in Elements(q)
  BY <1>1 DEF Elements
<1>4. ASSUME NEW x
      PROVE  x \in Elements(Tail(q)) <=> x \in Elements(q) /\ x # q[1]
  <2>1. ASSUME x \in Elements(Tail(q))
        PROVE  x \in Elements(q) /\ x # q[1]
    <3>1. PICK i \in 1..(Len(q) - 1) : x = q[i + 1]
      BY <1>1, <2>1 DEF Elements
    <3>2. i + 1 \in DOMAIN q /\ 1 \in DOMAIN q /\ i + 1 # 1
      BY <1>1
    <3>3. QED
      BY <3>1, <3>2 DEF Elements, Distinct
  <2>2. ASSUME x \in Elements(q), x # q[1]
        PROVE  x \in Elements(Tail(q))
    <3>1. PICK i \in 1..Len(q) : x = q[i]
      BY <1>1, <2>2 DEF Elements
    <3>2. i - 1 \in 1..(Len(q) - 1) /\ (i - 1) + 1 = i
      BY <1>1, <2>2, <3>1
    <3>3. Tail(q)[i - 1] = x
      BY <1>1, <3>1, <3>2
    <3>4. QED
      BY <1>1, <3>2, <3>3 DEF Elements
  <2>3. QED
    BY <2>1, <2>2
<1>5. QED
  BY <1>1, <1>2, <1>3, <1>4

\* One more in the list, at its end or before its head.
LEMMA AddedIsIn ==
    ASSUME NEW s \in Seq(Requests), Distinct(s), NEW r \in Requests, r \notin Elements(s)
    PROVE  /\ Append(s, r) \in Seq(Requests) /\ Distinct(Append(s, r))
           /\ Elements(Append(s, r)) = Elements(s) \cup {r}
           /\ s # <<>> => Head(Append(s, r)) = Head(s)
           /\ Append(s, r) # <<>>
           /\ (<<r>> \o s) \in Seq(Requests) /\ Distinct(<<r>> \o s)
           /\ Elements(<<r>> \o s) = Elements(s) \cup {r}
           /\ <<r>> \o s # <<>> /\ Head(<<r>> \o s) = r
<1>1. Len(s) \in Nat /\ DOMAIN s = 1..Len(s) /\ \A i \in 1..Len(s) : s[i] # r /\ s[i] \in Requests
  BY DEF Elements
<1>2. /\ Append(s, r) \in Seq(Requests) /\ DOMAIN Append(s, r) = 1..(Len(s) + 1)
      /\ Append(s, r)[Len(s) + 1] = r
      /\ \A i \in 1..Len(s) : Append(s, r)[i] = s[i]
  OBVIOUS
<1>3. /\ Distinct(Append(s, r))
      /\ Elements(Append(s, r)) = Elements(s) \cup {r}
  <2> DEFINE t == Append(s, r)
  <2> HIDE DEF t
  <2>1. /\ DOMAIN t = 1..(Len(s) + 1)
        /\ t[Len(s) + 1] = r /\ \A i \in 1..Len(s) : t[i] = s[i]
    BY <1>2 DEF t
  <2>2. Distinct(t)
    BY <1>1, <2>1 DEF Distinct
  <2>3. Elements(t) = Elements(s) \cup {r}
    BY <1>1, <2>1 DEF Elements
  <2>4. QED
    BY <2>2, <2>3 DEF t
<1>4. s # <<>> => Head(Append(s, r)) = Head(s)
  BY <1>1, <1>2
<1>5. Append(s, r) # <<>>
  BY <1>1, <1>2
<1>6. /\ (<<r>> \o s) \in Seq(Requests) /\ DOMAIN (<<r>> \o s) = 1..(Len(s) + 1)
      /\ (<<r>> \o s)[1] = r
      /\ \A i \in 2..(Len(s) + 1) : (<<r>> \o s)[i] = s[i - 1]
  OBVIOUS
<1>7. /\ Distinct(<<r>> \o s)
      /\ Elements(<<r>> \o s) = Elements(s) \cup {r}
      /\ <<r>> \o s # <<>> /\ Head(<<r>> \o s) = r
  <2> DEFINE t == <<r>> \o s
  <2> HIDE DEF t
  <2>1. /\ t \in Seq(Requests) /\ DOMAIN t = 1..(Len(s) + 1)
        /\ t[1] = r /\ \A i \in 2..(Len(s) + 1) : t[i] = s[i - 1]
    BY <1>6 DEF t
  <2>2. Distinct(t)
    <3> SUFFICES ASSUME NEW i \in 1..(Len(s) + 1), NEW j \in 1..(Len(s) + 1), t[i] = t[j]
                 PROVE  i = j
      BY <2>1 DEF Distinct
    <3>1. \A n \in 2..(Len(s) + 1) : n - 1 \in 1..Len(s) /\ t[n] = s[n - 1]
      BY <1>1, <2>1
    <3>2. \A m, n \in 1..Len(s) : s[m] = s[n] => m = n
      BY <1>1 DEF Distinct
    <3>3. CASE i \in 2..(Len(s) + 1) /\ j \in 2..(Len(s) + 1)
      <4>1. i - 1 = j - 1
        BY <3>1, <3>2, <3>3
      <4>2. QED
        BY <3>3, <4>1
    <3>4. CASE i = 1 \/ j = 1
      BY <1>1, <2>1, <3>1, <3>4
    <3>5. QED
      BY <1>1, <3>3, <3>4
  <2>3. Elements(t) = Elements(s) \cup {r}
    <3>1. Elements(t) \subseteq Elements(s) \cup {r}
      <4> SUFFICES ASSUME NEW i \in 1..(Len(s) + 1), t[i] # r PROVE t[i] \in Elements(s)
        BY <2>1 DEF Elements
      <4>1. i \in 2..(Len(s) + 1) /\ i - 1 \in 1..Len(s)
        BY <1>1, <2>1
      <4>2. QED
        BY <1>1, <2>1, <4>1 DEF Elements
    <3>2. \A i \in 1..Len(s) : i + 1 \in 2..(Len(s) + 1) /\ (i + 1) - 1 = i
      BY <1>1
    <3>3. \A i \in 1..Len(s) : s[i] = t[i + 1]
      BY <2>1, <3>2
    <3>4. Elements(s) \subseteq Elements(t)
      <4> SUFFICES ASSUME NEW i \in 1..Len(s) PROVE s[i] \in Elements(t)
        BY <1>1 DEF Elements
      <4>1. i + 1 \in DOMAIN t
        BY <1>1, <2>1
      <4>2. QED
        BY <3>3, <4>1 DEF Elements
    <3>5. r \in Elements(t)
      BY <1>1, <2>1 DEF Elements
    <3>6. QED
      BY <3>1, <3>4, <3>5
  <2>4. t # <<>> /\ Head(t) = r
    BY <1>1, <2>1
  <2>5. QED
    BY <2>2, <2>3, <2>4 DEF t
<1>8. QED
  BY <1>2, <1>3, <1>4, <1>5, <1>6, <1>7

-----------------------------------------------------------------------------
(* The invariant of the lists, said of the values a step is given: the     *)
(* queue and the requests taken out of it but not yet placed, the lists    *)
(* and counts.                                                             *)

DStates == {"pending", "resolved", "elsewhere", "rejected", "failed"}

Placed(pl, where) == {r \in Requests : pl[r] = where}

\* Who waits is in the queue, once.
InLine(q, out, pl) == Distinct(q) /\ Elements(q) = Placed(pl, "waits") \ out

\* A connection is counted for each request on the wire and for the open under way.
Counted(cnt, o, pl) == cnt = Cardinality(Placed(pl, "wire")) + (IF o = None THEN 0 ELSE 1)

\* Who can still be aborted has its handler bound, once.
Bound(lis, pl, df) ==
    Distinct(lis) /\ Elements(lis) = {r \in Requests : pl[r] = "wire" /\ df[r] = "pending"}

\* What has not ended is pending, unless it was cancelled while it waited; opens are
\* never dropped.
Undecided(pl, df) ==
    /\ \A r \in Requests : pl[r] \in {"new", "waits", "wire"} =>
         df[r] = "pending" \/ (df[r] = "rejected" /\ r \in Cancelable /\ pl[r] # "new")
    /\ \A r \in Opens : pl[r] # "dropped"

\* An open that has its connection is not sent yet, and no other open can go.
OneOpens(o, skip, q, pl) ==
    o # None => o \in Opens /\ pl[o] \in {"new", "waits"} /\ (skip \/ q = <<>>)

ListTypes(q, skip, o, pl, df, lis, cnt) ==
    /\ q \in Seq(Requests) /\ skip \in BOOLEAN /\ o \in Opens \cup {None}
    /\ pl \in [Requests -> Places] /\ df \in [Requests -> DStates]
    /\ lis \in Seq(Requests) /\ cnt \in 0..MaxConn

Orderly(q, skip, o, pl, df, lis, cnt) ==
    /\ ListTypes(q, skip, o, pl, df, lis, cnt)
    /\ InLine(q, {o}, pl) /\ Counted(cnt, o, pl) /\ Bound(lis, pl, df)
    /\ Undecided(pl, df) /\ OneOpens(o, skip, q, pl)

ListsInv ==
    /\ Orderly(requestQueue, requestQueueSkipOpen, opening, place, dfrd, listeners, requestCnt)
    /\ queue = Placed(place, "wire") \cap Opens
    /\ cwdQueue = Placed(place, "wire") \cap CwdOnly

RestTypes ==
    /\ target \in [Requests -> Dirs] /\ cwd \in Dirs
    /\ syncing \in BOOLEAN /\ left \in BOOLEAN
    /\ leaving \in [next : Nat, last : Nat]
    /\ asked \in Seq(Opens)

\* Only what was on the wire, or has waited and is no open, is on the wire afterwards;
\* of the others that have had no turn, none has moved.
Moves(pl, out) ==
    /\ \A r \in Requests : pl[r] = "wire" => place'[r] = "wire"
    /\ \A r \in Requests : place'[r] = "wire" /\ pl[r] # "wire" =>
         r \notin Opens /\ (pl[r] = "waits" \/ r \in out)

\* An open that waits has its turn and is skipped, or it is left as it is.
OpensStand(q, pl, df) ==
    \A x \in Opens :
      \/ place'[x] = pl[x] /\ dfrd'[x] = df[x]
      \/ requestQueueSkipOpen /\ x \in Elements(q) /\ place'[x] = "over" /\ dfrd'[x] = "rejected"

\* Skipping begins with an open that goes and ends with the queue.
SkipStands ==
    \/ UNCHANGED requestQueueSkipOpen
    \/ requestQueueSkipOpen' = FALSE /\ requestQueue' = <<>>
    \/ requestQueueSkipOpen' = TRUE /\ opening' # None

-----------------------------------------------------------------------------
\* Requests are finitely many, and one more or less on the wire counts for one.
LEMMA OneMoreOnWire ==
    ASSUME NEW pl \in [Requests -> Places], NEW r \in Requests, pl[r] # "wire"
    PROVE  /\ Cardinality(Placed(pl, "wire")) \in Nat
           /\ Cardinality(Placed(pl, "wire") \cup {r}) = Cardinality(Placed(pl, "wire")) + 1
<1>1. Placed(pl, "wire") \in SUBSET Requests /\ r \notin Placed(pl, "wire")
  BY DEF Placed
<1>2. IsFiniteSet(Placed(pl, "wire"))
  BY <1>1, ConstantsAssumption, FS_Subset
<1>3. QED
  BY <1>1, <1>2, FS_CardinalityType, FS_AddElement

LEMMA OneLessOnWire ==
    ASSUME NEW pl \in [Requests -> Places], NEW r \in Requests, pl[r] = "wire"
    PROVE  /\ Cardinality(Placed(pl, "wire")) \in Nat \ {0}
           /\ Cardinality(Placed(pl, "wire") \ {r}) = Cardinality(Placed(pl, "wire")) - 1
<1>1. Placed(pl, "wire") \in SUBSET Requests /\ r \in Placed(pl, "wire")
  BY DEF Placed
<1>2. IsFiniteSet(Placed(pl, "wire"))
  BY <1>1, ConstantsAssumption, FS_Subset
<1>3. Cardinality(Placed(pl, "wire")) \in Nat /\ Cardinality(Placed(pl, "wire")) # 0
  BY <1>1, <1>2, FS_CardinalityType, FS_EmptySet
<1>4. QED
  BY <1>1, <1>2, <1>3, FS_RemoveElement

\* A request other than an open is sent: it has waited and been taken out of the
\* queue, or it is new.
LEMMA SendOtherKeeps ==
    ASSUME NEW r \in Requests, NEW q, NEW pl, NEW df, NEW lis, NEW cnt,
           ListTypes(q, requestQueueSkipOpen, opening, pl, df, lis, cnt), cnt < MaxConn,
           InLine(q, {opening, r}, pl), Counted(cnt, opening, pl), Bound(lis, pl, df),
           Undecided(pl, df), OneOpens(opening, requestQueueSkipOpen, q, pl),
           pl[r] \in {"new", "waits"}, r # opening,
           SendOther(r, cnt, q, pl, df, lis)
    PROVE  /\ Orderly(requestQueue, requestQueueSkipOpen, opening, place, dfrd, listeners,
                      requestCnt)'
           /\ Moves(pl, {r})
           /\ UNCHANGED <<requestQueueSkipOpen, opening>> /\ dfrd' = df
           /\ \A x \in Opens : place'[x] = pl[x]
           /\ Elements(requestQueue') \subseteq Elements(q)
<1> DEFINE dead == df[r] = "rejected"
           kept == IF dead THEN ButThoseOf(Cmd[r], q) ELSE q
           gone == {x \in Elements(q) : dead /\ Cmd[x] = Cmd[r]}
<1>1. /\ q \in Seq(Requests) /\ Distinct(q) /\ pl \in [Requests -> Places]
      /\ df \in [Requests -> DStates] /\ lis \in Seq(Requests) /\ cnt \in 0..MaxConn
      /\ opening \in Opens \cup {None} /\ requestQueueSkipOpen \in BOOLEAN
  BY DEF ListTypes, InLine
<1>2. /\ kept \in Seq(Requests) /\ Distinct(kept)
      /\ Elements(kept) = Elements(q) \ gone
  <2>1. CASE dead
    BY <1>1, <2>1, GrepKeeps
  <2>2. CASE ~dead
    BY <1>1, <2>2
  <2>3. QED
    BY <2>1, <2>2
<1>3. /\ r \notin Opens /\ requestCnt' = cnt + 1 /\ requestQueue' = kept /\ dfrd' = df
      /\ listeners' = IF dead THEN lis ELSE Append(lis, r)
      /\ UNCHANGED <<requestQueueSkipOpen, opening>>
  BY DEF SendOther
<1>4. place' = [x \in Requests |-> IF x = r THEN "wire"
                                   ELSE IF x \in gone THEN "dropped" ELSE pl[x]]
  <2>1. {q[i] : i \in DOMAIN q} \ {kept[i] : i \in DOMAIN kept} = gone
    BY <1>2 DEF Elements
  <2>2. place' = [x \in Requests |-> CASE x = r -> "wire"
                                       [] x \in gone -> "dropped" [] OTHER -> pl[x]]
    BY <2>1 DEF SendOther
  <2>3. r \notin gone
    BY DEF InLine
  <2> HIDE DEF gone
  <2>4. QED
    BY <2>2, <2>3
<1>5. \A x \in gone : x \in Requests /\ x \notin Opens /\ pl[x] = "waits" /\ x # opening /\ x # r
  BY <1>1, <1>3, ConstantsAssumption DEF InLine, Placed, Opens
<1> HIDE DEF gone, kept
<1>6. place' \in [Requests -> Places]
  BY <1>1, <1>4 DEF Places
<1>7. InLine(requestQueue', {opening'}, place')
  BY <1>2, <1>3, <1>4, <1>5 DEF InLine, Placed
<1>8. Placed(place', "wire") = Placed(pl, "wire") \cup {r}
  BY <1>4, <1>5 DEF Placed
<1>9. Counted(requestCnt', opening', place') /\ requestCnt' \in 0..MaxConn
  BY <1>1, <1>3, <1>8, OneMoreOnWire, ConstantsAssumption DEF Counted
<1>10. /\ listeners' \in Seq(Requests)
       /\ Bound(listeners', place', dfrd')
  <2>1. r \notin Elements(lis)
    BY DEF Bound
  <2>2. CASE dead
    BY <1>1, <1>3, <1>4, <1>5, <2>2 DEF Bound
  <2>3. CASE ~dead
    <3>1. df[r] = "pending"
      BY <2>3 DEF Undecided
    <3>2. Distinct(lis)
      BY DEF Bound
    <3>3. /\ listeners' \in Seq(Requests) /\ Distinct(listeners')
          /\ Elements(listeners') = Elements(lis) \cup {r}
      BY <1>1, <1>3, <2>1, <2>3, <3>2, AddedIsIn
    <3>4. QED
      BY <1>3, <1>4, <1>5, <3>1, <3>3 DEF Bound
  <2>4. QED
    BY <2>2, <2>3
<1>11. Undecided(place', dfrd')
  BY <1>3, <1>4, <1>5, ConstantsAssumption DEF Undecided, Opens
<1>12. OneOpens(opening', requestQueueSkipOpen', requestQueue', place')
  <2>1. q = <<>> => kept = <<>>
    <3>1. q = <<>> => Elements(kept) = {}
      BY <1>2 DEF Elements
    <3>2. Elements(kept) = {} => kept = <<>>
      BY <1>2 DEF Elements
    <3>3. QED
      BY <3>1, <3>2
  <2>2. QED
    BY <1>3, <1>4, <1>5, <2>1 DEF OneOpens, Opens
<1>13. Moves(pl, {r})
  BY <1>3, <1>4, <1>5 DEF Moves
<1>14. \A x \in Opens : place'[x] = pl[x]
  BY <1>3, <1>4, <1>5 DEF Opens
<1>15. ListTypes(requestQueue, requestQueueSkipOpen, opening, place, dfrd, listeners, requestCnt)'
  BY <1>1, <1>2, <1>3, <1>6, <1>9, <1>10 DEF ListTypes
<1>16. QED
  BY <1>2, <1>3, <1>7, <1>9, <1>10, <1>11, <1>12, <1>13, <1>14, <1>15 DEF Orderly

\* The connection is given on: to whom waits first, unless that is an open that is
\* skipped or goes, or to nobody.
LEMMA ReleasedKeeps ==
    ASSUME NEW q, NEW pl, NEW df, NEW lis,
           Orderly(q, requestQueueSkipOpen, opening, pl, df, lis, requestCnt - 1),
           requestCnt - 1 < MaxConn, requestCnt \in Nat,
           Released(q, pl, df, lis)
    PROVE  /\ Orderly(requestQueue, requestQueueSkipOpen, opening, place, dfrd, listeners,
                      requestCnt)'
           /\ Moves(pl, {})
           /\ Elements(requestQueue') \subseteq Elements(q)
           /\ opening' = IF OpenNext(q) # None THEN OpenNext(q) ELSE opening
           /\ OpensStand(q, pl, df) /\ SkipStands
<1>1. /\ q \in Seq(Requests) /\ Distinct(q) /\ pl \in [Requests -> Places]
      /\ df \in [Requests -> DStates] /\ lis \in Seq(Requests) /\ requestCnt - 1 \in 0..MaxConn
      /\ opening \in Opens \cup {None} /\ requestQueueSkipOpen \in BOOLEAN
  BY DEF Orderly, ListTypes, InLine
<1>2. CASE q = <<>>
  <2>1. /\ requestQueueSkipOpen' = FALSE /\ requestCnt' = requestCnt - 1 /\ requestQueue' = q
        /\ place' = pl /\ dfrd' = df /\ listeners' = lis /\ opening' = opening
    BY <1>2 DEF Released
  <2>2. OpenNext(q) = None
    BY <1>2 DEF OpenNext
  <2>3. Moves(pl, {})
    BY <2>1 DEF Moves
  <2>4. OpensStand(q, pl, df) /\ SkipStands
    BY <1>2, <2>1 DEF OpensStand, SkipStands
  <2>5. Orderly(q, FALSE, opening, pl, df, lis, requestCnt - 1)
    BY <1>2 DEF Orderly, ListTypes, OneOpens
  <2>6. Orderly(requestQueue, requestQueueSkipOpen, opening, place, dfrd, listeners, requestCnt)'
    BY <2>1, <2>5
  <2>7. QED
    BY <2>1, <2>2, <2>3, <2>4, <2>6
<1>3. CASE q # <<>>
  <2> DEFINE h == Head(q)
  <2>1. /\ Tail(q) \in Seq(Requests) /\ Distinct(Tail(q))
        /\ Elements(Tail(q)) = Elements(q) \ {h} /\ h \in Elements(q) /\ h \in Requests
    BY <1>1, <1>3, ShiftedIsOut
  <2>2. pl[h] = "waits" /\ h # opening
    BY <2>1 DEF Orderly, InLine, Placed
  <2>3. TakeTurn(h, requestCnt - 1, Tail(q), pl, df, lis)
    BY <1>3 DEF Released
  <2> HIDE DEF h
  <2>4. CASE Skip(h, requestCnt - 1, Tail(q), pl, df, lis)
    <3>1. /\ h \in Opens /\ requestQueueSkipOpen
          /\ place' = [pl EXCEPT ![h] = "over"] /\ dfrd' = [df EXCEPT ![h] = "rejected"]
          /\ requestCnt' = requestCnt - 1 /\ requestQueue' = Tail(q) /\ listeners' = lis
          /\ UNCHANGED <<requestQueueSkipOpen, opening>>
      BY <2>4 DEF Skip
    <3>2. OpenNext(q) = None
      BY <3>1 DEF OpenNext
    <3>3. Moves(pl, {})
      BY <1>1, <2>2, <3>1 DEF Moves
    <3>4. ListTypes(requestQueue, requestQueueSkipOpen, opening, place, dfrd, listeners, requestCnt)'
      BY <1>1, <2>1, <3>1 DEF ListTypes, Places, DStates
    <3>5. InLine(requestQueue', {opening'}, place')
      BY <1>1, <2>1, <3>1 DEF Orderly, InLine, Placed
    <3>6. Placed(place', "wire") = Placed(pl, "wire")
      BY <1>1, <2>2, <3>1 DEF Placed
    <3>7. Counted(requestCnt', opening', place')
      BY <3>1, <3>6 DEF Orderly, Counted
    <3>8. Bound(listeners', place', dfrd')
      BY <1>1, <2>2, <3>1 DEF Orderly, Bound
    <3>9. Undecided(place', dfrd')
      BY <1>1, <3>1 DEF Orderly, Undecided, Opens
    <3>10. OneOpens(opening', requestQueueSkipOpen', requestQueue', place')
      BY <1>1, <2>2, <3>1 DEF Orderly, OneOpens, Opens
    <3>11. OpensStand(q, pl, df)
      <4> SUFFICES ASSUME NEW x \in Opens
                   PROVE  \/ place'[x] = pl[x] /\ dfrd'[x] = df[x]
                          \/ x = h /\ place'[x] = "over" /\ dfrd'[x] = "rejected"
        BY <2>1, <3>1 DEF OpensStand
      <4>1. x \in Requests
        BY DEF Opens
      <4>2. QED
        BY <1>1, <3>1, <4>1
    <3>12. SkipStands
      BY <3>1 DEF SkipStands
    <3>13. Elements(requestQueue') \subseteq Elements(q)
      BY <2>1, <3>1
    <3>14. opening' = opening
      BY <3>1
    <3>15. QED
      BY <3>2, <3>3, <3>4, <3>5, <3>7, <3>8, <3>9, <3>10, <3>11, <3>12, <3>13, <3>14 DEF Orderly
  <2>5. CASE BeginOpen(h, requestCnt - 1, Tail(q), pl, df, lis)
    <3>1. /\ h \in Opens /\ ~requestQueueSkipOpen /\ opening' = h /\ requestQueueSkipOpen' = TRUE
          /\ requestCnt' = (requestCnt - 1) + 1 /\ requestQueue' = Tail(q)
          /\ place' = pl /\ dfrd' = df /\ listeners' = lis
      BY <2>5 DEF BeginOpen
    <3>2. opening = None
      BY <1>1, <1>3, <3>1 DEF Orderly, OneOpens
    <3>3. OpenNext(q) = h /\ h # None
      BY <1>3, <2>1, <3>1, ConstantsAssumption DEF OpenNext, h
    <3>4. Moves(pl, {})
      BY <3>1 DEF Moves
    <3>5. requestCnt' \in 0..MaxConn
      BY <1>1, <3>1, ConstantsAssumption
    <3>6. ListTypes(requestQueue, requestQueueSkipOpen, opening, place, dfrd, listeners, requestCnt)'
      BY <1>1, <2>1, <3>1, <3>5 DEF ListTypes
    <3>7. InLine(requestQueue', {opening'}, place')
      BY <2>1, <3>1, <3>2, ConstantsAssumption DEF Orderly, InLine, Placed
    <3>8. Counted(requestCnt', opening', place')
      <4>1. requestCnt - 1 = Cardinality(Placed(pl, "wire")) + 0
        BY <3>2 DEF Orderly, Counted
      <4>2. Cardinality(Placed(pl, "wire")) \in Nat
        BY <1>1, <2>1, <2>2, OneMoreOnWire
      <4>3. QED
        BY <3>1, <3>3, <4>1, <4>2 DEF Counted
    <3>9. OneOpens(opening', requestQueueSkipOpen', requestQueue', place')
      BY <2>2, <3>1 DEF OneOpens
    <3>10. OpensStand(q, pl, df) /\ SkipStands
      BY <3>1, <3>3 DEF OpensStand, SkipStands
    <3>11. QED
      BY <2>1, <3>1, <3>3, <3>4, <3>6, <3>7, <3>8, <3>9, <3>10 DEF Orderly
  <2>6. CASE SendOther(h, requestCnt - 1, Tail(q), pl, df, lis)
    <3>1. h \notin Opens
      BY <2>6 DEF SendOther
    <3>2. OpenNext(q) = None
      BY <3>1 DEF OpenNext, h
    <3>3. InLine(Tail(q), {opening, h}, pl)
      BY <2>1 DEF Orderly, InLine
    <3>4. OneOpens(opening, requestQueueSkipOpen, Tail(q), pl)
      BY <1>3 DEF Orderly, OneOpens
    <3>5. ListTypes(Tail(q), requestQueueSkipOpen, opening, pl, df, lis, requestCnt - 1)
      BY <1>1, <2>1 DEF ListTypes
    <3>6. /\ Orderly(requestQueue, requestQueueSkipOpen, opening, place, dfrd, listeners,
                     requestCnt)'
          /\ Moves(pl, {h})
          /\ UNCHANGED <<requestQueueSkipOpen, opening>> /\ dfrd' = df
          /\ \A x \in Opens : place'[x] = pl[x]
          /\ Elements(requestQueue') \subseteq Elements(Tail(q))
      BY <2>1, <2>2, <2>6, <3>3, <3>4, <3>5, SendOtherKeeps DEF Orderly
    <3>7. Moves(pl, {})
      BY <2>2, <3>6 DEF Moves
    <3>8. OpensStand(q, pl, df) /\ SkipStands
      BY <3>6 DEF OpensStand, SkipStands
    <3>9. Elements(requestQueue') \subseteq Elements(q)
      BY <2>1, <3>6
    <3>10. opening' = opening
      BY <3>6
    <3>11. QED
      BY <3>2, <3>6, <3>7, <3>8, <3>9, <3>10
  <2>7. QED
    BY <2>3, <2>4, <2>5, <2>6 DEF TakeTurn
<1>4. QED
  BY <1>2, <1>3

-----------------------------------------------------------------------------
\* What a handler that ends x hands to Released: x is over and has its state; what it
\* has taken out of the queue is dropped, and that is no open.
Ends(x, q, pl, df) ==
    /\ q \in Seq(Requests) /\ Distinct(q) /\ Elements(q) \subseteq Elements(requestQueue)
    /\ requestQueue = <<>> => q = <<>>
    /\ pl \in [Requests -> Places] /\ df \in [Requests -> DStates]
    /\ pl[x] = "over" /\ df[x] # "pending"
    /\ \A y \in Requests \ {x} :
         /\ df[y] = dfrd[y]
         /\ IF y \in Elements(requestQueue) \ Elements(q)
            THEN pl[y] = "dropped" /\ y \notin Opens ELSE pl[y] = place[y]

LEMMA EndedIsOrderly ==
    ASSUME ListsInv, NEW x \in Requests, place[x] = "wire",
           NEW q, NEW pl, NEW df, Ends(x, q, pl, df)
    PROVE  /\ Orderly(q, requestQueueSkipOpen, opening, pl, df, Without(listeners, x),
                      requestCnt - 1)
           /\ requestCnt \in Nat /\ requestCnt - 1 < MaxConn
<1> DEFINE taken == Elements(requestQueue) \ Elements(q)
           lis == Without(listeners, x)
<1>1. /\ Orderly(requestQueue, requestQueueSkipOpen, opening, place, dfrd, listeners, requestCnt)
      /\ ListTypes(requestQueue, requestQueueSkipOpen, opening, place, dfrd, listeners, requestCnt)
  BY DEF ListsInv, Orderly
<1>2. \A y \in taken : y \in Requests /\ place[y] = "waits" /\ y # opening /\ y # x
  BY <1>1 DEF Orderly, InLine, Placed
<1>3. /\ pl[x] = "over" /\ df[x] # "pending"
      /\ \A y \in Requests \ {x} : /\ df[y] = dfrd[y]
                                   /\ y \in taken => pl[y] = "dropped" /\ y \notin Opens
                                   /\ y \notin taken => pl[y] = place[y]
      /\ q \in Seq(Requests) /\ Distinct(q) /\ Elements(q) \subseteq Elements(requestQueue)
      /\ requestQueue = <<>> => q = <<>>
      /\ pl \in [Requests -> Places] /\ df \in [Requests -> DStates]
  BY DEF Ends
<1>4. Elements(q) = Elements(requestQueue) \ taken
  BY <1>3
<1>5. opening # x
  BY <1>1, ConstantsAssumption DEF Orderly, OneOpens
<1> HIDE DEF taken
<1>6. /\ lis \in Seq(Requests) /\ Distinct(lis) /\ Elements(lis) = Elements(listeners) \ {x}
  BY <1>1, UnboundIsOut DEF Orderly, ListTypes, Bound
<1>7. InLine(q, {opening}, pl)
  BY <1>1, <1>2, <1>3, <1>4 DEF Orderly, InLine, Placed
<1>8. Placed(pl, "wire") = Placed(place, "wire") \ {x}
  BY <1>2, <1>3 DEF Placed
<1>9. /\ Counted(requestCnt - 1, opening, pl) /\ requestCnt - 1 \in 0..MaxConn
      /\ requestCnt \in Nat /\ requestCnt - 1 < MaxConn
  <2>1. /\ Cardinality(Placed(place, "wire")) \in Nat \ {0}
        /\ Cardinality(Placed(pl, "wire")) = Cardinality(Placed(place, "wire")) - 1
    BY <1>1, <1>8, OneLessOnWire DEF ListTypes
  <2>2. requestCnt = Cardinality(Placed(place, "wire")) + (IF opening = None THEN 0 ELSE 1)
    BY <1>1 DEF Orderly, Counted
  <2>3. requestCnt \in 0..MaxConn /\ MaxConn \in Nat
    BY <1>1, ConstantsAssumption DEF ListTypes
  <2>4. requestCnt # 0
    BY <2>1, <2>2
  <2>5. QED
    BY <2>1, <2>2, <2>3, <2>4 DEF Counted
<1>10. Bound(lis, pl, df)
  <2>1. Elements(listeners) = {r \in Requests : place[r] = "wire" /\ dfrd[r] = "pending"}
    BY <1>1 DEF Orderly, Bound
  <2>2. QED
    BY <1>2, <1>3, <1>6, <2>1 DEF Bound
<1>11. Undecided(pl, df)
  <2>1. ASSUME NEW r \in Requests, pl[r] \in {"new", "waits", "wire"}
        PROVE  pl[r] = place[r] /\ df[r] = dfrd[r]
    BY <1>3, <2>1
  <2>2. ASSUME NEW r \in Opens
        PROVE  pl[r] # "dropped"
    BY <1>1, <1>3 DEF Orderly, Undecided, Opens
  <2>3. QED
    BY <1>1, <2>1, <2>2 DEF Orderly, Undecided
<1>12. OneOpens(opening, requestQueueSkipOpen, q, pl)
  BY <1>1, <1>2, <1>3, <1>5 DEF Orderly, OneOpens, Opens
<1>13. ListTypes(q, requestQueueSkipOpen, opening, pl, df, lis, requestCnt - 1)
  BY <1>1, <1>3, <1>6, <1>9 DEF ListTypes
<1>14. QED
  BY <1>7, <1>9, <1>10, <1>11, <1>12, <1>13 DEF Orderly

\* The lists of what a later open ends: what has ended leaves them, what is sent and
\* has not been cancelled enters them, and what is in cwdQueue cannot be cancelled.
LEMMA SentListsKept ==
    ASSUME Undecided(place', dfrd'),
           queue = Placed(place, "wire") \cap Opens, cwdQueue = Placed(place, "wire") \cap CwdOnly,
           NEW ended, \A r \in Requests : place'[r] = "wire" /\ place[r] # "wire" => r \notin Opens,
           \A r \in Requests : place[r] = "wire" /\ r \notin ended => place'[r] = "wire",
           \A r \in Requests : place[r] = "wire" /\ r \in ended => place'[r] # "wire",
           queue' = queue \ ended, cwdQueue' = CwdQueueWith(cwdQueue \ ended)
    PROVE  /\ queue' = Placed(place', "wire") \cap Opens
           /\ cwdQueue' = Placed(place', "wire") \cap CwdOnly
<1>1. queue' = Placed(place', "wire") \cap Opens
  BY DEF Placed
<1>2. ASSUME NEW r \in CwdOnly, place'[r] = "wire"
      PROVE  dfrd'[r] = "pending"
  BY <1>2, ConstantsAssumption DEF Undecided, CwdOnly
<1>3. CwdOnly \subseteq Requests
  BY DEF CwdOnly
<1>4. cwdQueue' = Placed(place', "wire") \cap CwdOnly
  BY <1>2, <1>3 DEF CwdQueueWith, Placed
<1>5. QED
  BY <1>1, <1>4

\* Whoever ends a request keeps the lists true, and gives the connection on.
LEMMA EndKeeps ==
    ASSUME ListsInv, NEW x \in Requests, place[x] = "wire",
           NEW q, NEW pl, NEW df, Ends(x, q, pl, df),
           Released(q, pl, df, Without(listeners, x)),
           queue' = queue \ {x}, cwdQueue' = CwdQueueWith(cwdQueue \ {x})
    PROVE  /\ ListsInv' /\ OpensStand(q, pl, df) /\ SkipStands
           /\ Elements(requestQueue') \subseteq Elements(q)
           /\ opening' = IF OpenNext(q) # None THEN OpenNext(q) ELSE opening
<1>1. /\ Orderly(requestQueue, requestQueueSkipOpen, opening, place, dfrd, listeners,
                 requestCnt)'
      /\ Moves(pl, {}) /\ OpensStand(q, pl, df) /\ SkipStands
      /\ Elements(requestQueue') \subseteq Elements(q)
      /\ opening' = IF OpenNext(q) # None THEN OpenNext(q) ELSE opening
  BY EndedIsOrderly, ReleasedKeeps
<1>2. ASSUME NEW r \in Requests
      PROVE  /\ place'[r] = "wire" /\ place[r] # "wire" => r \notin Opens
             /\ place[r] = "wire" /\ r # x => place'[r] = "wire"
             /\ place'[x] # "wire"
  <2>1. \A y \in Requests \ {x} : pl[y] = place[y] \/ pl[y] = "dropped"
    BY DEF Ends
  <2>2. \A y \in Elements(requestQueue) : place[y] # "wire"
    BY DEF ListsInv, Orderly, InLine, Placed
  <2>3. \A y \in Requests \ {x} : place[y] = "wire" => pl[y] = "wire"
    BY <2>2 DEF Ends
  <2>4. pl[x] = "over"
    BY DEF Ends
  <2>5. QED
    BY <1>1, <2>1, <2>3, <2>4 DEF Moves
<1>3. Undecided(place', dfrd')
  BY <1>1 DEF Orderly
<1>4. queue = Placed(place, "wire") \cap Opens /\ cwdQueue = Placed(place, "wire") \cap CwdOnly
  BY DEF ListsInv
<1>5. /\ queue' = Placed(place', "wire") \cap Opens
      /\ cwdQueue' = Placed(place', "wire") \cap CwdOnly
  <2>1. /\ \A r \in Requests : place'[r] = "wire" /\ place[r] # "wire" => r \notin Opens
        /\ \A r \in Requests : place[r] = "wire" /\ r \notin {x} => place'[r] = "wire"
        /\ \A r \in Requests : place[r] = "wire" /\ r \in {x} => place'[r] # "wire"
    BY <1>2
  <2>2. QED
    BY <1>3, <1>4, <2>1, SentListsKept
<1>6. QED
  BY <1>1, <1>5 DEF ListsInv

-----------------------------------------------------------------------------
\* Asking for an open: it goes, or it waits before all others and no open is skipped.
AskedOpen(r) ==
    \/ /\ opening' = r /\ requestQueueSkipOpen' = TRUE
       /\ UNCHANGED <<requestQueue, place, dfrd>>
    \/ /\ place' = [place EXCEPT ![r] = "waits"]
       /\ requestQueue' = <<r>> \o requestQueue /\ requestQueueSkipOpen' = FALSE
       /\ UNCHANGED <<opening, dfrd>>

\* Asking for anything else is nothing to the opens.
AskedOther(r) ==
    /\ UNCHANGED <<opening, requestQueueSkipOpen>>
    /\ \A x \in Opens : place'[x] = place[x] /\ dfrd'[x] = dfrd[x]
    /\ Elements(requestQueue') \subseteq Elements(requestQueue) \cup {r}
    /\ requestQueue # <<>> => requestQueue' # <<>> /\ Head(requestQueue') = Head(requestQueue)

\* Asking keeps the lists true.
LEMMA RequestKeeps ==
    ASSUME ListsInv, opening = None, NEW r \in Requests, NEW d, Request(r, d)
    PROVE  ListsInv' /\ IF r \in Opens THEN AskedOpen(r) ELSE AskedOther(r)
<1>1. /\ Orderly(requestQueue, requestQueueSkipOpen, opening, place, dfrd, listeners, requestCnt)
      /\ ListTypes(requestQueue, requestQueueSkipOpen, opening, place, dfrd, listeners, requestCnt)
      /\ queue = Placed(place, "wire") \cap Opens /\ cwdQueue = Placed(place, "wire") \cap CwdOnly
      /\ None \notin Requests /\ MaxConn \in Nat
  BY ConstantsAssumption DEF ListsInv, Orderly
<1>2. place[r] = "new" /\ UNCHANGED queue
  BY DEF Request
<1>3. r \notin Elements(requestQueue) /\ Distinct(requestQueue) /\ requestQueue \in Seq(Requests)
  BY <1>1, <1>2 DEF Orderly, InLine, Placed, ListTypes
<1>4. CASE Free /\ r \in Opens
  <2>1. /\ opening' = r /\ requestQueueSkipOpen' = TRUE /\ requestCnt' = requestCnt + 1
        /\ UNCHANGED <<requestQueue, place, dfrd, listeners, cwdQueue>>
    BY <1>4 DEF Request
  <2>2. AskedOpen(r)
    BY <2>1 DEF AskedOpen
  <2>3. requestCnt + 1 \in 0..MaxConn
    BY <1>1, <1>4 DEF Free, ListTypes
  <2>4. ListTypes(requestQueue, TRUE, r, place, dfrd, listeners, requestCnt + 1)
    BY <1>1, <1>4, <2>3 DEF ListTypes
  <2>5. InLine(requestQueue, {r}, place)
    BY <1>1, <1>2 DEF Orderly, InLine, Placed
  <2>6. Counted(requestCnt + 1, r, place)
    <3>1. requestCnt = Cardinality(Placed(place, "wire")) + 0
      BY <1>1 DEF Orderly, Counted
    <3>2. Cardinality(Placed(place, "wire")) \in Nat
      BY <1>1, <1>2, OneMoreOnWire DEF ListTypes
    <3>3. r # None
      BY <1>1
    <3>4. QED
      BY <3>1, <3>2, <3>3 DEF Counted
  <2>7. OneOpens(r, TRUE, requestQueue, place)
    BY <1>2, <1>4 DEF OneOpens
  <2>8. Orderly(requestQueue, TRUE, r, place, dfrd, listeners, requestCnt + 1)
    BY <1>1, <2>4, <2>5, <2>6, <2>7 DEF Orderly
  <2>9. ListsInv'
    BY <1>1, <1>2, <2>1, <2>8 DEF ListsInv
  <2>10. QED
    BY <1>4, <2>2, <2>9
<1>5. CASE Free /\ r \notin Opens
  <2>1. /\ SendOther(r, requestCnt, requestQueue, place, dfrd, listeners)
        /\ cwdQueue' = CwdQueueWith(cwdQueue)
    BY <1>5 DEF Request
  <2>2. InLine(requestQueue, {opening, r}, place)
    BY <1>1, <1>2 DEF Orderly, InLine, Placed
  <2>3. requestCnt < MaxConn
    BY <1>5 DEF Free
  <2>4. /\ Orderly(requestQueue, requestQueueSkipOpen, opening, place, dfrd, listeners,
                   requestCnt)'
        /\ Moves(place, {r})
        /\ UNCHANGED <<requestQueueSkipOpen, opening>> /\ dfrd' = dfrd
        /\ \A x \in Opens : place'[x] = place[x]
    BY <1>1, <1>2, <2>1, <2>2, <2>3, SendOtherKeeps DEF Orderly
  <2>5. requestQueue' = requestQueue
    <3>1. dfrd[r] # "rejected"
      BY <1>1, <1>2 DEF Orderly, Undecided
    <3>2. QED
      BY <2>1, <3>1 DEF SendOther
  <2>6. AskedOther(r)
    BY <2>4, <2>5 DEF AskedOther
  <2>7. Undecided(place', dfrd')
    BY <2>4 DEF Orderly
  <2> DEFINE ended == {}
  <2>8. /\ \A x \in Requests : place'[x] = "wire" /\ place[x] # "wire" => x \notin Opens
        /\ \A x \in Requests : place[x] = "wire" /\ x \notin ended => place'[x] = "wire"
        /\ \A x \in Requests : place[x] = "wire" /\ x \in ended => place'[x] # "wire"
        /\ queue' = queue \ ended /\ cwdQueue' = CwdQueueWith(cwdQueue \ ended)
    <3>1. cwdQueue \ ended = cwdQueue
      OBVIOUS
    <3>2. QED
      BY <1>2, <1>5, <2>1, <2>4, <3>1 DEF Moves
  <2>9. /\ queue' = Placed(place', "wire") \cap Opens
        /\ cwdQueue' = Placed(place', "wire") \cap CwdOnly
    <3> HIDE DEF ended
    <3>1. QED
      BY <1>1, <2>7, <2>8, SentListsKept
  <2>10. QED
    BY <1>5, <2>4, <2>6, <2>9 DEF ListsInv
<1>6. CASE ~Free
  <2>1. /\ place' = [place EXCEPT ![r] = "waits"] /\ requestQueue' = Queued(r)
        /\ requestQueueSkipOpen' = (r \notin Opens /\ requestQueueSkipOpen)
        /\ UNCHANGED <<requestCnt, opening, dfrd, listeners, cwdQueue>>
    BY <1>6 DEF Request
  <2>2. /\ requestQueue' \in Seq(Requests) /\ Distinct(requestQueue')
        /\ Elements(requestQueue') = Elements(requestQueue) \cup {r}
        /\ r \notin Opens /\ requestQueue # <<>> =>
             requestQueue' # <<>> /\ Head(requestQueue') = Head(requestQueue)
    <3>1. CASE r \in Opens
      BY <1>3, <2>1, <3>1, AddedIsIn DEF Queued
    <3>2. CASE r \notin Opens
      BY <1>3, <2>1, <3>2, AddedIsIn DEF Queued
    <3>3. QED
      BY <3>1, <3>2
  <2>3. IF r \in Opens THEN AskedOpen(r) ELSE AskedOther(r)
    <3>1. CASE r \in Opens
      BY <2>1, <3>1 DEF AskedOpen, Queued
    <3>2. CASE r \notin Opens
      <4>1. requestQueueSkipOpen' = requestQueueSkipOpen
        BY <1>1, <2>1, <3>2 DEF ListTypes
      <4>2. \A x \in Opens : place'[x] = place[x]
        BY <1>1, <2>1, <3>2 DEF ListTypes, Opens
      <4>3. QED
        BY <2>1, <2>2, <3>2, <4>1, <4>2 DEF AskedOther
    <3>3. QED
      BY <3>1, <3>2
  <2>4. ListTypes(requestQueue, requestQueueSkipOpen, opening, place, dfrd, listeners, requestCnt)'
    <3>1. place' \in [Requests -> Places]
      BY <1>1, <2>1 DEF ListTypes, Places
    <3>2. requestQueueSkipOpen' \in BOOLEAN
      BY <2>1
    <3>3. QED
      BY <1>1, <2>1, <2>2, <3>1, <3>2 DEF ListTypes
  <2>5. /\ Placed(place', "wire") = Placed(place, "wire")
        /\ Placed(place', "waits") = Placed(place, "waits") \cup {r}
    BY <1>1, <1>2, <2>1 DEF Placed, ListTypes
  <2>6. InLine(requestQueue', {opening'}, place')
    BY <1>1, <2>1, <2>2, <2>5 DEF Orderly, InLine
  <2>7. Bound(listeners', place', dfrd')
    BY <1>1, <1>2, <2>1 DEF Orderly, Bound, ListTypes
  <2>8. Undecided(place', dfrd')
    BY <1>1, <1>2, <2>1 DEF Orderly, Undecided, ListTypes, Opens
  <2>9. Counted(requestCnt', opening', place')
    BY <1>1, <2>1, <2>5 DEF Orderly, Counted
  <2>10. OneOpens(opening', requestQueueSkipOpen', requestQueue', place')
    BY <2>1 DEF OneOpens
  <2>11. ListsInv'
    BY <1>1, <1>2, <2>1, <2>4, <2>5, <2>6, <2>7, <2>8, <2>9, <2>10 DEF ListsInv, Orderly
  <2>12. QED
    BY <2>3, <2>11
<1>7. QED
  BY <1>4, <1>5, <1>6

-----------------------------------------------------------------------------
\* Nothing is cancelled or taken out of the queue: only x ends.
LEMMA OnlyItEnds ==
    ASSUME ListsInv, NEW x \in Requests, place[x] = "wire",
           NEW df \in [Requests -> DStates], df[x] # "pending",
           \A y \in Requests \ {x} : df[y] = dfrd[y]
    PROVE  Ends(x, requestQueue, [place EXCEPT ![x] = "over"], df)
<1>1. /\ requestQueue \in Seq(Requests) /\ Distinct(requestQueue) /\ place \in [Requests -> Places]
  BY DEF ListsInv, Orderly, ListTypes, InLine
<1>2. [place EXCEPT ![x] = "over"] \in [Requests -> Places]
  BY <1>1 DEF Places
<1>3. QED
  BY <1>1, <1>2 DEF Ends

\* What can be ended for an open, or by a handler that is bound, is on the wire.
LEMMA WhoIsOnWire ==
    ASSUME ListsInv
    PROVE  /\ \A x \in ToEnd : x \in Requests /\ place[x] = "wire"
           /\ \A i \in DOMAIN listeners :
                /\ listeners[i] \in Requests
                /\ place[listeners[i]] = "wire" /\ dfrd[listeners[i]] = "pending"
<1>1. \A x \in queue \cup cwdQueue : x \in Requests /\ place[x] = "wire"
  BY DEF ListsInv, Placed
<1>2. Elements(listeners) = {r \in Requests : place[r] = "wire" /\ dfrd[r] = "pending"}
  BY DEF ListsInv, Orderly, Bound
<1>3. ASSUME NEW i \in DOMAIN listeners
      PROVE  listeners[i] \in Elements(listeners)
  BY DEF Elements
<1>4. QED
  BY <1>1, <1>2, <1>3 DEF ToEnd

\* An open or what is of use to one folder cannot be cancelled: it is pending until it ends.
LEMMA OpensArePending ==
    ASSUME ListsInv, NEW r \in Opens, place[r] \in {"new", "waits", "wire"}
    PROVE  dfrd[r] = "pending"
BY ConstantsAssumption DEF ListsInv, Orderly, Undecided, Opens

\* Who is aborted, for a later open or because the page is left.
LEMMA AbortEnds ==
    ASSUME ListsInv, NEW x \in Requests, place[x] = "wire"
    PROVE  Ends(x, requestQueue, [place EXCEPT ![x] = "over"], [dfrd EXCEPT ![x] = "rejected"])
<1>1. dfrd \in [Requests -> DStates]
  BY DEF ListsInv, Orderly, ListTypes
<1> DEFINE df == [dfrd EXCEPT ![x] = "rejected"]
<1>2. df \in [Requests -> DStates] /\ df[x] # "pending" /\ \A y \in Requests \ {x} : df[y] = dfrd[y]
  BY <1>1 DEF DStates
<1> HIDE DEF df
<1>3. Ends(x, requestQueue, [place EXCEPT ![x] = "over"], df)
  BY <1>2, OnlyItEnds
<1>4. QED
  BY <1>3 DEF df

\* The state an answer gives the Deferred, and what the Deferreds are then.
Given(r, a) == IF Overtaken(r) THEN "rejected" ELSE a
AfterAnswer(r, a) == IF dfrd[r] = "pending" THEN [dfrd EXCEPT ![r] = Given(r, a)] ELSE dfrd

LEMMA AnswerEnds ==
    ASSUME ListsInv, NEW r \in Requests, place[r] = "wire", NEW a \in Answers
    PROVE  Ends(r, requestQueue, [place EXCEPT ![r] = "over"], AfterAnswer(r, a))
<1>1. dfrd \in [Requests -> DStates]
  BY DEF ListsInv, Orderly, ListTypes
<1>2. Given(r, a) \in DStates \ {"pending"}
  BY DEF Given, DStates, Answers
<1>3. /\ AfterAnswer(r, a) \in [Requests -> DStates] /\ AfterAnswer(r, a)[r] # "pending"
      /\ \A y \in Requests \ {r} : AfterAnswer(r, a)[y] = dfrd[y]
  BY <1>1, <1>2 DEF AfterAnswer
<1>4. QED
  BY <1>3, OnlyItEnds

\* What waits with the command of a request that is cancelled is taken out of the queue.
Dropping(r) == [x \in Requests |-> CASE x = r -> "over"
                                     [] x \in Waiting /\ Cmd[x] = Cmd[r] -> "dropped"
                                     [] OTHER -> place[x]]

LEMMA CancelEnds ==
    ASSUME ListsInv, NEW r \in Requests, place[r] = "wire", r \notin Opens
    PROVE  Ends(r, ButThoseOf(Cmd[r], requestQueue), Dropping(r), [dfrd EXCEPT ![r] = "rejected"])
<1> DEFINE kept == ButThoseOf(Cmd[r], requestQueue)
           df == [dfrd EXCEPT ![r] = "rejected"]
<1>1. /\ requestQueue \in Seq(Requests) /\ Distinct(requestQueue)
      /\ place \in [Requests -> Places] /\ dfrd \in [Requests -> DStates]
      /\ r \notin Elements(requestQueue)
  BY DEF ListsInv, Orderly, ListTypes, InLine, Placed
<1>2. /\ kept \in Seq(Requests) /\ Distinct(kept)
      /\ Elements(kept) = {x \in Elements(requestQueue) : Cmd[x] # Cmd[r]}
  BY <1>1, GrepKeeps
<1>3. df \in [Requests -> DStates] /\ df[r] # "pending" /\ \A y \in Requests \ {r} : df[y] = dfrd[y]
  BY <1>1 DEF DStates
<1>4. Waiting = Elements(requestQueue)
  BY DEF Waiting, Elements
<1>5. Dropping(r) = [x \in Requests |-> IF x = r THEN "over"
                       ELSE IF x \in Elements(requestQueue) /\ Cmd[x] = Cmd[r] THEN "dropped"
                       ELSE place[x]]
  <2>1. ~(r \in Elements(requestQueue) /\ Cmd[r] = Cmd[r])
    BY <1>1
  <2>2. Dropping(r) = [x \in Requests |-> CASE x = r -> "over"
                        [] x \in Elements(requestQueue) /\ Cmd[x] = Cmd[r] -> "dropped"
                        [] OTHER -> place[x]]
    BY <1>4 DEF Dropping
  <2>3. QED
    BY <2>1, <2>2
<1>6. Dropping(r) \in [Requests -> Places] /\ Dropping(r)[r] = "over"
  BY <1>1, <1>5 DEF Places
<1>7. ASSUME NEW y \in Requests \ {r}
      PROVE  IF y \in Elements(requestQueue) \ Elements(kept)
             THEN Dropping(r)[y] = "dropped" /\ y \notin Opens ELSE Dropping(r)[y] = place[y]
  <2>1. CASE y \in Elements(requestQueue) /\ Cmd[y] = Cmd[r]
    BY <1>2, <1>5, <2>1 DEF Opens
  <2>2. CASE ~(y \in Elements(requestQueue) /\ Cmd[y] = Cmd[r])
    BY <1>2, <1>5, <2>2
  <2>3. QED
    BY <2>1, <2>2
<1>8. requestQueue = <<>> => kept = <<>>
  <2>1. requestQueue = <<>> => Elements(kept) = {}
    BY <1>2 DEF Elements
  <2>2. Elements(kept) = {} => kept = <<>>
    BY <1>2 DEF Elements
  <2>3. QED
    BY <2>1, <2>2
<1> HIDE DEF kept, df
<1>9. Ends(r, kept, Dropping(r), df)
  BY <1>2, <1>3, <1>6, <1>7, <1>8 DEF Ends
<1>10. QED
  BY <1>9 DEF kept, df

-----------------------------------------------------------------------------
\* Every step keeps the lists true.
LEMMA AskLists ==
    ASSUME ListsInv, RestTypes, opening = None, NEW r \in Requests, NEW d \in Dirs, Request(r, d)
    PROVE  ListsInv' /\ (syncing' \in BOOLEAN => RestTypes')
<1>1. ListsInv'
  BY RequestKeeps
<1>2. /\ target' = [target EXCEPT ![r] = d] /\ UNCHANGED <<cwd, leaving, left>>
      /\ asked' = IF r \in Opens THEN Append(asked, r) ELSE asked
  BY DEF Request
<1>3. asked' \in Seq(Opens) /\ target' \in [Requests -> Dirs]
  BY <1>2 DEF RestTypes
<1>4. QED
  BY <1>1, <1>2, <1>3 DEF RestTypes

LEMMA EndForOpenLists ==
    ASSUME ListsInv, RestTypes, EndForOpen
    PROVE  ListsInv' /\ RestTypes'
<1>1. PICK x \in ToEnd :
        /\ Released(requestQueue, [place EXCEPT ![x] = "over"],
                    [dfrd EXCEPT ![x] = "rejected"], Without(listeners, x))
        /\ queue' = queue \ {x}
        /\ cwdQueue' = CwdQueueWith(cwdQueue \ {x})
  BY DEF EndForOpen
<1>2. x \in Requests /\ place[x] = "wire"
  BY WhoIsOnWire
<1>3. ListsInv'
  BY <1>1, <1>2, AbortEnds, EndKeeps
<1>4. QED
  BY <1>3 DEF EndForOpen, RestTypes

LEMMA SendOpenLists ==
    ASSUME ListsInv, RestTypes, SendOpen
    PROVE  ListsInv' /\ RestTypes'
<1> DEFINE o == opening
<1>1. /\ o # None /\ queue = {} /\ queue' = {o}
      /\ place' = [place EXCEPT ![o] = "wire"] /\ opening' = None
      /\ listeners' = Append(listeners, o)
      /\ UNCHANGED <<dfrd, requestCnt, requestQueue, requestQueueSkipOpen, cwdQueue>>
  BY DEF SendOpen, ToEnd
<1>2. /\ Orderly(requestQueue, requestQueueSkipOpen, o, place, dfrd, listeners, requestCnt)
      /\ ListTypes(requestQueue, requestQueueSkipOpen, o, place, dfrd, listeners, requestCnt)
      /\ queue = Placed(place, "wire") \cap Opens /\ cwdQueue = Placed(place, "wire") \cap CwdOnly
      /\ o \in Opens /\ o \in Requests /\ place[o] \in {"new", "waits"}
  BY <1>1 DEF ListsInv, Orderly, OneOpens, Opens
<1>3. dfrd[o] = "pending"
  BY <1>2, OpensArePending
<1>4. place' \in [Requests -> Places] /\ place'[o] = "wire"
      /\ \A r \in Requests \ {o} : place'[r] = place[r]
  BY <1>1, <1>2 DEF ListTypes, Places
<1> HIDE DEF o
<1>5. Placed(place', "wire") = Placed(place, "wire") \cup {o}
  BY <1>2, <1>4 DEF Placed
<1>6. Placed(place', "waits") = Placed(place, "waits") \ {o}
  BY <1>2, <1>4 DEF Placed
<1>7. InLine(requestQueue, {None}, place')
  BY <1>2, <1>6, ConstantsAssumption DEF Orderly, InLine, Placed
<1>8. Counted(requestCnt, None, place')
  <2>1. /\ Cardinality(Placed(place, "wire")) \in Nat
        /\ Cardinality(Placed(place', "wire")) = Cardinality(Placed(place, "wire")) + 1
    BY <1>2, <1>5, OneMoreOnWire DEF ListTypes
  <2>2. requestCnt = Cardinality(Placed(place, "wire")) + 1
    BY <1>1, <1>2 DEF Orderly, Counted, o
  <2>3. QED
    BY <2>1, <2>2 DEF Counted
<1>9. listeners' \in Seq(Requests) /\ Bound(listeners', place', dfrd)
  <2>1. Bound(listeners, place, dfrd) /\ listeners \in Seq(Requests)
    BY <1>2 DEF Orderly, ListTypes
  <2>2. o \notin Elements(listeners) /\ Distinct(listeners)
    BY <1>2, <2>1 DEF Bound
  <2>3. /\ listeners' \in Seq(Requests) /\ Distinct(listeners')
        /\ Elements(listeners') = Elements(listeners) \cup {o}
    BY <1>1, <1>2, <2>1, <2>2, AddedIsIn DEF o
  <2>4. QED
    BY <1>2, <1>3, <1>4, <2>1, <2>3 DEF Bound
<1>10. Undecided(place', dfrd)
  BY <1>2, <1>3, <1>4 DEF Orderly, Undecided, Opens
<1>11. Orderly(requestQueue, requestQueueSkipOpen, None, place', dfrd, listeners', requestCnt)
  BY <1>2, <1>4, <1>7, <1>8, <1>9, <1>10 DEF Orderly, ListTypes, OneOpens
<1>12. queue' = Placed(place', "wire") \cap Opens
  BY <1>1, <1>2, <1>5 DEF o
<1>13. cwdQueue' = Placed(place', "wire") \cap CwdOnly
  <2>1. o \notin CwdOnly
    BY <1>2 DEF CwdOnly, Opens
  <2>2. QED
    BY <1>1, <1>2, <1>5, <2>1
<1>14. ListsInv'
  BY <1>1, <1>11, <1>12, <1>13 DEF ListsInv
<1>15. QED
  BY <1>14 DEF SendOpen, RestTypes

LEMMA AnswerLists ==
    ASSUME ListsInv, RestTypes, NEW r \in Requests, NEW a \in Answers, Answer(r, a)
    PROVE  ListsInv' /\ RestTypes'
<1>1. /\ place[r] = "wire"
      /\ Released(requestQueue, [place EXCEPT ![r] = "over"], AfterAnswer(r, a),
                  Without(listeners, r))
      /\ queue' = queue \ {r} /\ cwdQueue' = CwdQueueWith(cwdQueue \ {r})
      /\ cwd' \in {target[r], Parent[target[r]], cwd} /\ syncing' \in BOOLEAN
      /\ UNCHANGED <<target, leaving, left, asked>>
  BY DEF Answer, AfterAnswer, Given, DataCwd
<1>2. ListsInv'
  BY <1>1, AnswerEnds, EndKeeps
<1>3. QED
  BY <1>1, <1>2, ConstantsAssumption DEF RestTypes

LEMMA CancelLists ==
    ASSUME ListsInv, RestTypes, NEW r \in Requests, Cancel(r)
    PROVE  ListsInv' /\ RestTypes'
<1>1. /\ r \in Cancelable /\ r \notin Opens /\ dfrd[r] = "pending"
      /\ UNCHANGED <<target, cwd, syncing, leaving, left, asked>>
  BY ConstantsAssumption DEF Cancel
<1>2. RestTypes'
  BY <1>1 DEF RestTypes
<1>3. CASE /\ place[r] = "waits" /\ dfrd' = [dfrd EXCEPT ![r] = "rejected"]
           /\ UNCHANGED <<place, lists, opening, listeners>>
  <2>1. /\ Orderly(requestQueue, requestQueueSkipOpen, opening, place, dfrd, listeners, requestCnt)
        /\ dfrd \in [Requests -> DStates]
    BY DEF ListsInv, Orderly, ListTypes
  <2>2. /\ dfrd' \in [Requests -> DStates] /\ dfrd'[r] = "rejected"
        /\ \A x \in Requests \ {r} : dfrd'[x] = dfrd[x]
    BY <1>3, <2>1 DEF DStates
  <2>3. Bound(listeners, place, dfrd') /\ Undecided(place, dfrd')
    BY <1>1, <1>3, <2>1, <2>2 DEF Orderly, Bound, Undecided
  <2>4. Orderly(requestQueue, requestQueueSkipOpen, opening, place, dfrd', listeners, requestCnt)
    BY <2>1, <2>2, <2>3 DEF Orderly, ListTypes
  <2>5. QED
    BY <1>2, <1>3, <2>4 DEF ListsInv, lists
<1>4. CASE /\ place[r] = "wire"
           /\ Released(ButThoseOf(Cmd[r], requestQueue), Dropping(r),
                       [dfrd EXCEPT ![r] = "rejected"], Without(listeners, r))
           /\ cwdQueue' = CwdQueueWith(cwdQueue \ {r}) /\ UNCHANGED queue
  <2>1. queue' = queue \ {r}
    BY <1>1, <1>4 DEF ListsInv
  <2>2. ListsInv'
    BY <1>1, <1>4, <2>1, CancelEnds, EndKeeps
  <2>3. QED
    BY <1>2, <2>2
<1>5. QED
  BY <1>3, <1>4 DEF Cancel, Dropping

LEMMA CallAbortLists ==
    ASSUME ListsInv, RestTypes, CallAbort
    PROVE  ListsInv' /\ RestTypes'
<1>1. leaving' \in [next : Nat, last : Nat]
  BY DEF CallAbort, RestTypes
<1>2. CASE leaving.next \in DOMAIN listeners
  <2> DEFINE x == listeners[leaving.next]
  <2>1. x \in Requests /\ place[x] = "wire"
    BY <1>2, WhoIsOnWire
  <2>2. /\ Released(requestQueue, [place EXCEPT ![x] = "over"],
                    [dfrd EXCEPT ![x] = "rejected"], Without(listeners, x))
        /\ queue' = queue \ {x}
        /\ cwdQueue' = CwdQueueWith(cwdQueue \ {x})
        /\ syncing' \in BOOLEAN
        /\ UNCHANGED <<target, cwd, left, asked>>
    BY <1>2 DEF CallAbort
  <2> HIDE DEF x
  <2>3. ListsInv'
    BY <2>1, <2>2, AbortEnds, EndKeeps
  <2>4. QED
    BY <1>1, <2>2, <2>3 DEF RestTypes
<1>3. CASE leaving.next \notin DOMAIN listeners
  <2>1. UNCHANGED <<place, dfrd, lists, opening, listeners, syncing, target, cwd, left, asked>>
    BY <1>3 DEF CallAbort
  <2>2. QED
    BY <1>1, <2>1 DEF lists, ListsInv, RestTypes
<1>4. QED
  BY <1>2, <1>3

LEMMA NextLists == ListsInv /\ RestTypes /\ [Next]_vars => ListsInv' /\ RestTypes'
<1> SUFFICES ASSUME ListsInv, RestTypes, [Next]_vars PROVE ListsInv' /\ RestTypes'
  OBVIOUS
<1>1. ASSUME NEW r \in Requests, NEW d \in Dirs, Ask(r, d)
      PROVE  ListsInv' /\ RestTypes'
  <2>1. opening = None /\ Request(r, d) /\ syncing' = syncing
    BY <1>1 DEF Ask, EventLoop
  <2>2. syncing' \in BOOLEAN
    BY <2>1 DEF RestTypes
  <2>3. QED
    BY <2>1, <2>2, AskLists
<1>2. CASE Sync
  <2>1. opening = None /\ syncing' \in BOOLEAN
    BY <1>2 DEF Sync
  <2>2. ASSUME NEW s \in Syncs, Request(s, cwd)
        PROVE  ListsInv' /\ RestTypes'
    <3>1. s \in Requests /\ cwd \in Dirs
      BY DEF Syncs, Opens, RestTypes
    <3>2. QED
      BY <2>1, <2>2, <3>1, AskLists
  <2>3. CASE UNCHANGED <<place, dfrd, target, lists, cwd, opening, listeners, leaving, left, asked>>
    BY <2>1, <2>3 DEF lists, ListsInv, RestTypes
  <2>4. QED
    BY <1>2, <2>2, <2>3 DEF Sync
<1>3. CASE EndForOpen
  BY <1>3, EndForOpenLists
<1>4. CASE SendOpen
  BY <1>4, SendOpenLists
<1>5. ASSUME NEW r \in Requests, NEW a \in Answers, Answer(r, a)
      PROVE  ListsInv' /\ RestTypes'
  BY <1>5, AnswerLists
<1>6. ASSUME NEW r \in Requests, Cancel(r)
      PROVE  ListsInv' /\ RestTypes'
  BY <1>6, CancelLists
<1>7. CASE Leave
  <2>1. Len(listeners) \in Nat
    BY DEF ListsInv, Orderly, ListTypes
  <2>2. QED
    BY <1>7, <2>1 DEF Leave, lists, ListsInv, RestTypes
<1>8. CASE CallAbort
  BY <1>8, CallAbortLists
<1>9. CASE UNCHANGED vars
  BY <1>9 DEF vars, lists, ListsInv, RestTypes
<1>10. QED
  BY <1>1, <1>2, <1>3, <1>4, <1>5, <1>6, <1>7, <1>8, <1>9 DEF Next

LEMMA InitLists == Init => ListsInv /\ RestTypes
<1> SUFFICES ASSUME Init PROVE ListsInv /\ RestTypes
  OBVIOUS
<1>1. Placed(place, "wire") = {} /\ Placed(place, "waits") = {}
  BY DEF Init, Placed
<1>2. Counted(0, None, place)
  BY <1>1, FS_EmptySet DEF Counted
<1>3. Distinct(<<>>) /\ Elements(<<>>) = {}
  BY DEF Distinct, Elements
<1>4. Bound(<<>>, place, dfrd) /\ Undecided(place, dfrd)
  BY <1>3 DEF Init, Bound, Undecided, Opens
<1>5. ListTypes(<<>>, FALSE, None, place, dfrd, <<>>, 0)
  BY ConstantsAssumption DEF Init, ListTypes, Places, DStates
<1>6. Orderly(<<>>, FALSE, None, place, dfrd, <<>>, 0)
  BY <1>1, <1>2, <1>3, <1>4, <1>5 DEF Orderly, InLine, OneOpens
<1>7. ListsInv
  BY <1>1, <1>6 DEF Init, ListsInv
<1>8. RestTypes
  <2>1. <<>> \in Seq(Opens) /\ NotLeaving \in [next : Nat, last : Nat]
    BY DEF NotLeaving
  <2>2. QED
    BY <2>1, ConstantsAssumption DEF Init, RestTypes
<1>9. QED
  BY <1>7, <1>8

-----------------------------------------------------------------------------
\* What the requests are made of keeps its types, for every set of requests.
THEOREM RequestsTypes == Spec => []TypeOK
<1>1. ListsInv /\ RestTypes => TypeOK
  BY DEF ListsInv, RestTypes, Orderly, ListTypes, TypeOK, DStates
<1>2. QED
  BY <1>1, InitLists, NextLists, PTL DEF Spec

\* requestCnt is the number of connections in use, however requests are skipped,
\* aborted, cancelled and answered: none is lost and none is given back twice.
THEOREM ConnectionsCounted == Spec => []CountIsConnections
<1>1. ListsInv => CountIsConnections
  BY DEF ListsInv, Orderly, Counted, CountIsConnections, OnWire, Placed
<1>2. QED
  BY <1>1, InitLists, NextLists, PTL DEF Spec

\* A list that names each once is as long as what it names is large.
LEMMA DistinctLength ==
    ASSUME NEW s \in Seq(Requests), Distinct(s)
    PROVE  Len(s) = Cardinality(Elements(s))
<1>1. Len(s) \in Nat /\ DOMAIN s = 1..Len(s) /\ s \in [1..Len(s) -> Elements(s)]
  BY DEF Elements
<1>2. s \in Bijection(1..Len(s), Elements(s))
  BY <1>1 DEF Distinct, Elements, Bijection, Injection, IsInjective, Surjection
<1>3. ExistsBijection(1..Len(s), Elements(s))
  BY <1>2 DEF ExistsBijection
<1>4. QED
  BY <1>1, <1>3, FS_CountingElements

\* Whoever is on the wire can be reached by those who end requests, and nobody else:
\* the open requests by the next open, those of use to one folder by the next folder,
\* and each that is pending by leaving the page, by exactly one handler.
THEOREM ListsCurrent == Spec => []ListsAreCurrent
<1>1. ListsInv => ListsAreCurrent
  <2> SUFFICES ASSUME ListsInv PROVE ListsAreCurrent
    OBVIOUS
  <2>1. OnWire = Placed(place, "wire")
    BY DEF OnWire, Placed
  <2>2. /\ listeners \in Seq(Requests) /\ Distinct(listeners)
        /\ Elements(listeners) = {r \in Requests : place[r] = "wire" /\ dfrd[r] = "pending"}
    BY DEF ListsInv, Orderly, ListTypes, Bound
  <2>3. Elements(listeners) = {r \in OnWire : dfrd[r] = "pending"}
    BY <2>2 DEF OnWire
  <2>4. Elements(listeners) = OnWire \cap {r \in Requests : dfrd[r] = "pending"}
    BY <2>2 DEF OnWire
  <2>5. Len(listeners) = Cardinality(OnWire \cap {r \in Requests : dfrd[r] = "pending"})
    BY <2>2, <2>4, DistinctLength
  <2>6. {listeners[i] : i \in DOMAIN listeners} = {r \in OnWire : dfrd[r] = "pending"}
    BY <2>3 DEF Elements
  <2>7. QED
    BY <2>1, <2>5, <2>6 DEF ListsInv, ListsAreCurrent
<1>2. QED
  BY <1>1, InitLists, NextLists, PTL DEF Spec

-----------------------------------------------------------------------------
(* Where the open that was asked for last is: at the head of the queue,    *)
(* with no open to be skipped, under way, sent, or over for a good reason. *)

\* The states of an open that has its folder, or another for it.
Arrivals == {"resolved", "elsewhere"}

InQueue ==
    /\ requestQueue # <<>> /\ Head(requestQueue) = LastAsked /\ ~requestQueueSkipOpen
    /\ opening = None /\ place[LastAsked] = "waits"
Going == opening = LastAsked
Sent == place[LastAsked] = "wire" /\ opening = None
Done ==
    /\ place[LastAsked] = "over" /\ opening = None
    /\ \/ dfrd[LastAsked] = "failed"
       \/ /\ dfrd[LastAsked] \in Arrivals
          /\ cwd = DataCwd(LastAsked, dfrd[LastAsked])
       \/ dfrd[LastAsked] = "rejected" /\ left

\* No open that waits can go.
NoneGoes == requestQueueSkipOpen \/ Elements(requestQueue) \cap Opens = {}

\* Once it is sent no other open is on the wire, and none goes.
Last ==
    /\ InQueue \/ Going \/ Sent \/ Done
    /\ LastAsked \in Syncs => target[LastAsked] = cwd
    /\ Sent \/ Done => queue \subseteq {LastAsked} /\ NoneGoes

LastInv ==
    /\ leaving.next <= leaving.last => left
    /\ asked = <<>> => opening = None /\ \A r \in Opens : place[r] = "new"
    /\ asked # <<>> => Last

RInv == ListsInv /\ RestTypes /\ LastInv

LEMMA LastIsOpen == RestTypes /\ asked # <<>> => LastAsked \in Opens /\ LastAsked \in Requests
<1> SUFFICES ASSUME asked \in Seq(Opens), asked # <<>>
             PROVE  asked[Len(asked)] \in Opens /\ Opens \subseteq Requests
  BY DEF RestTypes, LastAsked
<1>1. Len(asked) \in 1..Len(asked)
  OBVIOUS
<1>2. QED
  BY <1>1 DEF Opens

\* Whoever else ends, the open asked for last goes if it is its turn, stays under way,
\* or is left as it is.
LEMMA EndKeepsLast ==
    ASSUME RInv, asked # <<>>, NEW x \in Requests, place[x] = "wire",
           NEW q, NEW pl, NEW df, Ends(x, q, pl, df),
           Released(q, pl, df, Without(listeners, x)),
           queue' = queue \ {x}, cwdQueue' = CwdQueueWith(cwdQueue \ {x}), UNCHANGED asked,
           q # <<>> => Head(requestQueue) = Head(q) \/ Head(requestQueue) \notin Opens,
           requestQueue # <<>> /\ q = <<>> => Head(requestQueue) \notin Opens
    PROVE  /\ place'[LastAsked] = pl[LastAsked] /\ dfrd'[LastAsked] = df[LastAsked]
           /\ InQueue \/ Going => Going'
           /\ InQueue => OpenNext(q) = LastAsked
           /\ Sent \/ Done => OpenNext(q) = None /\ opening' = None /\ NoneGoes'
<1> DEFINE l == LastAsked
<1>1. /\ OpensStand(q, pl, df) /\ SkipStands /\ Elements(requestQueue') \subseteq Elements(q)
      /\ opening' = IF OpenNext(q) # None THEN OpenNext(q) ELSE opening
  BY EndKeeps DEF RInv
<1>2. l \in Opens /\ l \in Requests /\ l # None /\ l' = l
  BY LastIsOpen, ConstantsAssumption DEF RInv, LastAsked
<1>3. /\ Orderly(requestQueue, requestQueueSkipOpen, opening, place, dfrd, listeners, requestCnt)
      /\ Elements(requestQueue) = Placed(place, "waits") \ {opening}
      /\ Elements(q) \subseteq Elements(requestQueue) /\ q \in Seq(Requests) /\ Distinct(q)
  BY DEF RInv, ListsInv, Orderly, InLine, Ends
<1>4. q # <<>> => Head(q) \in Elements(q)
  BY <1>3, ShiftedIsOut
<1>5. Last
  BY DEF RInv, LastInv
<1> HIDE DEF l
<1>6. CASE InQueue
  <2>1. /\ requestQueue # <<>> /\ Head(requestQueue) = l /\ ~requestQueueSkipOpen /\ opening = None
        /\ place[l] = "waits"
    BY <1>6 DEF InQueue, l
  <2>2. q # <<>> /\ Head(q) = l
    BY <1>2, <2>1
  <2>3. OpenNext(q) = l
    BY <1>2, <2>1, <2>2 DEF OpenNext
  <2>4. opening' = l
    BY <1>1, <1>2, <2>3
  <2>5. place'[l] = pl[l] /\ dfrd'[l] = df[l]
    BY <1>1, <1>2, <2>1 DEF OpensStand
  <2>6. ~Sent /\ ~Done /\ ~Going
    BY <1>2, <2>1 DEF Sent, Done, Going, l
  <2>7. QED
    BY <1>2, <2>3, <2>4, <2>5, <2>6 DEF Going, l
<1>7. CASE Going
  <2>1. opening = l
    BY <1>7 DEF Going, l
  <2>2. requestQueueSkipOpen \/ requestQueue = <<>>
    BY <1>2, <1>3, <2>1 DEF Orderly, OneOpens
  <2>3. q = <<>> \/ requestQueueSkipOpen
    BY <2>2 DEF Ends
  <2>4. OpenNext(q) = None
    BY <2>3 DEF OpenNext
  <2>5. opening' = l
    BY <1>1, <2>1, <2>4
  <2>6. l \notin Elements(q)
    BY <1>3, <2>1
  <2>7. place'[l] = pl[l] /\ dfrd'[l] = df[l]
    BY <1>1, <1>2, <2>6 DEF OpensStand
  <2>8. ~Sent /\ ~Done /\ ~InQueue
    BY <1>2, <2>1 DEF Sent, Done, InQueue
  <2>9. QED
    BY <1>2, <2>5, <2>7, <2>8 DEF Going, l
<1>8. CASE Sent \/ Done
  <2>1. opening = None /\ place[l] \in {"wire", "over"} /\ NoneGoes
    BY <1>5, <1>8 DEF Sent, Done, Last, l
  <2>2. OpenNext(q) = None
    BY <1>3, <1>4, <2>1 DEF OpenNext, NoneGoes
  <2>3. opening' = None
    BY <1>1, <2>1, <2>2
  <2>4. l \notin Elements(q)
    BY <1>3, <2>1 DEF Placed
  <2>5. place'[l] = pl[l] /\ dfrd'[l] = df[l]
    BY <1>1, <1>2, <2>4 DEF OpensStand
  <2>6. NoneGoes'
    <3>1. CASE requestQueue' = <<>>
      BY <3>1 DEF NoneGoes, Elements
    <3>2. CASE requestQueue' # <<>>
      <4>1. requestQueueSkipOpen' = requestQueueSkipOpen
        BY <1>1, <2>3, <3>2 DEF SkipStands
      <4>2. QED
        BY <1>1, <1>3, <2>1, <4>1 DEF NoneGoes
    <3>3. QED
      BY <3>1, <3>2
  <2>7. ~InQueue /\ ~Going
    BY <1>2, <2>1 DEF InQueue, Going, l
  <2>8. QED
    BY <1>2, <2>2, <2>3, <2>5, <2>6, <2>7 DEF l
<1>9. QED
  BY <1>5, <1>6, <1>7, <1>8 DEF Last

\* Before any open is asked for, whoever ends brings none up.
LEMMA EndKeepsNone ==
    ASSUME RInv, asked = <<>>, NEW x \in Requests, place[x] = "wire",
           NEW q, NEW pl, NEW df, Ends(x, q, pl, df),
           Released(q, pl, df, Without(listeners, x)),
           queue' = queue \ {x}, cwdQueue' = CwdQueueWith(cwdQueue \ {x})
    PROVE  opening' = None /\ x \notin Opens
           /\ \A r \in Opens : place'[r] = "new" /\ dfrd'[r] = dfrd[r]
<1>1. /\ OpensStand(q, pl, df)
      /\ opening' = IF OpenNext(q) # None THEN OpenNext(q) ELSE opening
  BY EndKeeps DEF RInv
<1>2. opening = None /\ \A r \in Opens : place[r] = "new"
  BY DEF RInv, LastInv
<1>3. /\ Elements(requestQueue) = Placed(place, "waits") \ {opening}
      /\ Elements(q) \subseteq Elements(requestQueue) /\ q \in Seq(Requests) /\ Distinct(q)
  BY DEF RInv, ListsInv, Orderly, InLine, Ends
<1>4. q # <<>> => Head(q) \in Elements(q)
  BY <1>3, ShiftedIsOut
<1>5. \A r \in Opens : r \notin Elements(requestQueue)
  BY <1>2, <1>3 DEF Placed
<1>6. OpenNext(q) = None
  BY <1>3, <1>4, <1>5 DEF OpenNext
<1>7. x \notin Opens
  BY <1>2
<1>8. \A r \in Opens : r \in Requests \ {x} /\ pl[r] = "new" /\ df[r] = dfrd[r]
  BY <1>2, <1>5, <1>7 DEF Ends, Opens
<1>9. QED
  BY <1>1, <1>2, <1>3, <1>5, <1>6, <1>7, <1>8 DEF OpensStand

-----------------------------------------------------------------------------
(* Every step leaves the open asked for last in one of these places, and   *)
(* is a step of what the user may rely on (LastOpenWins), or none.         *)

\* The wish that is open, as the refinement has it.
Wish == IF asked # <<>> /\ dfrd[LastAsked] = "pending" THEN target[LastAsked] ELSE None

WishStep ==
    \/ UNCHANGED <<cwd, Wish>>
    \/ cwd' = cwd /\ Wish' \in Dirs
    \/ Wish # None /\ Wish' = None /\ cwd' \in {Wish, Parent[Wish], cwd}

\* Asking for an open is the new wish; nothing else that is asked for is one.
LEMMA AskLast ==
    ASSUME RInv, opening = None, NEW r \in Requests, NEW d \in Dirs, Request(r, d),
           r \in Navigations \/ d = cwd
    PROVE  LastInv' /\ WishStep
<1>1. /\ ListsInv /\ RestTypes /\ LastInv /\ target \in [Requests -> Dirs]
  BY DEF RInv, RestTypes
<1>2. /\ place[r] = "new" /\ UNCHANGED <<queue, cwd, leaving, left>>
      /\ target' = [target EXCEPT ![r] = d]
      /\ asked' = IF r \in Opens THEN Append(asked, r) ELSE asked
  BY DEF Request
<1>3. IF r \in Opens THEN AskedOpen(r) ELSE AskedOther(r)
  BY <1>1, RequestKeeps
<1>4. leaving'.next <= leaving'.last => left'
  BY <1>1, <1>2 DEF LastInv
<1>5. CASE r \in Opens
  <2>1. /\ asked' # <<>> /\ LastAsked' = r /\ target'[r] = d
    BY <1>1, <1>2, <1>5 DEF RestTypes, LastAsked
  <2>2. r # None /\ dfrd[r] = "pending"
    BY <1>1, <1>2, <1>5, OpensArePending, ConstantsAssumption
  <2>3. dfrd' = dfrd /\ (InQueue' \/ Going') /\ ~Sent' /\ ~Done'
    <3>1. CASE opening' = r /\ requestQueueSkipOpen' = TRUE /\ UNCHANGED <<requestQueue, place, dfrd>>
      BY <2>1, <2>2, <3>1 DEF Going, Sent, Done
    <3>2. CASE /\ place' = [place EXCEPT ![r] = "waits"]
               /\ requestQueue' = <<r>> \o requestQueue /\ requestQueueSkipOpen' = FALSE
               /\ UNCHANGED <<opening, dfrd>>
      <4>1. place'[r] = "waits"
        BY <1>1, <3>2 DEF ListsInv, Orderly, ListTypes
      <4>2. r \notin Elements(requestQueue) /\ Distinct(requestQueue) /\ requestQueue \in Seq(Requests)
        BY <1>1, <1>2 DEF ListsInv, Orderly, InLine, Placed, ListTypes
      <4>3. requestQueue' # <<>> /\ Head(requestQueue') = r
        BY <3>2, <4>2, AddedIsIn
      <4>4. QED
        BY <2>1, <3>2, <4>1, <4>3 DEF InQueue, Sent, Done
    <3>3. QED
      BY <1>3, <1>5, <3>1, <3>2 DEF AskedOpen
  <2>4. LastAsked' \in Syncs' => target'[LastAsked'] = cwd'
    BY <1>2, <2>1 DEF Syncs
  <2>5. LastInv'
    BY <1>4, <2>1, <2>3, <2>4 DEF LastInv, Last
  <2>6. Wish' = d
    BY <2>1, <2>2, <2>3 DEF Wish
  <2>7. QED
    BY <1>2, <2>5, <2>6 DEF WishStep
<1>6. CASE r \notin Opens
  <2>1. /\ asked' = asked /\ AskedOther(r)
    BY <1>2, <1>3, <1>6
  <2>2. CASE asked = <<>>
    <3>1. LastInv'
      BY <1>1, <1>4, <2>1, <2>2 DEF LastInv, AskedOther
    <3>2. UNCHANGED Wish
      BY <2>1, <2>2 DEF Wish
    <3>3. QED
      BY <1>2, <3>1, <3>2 DEF WishStep
  <2>3. CASE asked # <<>>
    <3> DEFINE l == LastAsked
    <3>1. l \in Opens /\ l \in Requests /\ l # r /\ l' = l
      BY <1>1, <1>6, <2>1, <2>3, LastIsOpen DEF LastAsked
    <3>2. place'[l] = place[l] /\ dfrd'[l] = dfrd[l] /\ target'[l] = target[l]
      BY <1>1, <1>2, <2>1, <3>1 DEF AskedOther
    <3>3. /\ (InQueue => InQueue') /\ (Going => Going')
          /\ (Sent' <=> Sent) /\ (Done' <=> Done)
      <4>1. InQueue => InQueue'
        BY <2>1, <3>1, <3>2 DEF AskedOther, InQueue
      <4>2. Going => Going'
        BY <2>1, <3>1 DEF AskedOther, Going
      <4>3. Sent' <=> Sent
        BY <2>1, <3>1, <3>2 DEF AskedOther, Sent
      <4>4. Done' <=> Done
        BY <1>2, <2>1, <3>1, <3>2 DEF AskedOther, Done, DataCwd, Arrivals
      <4>5. QED
        BY <4>1, <4>2, <4>3, <4>4
    <3>4. NoneGoes => NoneGoes'
      BY <1>6, <2>1 DEF AskedOther, NoneGoes
    <3>5. Last
      BY <1>1, <2>3 DEF LastInv
    <3> HIDE DEF l
    <3>6. Last'
      <4>1. InQueue' \/ Going' \/ Sent' \/ Done'
        BY <3>3, <3>5 DEF Last
      <4>2. LastAsked' \in Syncs' => target'[LastAsked'] = cwd'
        BY <1>2, <3>1, <3>2, <3>5 DEF Last, l, Syncs, Opens
      <4>3. Sent' \/ Done' => queue' \subseteq {LastAsked'} /\ NoneGoes'
        BY <1>2, <3>1, <3>3, <3>4, <3>5 DEF Last, l
      <4>4. QED
        BY <4>1, <4>2, <4>3 DEF Last
    <3>7. LastInv'
      BY <1>4, <2>1, <2>3, <3>6 DEF LastInv
    <3>8. UNCHANGED Wish
      BY <2>1, <3>1, <3>2 DEF Wish, l
    <3>9. QED
      BY <1>2, <3>7, <3>8 DEF WishStep
  <2>4. QED
    BY <2>2, <2>3
<1>7. QED
  BY <1>5, <1>6

\* Ending another one for the open that is under way.
LEMMA EndForOpenLast ==
    ASSUME RInv, EndForOpen
    PROVE  LastInv' /\ WishStep
<1>1. ListsInv /\ RestTypes /\ LastInv
  BY DEF RInv
<1>2. PICK x \in ToEnd :
        /\ Released(requestQueue, [place EXCEPT ![x] = "over"],
                    [dfrd EXCEPT ![x] = "rejected"], Without(listeners, x))
        /\ queue' = queue \ {x}
        /\ cwdQueue' = CwdQueueWith(cwdQueue \ {x})
  BY DEF EndForOpen
<1>3. opening # None /\ UNCHANGED <<target, cwd, leaving, left, asked>>
  BY DEF EndForOpen
<1>4. x \in Requests /\ place[x] = "wire"
  BY <1>1, WhoIsOnWire
<1>5. Ends(x, requestQueue, [place EXCEPT ![x] = "over"], [dfrd EXCEPT ![x] = "rejected"])
  BY <1>1, <1>4, AbortEnds
<1>6. asked # <<>> /\ Going
  BY <1>1, <1>3 DEF LastInv, Last, InQueue, Sent, Done
<1>7. LastAsked \in Requests /\ LastAsked \in Opens /\ LastAsked # None /\ UNCHANGED LastAsked
  BY <1>1, <1>3, <1>6, LastIsOpen, ConstantsAssumption DEF LastAsked
<1>8. /\ dfrd'[LastAsked] = [dfrd EXCEPT ![x] = "rejected"][LastAsked] /\ Going'
  BY <1>2, <1>3, <1>4, <1>5, <1>6, EndKeepsLast
<1>9. dfrd'[LastAsked] = dfrd[LastAsked]
  <2>1. x # LastAsked
    BY <1>1, <1>4, <1>6, <1>7 DEF ListsInv, Orderly, OneOpens, Going
  <2>2. dfrd \in [Requests -> DStates]
    BY <1>1 DEF ListsInv, Orderly, ListTypes
  <2>3. QED
    BY <1>7, <1>8, <2>1, <2>2
<1>10. ~Sent' /\ ~Done'
  BY <1>7, <1>8 DEF Going, Sent, Done
<1>11. LastInv'
  BY <1>1, <1>3, <1>6, <1>7, <1>8, <1>10 DEF LastInv, Last, Syncs
<1>12. UNCHANGED Wish
  BY <1>3, <1>7, <1>9 DEF Wish
<1>13. QED
  BY <1>3, <1>11, <1>12 DEF WishStep

\* The open that is under way is sent: no other open is on the wire then.
LEMMA SendOpenLast ==
    ASSUME RInv, SendOpen
    PROVE  LastInv' /\ WishStep
<1>1. ListsInv /\ RestTypes /\ LastInv
  BY DEF RInv
<1>2. /\ opening # None
      /\ place' = [place EXCEPT ![opening] = "wire"]
      /\ queue' = {opening} /\ opening' = None
      /\ UNCHANGED <<dfrd, target, requestQueue, requestQueueSkipOpen, cwd, leaving, left, asked>>
  BY DEF SendOpen
<1>3. asked # <<>> /\ Going
  BY <1>1, <1>2 DEF LastInv, Last, InQueue, Sent, Done
<1>4. LastAsked \in Requests /\ LastAsked \in Opens /\ UNCHANGED LastAsked /\ opening = LastAsked
  BY <1>1, <1>2, <1>3, LastIsOpen DEF LastAsked, Going
<1>5. Sent'
  BY <1>1, <1>2, <1>4 DEF ListsInv, Orderly, ListTypes, Sent
<1>6. NoneGoes'
  <2>1. requestQueueSkipOpen \/ requestQueue = <<>>
    BY <1>1, <1>2 DEF ListsInv, Orderly, OneOpens
  <2>2. QED
    BY <1>2, <2>1 DEF NoneGoes, Elements
<1>7. LastInv'
  BY <1>1, <1>2, <1>3, <1>4, <1>5, <1>6 DEF LastInv, Last, Syncs
<1>8. UNCHANGED Wish
  BY <1>2, <1>4 DEF Wish
<1>9. QED
  BY <1>2, <1>7, <1>8 DEF WishStep

\* An answer that comes too late changes nothing, and one that comes for the open that
\* was asked for last settles the wish.
LEMMA AnswerLast ==
    ASSUME RInv, NEW r \in Requests, NEW a \in Answers, Answer(r, a)
    PROVE  LastInv' /\ WishStep
<1> DEFINE l == LastAsked
           shows == r \in Navigations /\ dfrd[r] = "pending" /\ Given(r, a) \in Arrivals
<1>1. /\ ListsInv /\ RestTypes /\ LastInv
      /\ place \in [Requests -> Places] /\ dfrd \in [Requests -> DStates]
      /\ target \in [Requests -> Dirs] /\ cwd \in Dirs /\ None \notin Dirs
      /\ queue = Placed(place, "wire") \cap Opens
  BY ConstantsAssumption DEF RInv, RestTypes, ListsInv, Orderly, ListTypes
<1>2. /\ opening = None /\ place[r] = "wire"
      /\ Released(requestQueue, [place EXCEPT ![r] = "over"], AfterAnswer(r, a),
                  Without(listeners, r))
      /\ queue' = queue \ {r} /\ cwdQueue' = CwdQueueWith(cwdQueue \ {r})
      /\ cwd' = IF shows THEN DataCwd(r, Given(r, a)) ELSE cwd
      /\ UNCHANGED <<target, leaving, left, asked>>
      /\ a = "elsewhere" => r \in Navigations
  BY DEF Answer, EventLoop, AfterAnswer, Given, Arrivals
<1>3. Ends(r, requestQueue, [place EXCEPT ![r] = "over"], AfterAnswer(r, a))
  BY <1>1, <1>2, AnswerEnds
<1>4. Navigations \subseteq Opens
  BY ConstantsAssumption
<1> HIDE DEF shows
<1>5. CASE asked = <<>>
  <2>1. opening' = None /\ r \notin Opens /\ \A x \in Opens : place'[x] = "new"
    BY <1>2, <1>3, <1>5, EndKeepsNone
  <2>2. cwd' = cwd
    BY <1>2, <1>4, <2>1 DEF shows
  <2>3. LastInv'
    BY <1>1, <1>2, <1>5, <2>1 DEF LastInv
  <2>4. UNCHANGED Wish
    BY <1>2, <1>5 DEF Wish
  <2>5. QED
    BY <2>2, <2>3, <2>4 DEF WishStep
<1>6. CASE asked # <<>>
  <2>1. l \in Requests /\ l \in Opens /\ l # None /\ UNCHANGED l
    BY <1>1, <1>2, <1>6, LastIsOpen, ConstantsAssumption DEF LastAsked
  <2>2. /\ place'[l] = [place EXCEPT ![r] = "over"][l] /\ dfrd'[l] = AfterAnswer(r, a)[l]
        /\ InQueue \/ Going => Going'
        /\ InQueue => OpenNext(requestQueue) = l
        /\ Sent \/ Done => OpenNext(requestQueue) = None /\ opening' = None /\ NoneGoes'
    BY <1>2, <1>3, <1>6, EndKeepsLast
  <2>3. Last
    BY <1>1, <1>6 DEF LastInv
  <2> HIDE DEF l
  <2>4. ~Going
    BY <1>2, <2>1 DEF Going, l
  <2>5. CASE r # l
    <3>1. place'[l] = place[l] /\ dfrd'[l] = dfrd[l]
      BY <1>1, <2>1, <2>2, <2>5 DEF AfterAnswer
    <3>2. ~shows
      <4> SUFFICES ASSUME r \in Navigations, Given(r, a) \in Arrivals PROVE FALSE
        BY DEF shows
      <4>1. r \in queue
        BY <1>1, <1>2, <1>4 DEF Placed
      <4>2. InQueue
        BY <2>3, <2>4, <2>5, <4>1 DEF Last, l
      <4>3. Overtaken(r)
        BY <2>1, <2>2, <4>1, <4>2 DEF Overtaken
      <4>4. QED
        BY <4>3 DEF Given, Arrivals
    <3>3. cwd' = cwd
      BY <1>2, <3>2
    <3>4. Last'
      <4>1. CASE InQueue
        <5>1. Going' /\ ~Sent' /\ ~Done'
          BY <2>1, <2>2, <4>1 DEF Going, Sent, Done, l
        <5>2. QED
          BY <1>2, <2>1, <2>3, <3>3, <5>1 DEF Last, Syncs, l
      <4>2. CASE Sent \/ Done
        <5>1. Sent' \/ Done'
          BY <1>2, <2>1, <2>2, <3>1, <3>3, <4>2 DEF Sent, Done, l, DataCwd, Arrivals
        <5>2. queue' \subseteq {l'} /\ NoneGoes'
          BY <1>2, <2>1, <2>2, <2>3, <4>2 DEF Last, l
        <5>3. QED
          BY <1>2, <2>1, <2>3, <3>3, <5>1, <5>2 DEF Last, Syncs, l
      <4>3. QED
        BY <2>3, <2>4, <4>1, <4>2 DEF Last
    <3>5. LastInv'
      BY <1>1, <1>2, <1>6, <3>4 DEF LastInv
    <3>6. UNCHANGED Wish
      BY <1>2, <2>1, <3>1 DEF Wish, l
    <3>7. QED
      BY <3>3, <3>5, <3>6 DEF WishStep
  <2>6. CASE r = l
    <3>1. Sent /\ dfrd[r] = "pending"
      <4>1. Sent
        BY <1>2, <2>3, <2>4, <2>6 DEF Last, InQueue, Done, l
      <4>2. QED
        BY <1>1, <1>2, <2>1, <2>6, <4>1, OpensArePending
    <3>2. OpenNext(requestQueue) = None /\ opening' = None /\ NoneGoes'
      BY <2>2, <3>1
    <3>3. Given(r, a) = a /\ a \in Arrivals \cup {"failed"} /\ "failed" \notin Arrivals
      BY <3>2 DEF Overtaken, Given, Answers, Arrivals
    <3>4. place'[l] = "over" /\ dfrd'[l] = Given(r, a)
      BY <1>1, <2>1, <2>2, <2>6, <3>1 DEF AfterAnswer
    <3>5. Given(r, a) \in Arrivals => cwd' = DataCwd(l, Given(r, a))
      <4>1. CASE r \in Navigations
        BY <1>2, <2>6, <3>1, <4>1 DEF shows
      <4>2. CASE r \notin Navigations
        <5>1. cwd' = cwd /\ cwd = target[l]
          BY <1>2, <2>1, <2>3, <2>6, <4>2 DEF shows, Last, Syncs, l
        <5>2. Given(r, a) # "elsewhere"
          BY <1>2, <3>3, <4>2
        <5>3. QED
          BY <5>1, <5>2 DEF DataCwd
      <4>3. QED
        BY <4>1, <4>2
    <3>6. Given(r, a) = "failed" => cwd' = cwd
      BY <1>2, <3>3 DEF shows
    <3>15. l \in Syncs => cwd' = cwd
      BY <1>2, <2>6 DEF shows, Syncs
    <3>7. Done'
      <4>1. place'[LastAsked'] = "over" /\ opening' = None /\ dfrd'[LastAsked'] = a
        BY <2>1, <3>2, <3>3, <3>4 DEF l
      <4>2. a \in Arrivals => cwd' = IF a = "elsewhere" THEN Parent[target'[LastAsked']]
                                                       ELSE target'[LastAsked']
        BY <1>2, <2>1, <3>3, <3>5 DEF DataCwd, l
      <4>3. QED
        BY <3>3, <4>1, <4>2 DEF Done, DataCwd
    <3>8. LastAsked' \in Syncs' => target'[LastAsked'] = cwd'
      BY <1>2, <2>1, <2>3, <3>15 DEF Last, Syncs, l
    <3>9. queue' \subseteq {l'}
      BY <1>2, <2>1, <2>3, <3>1 DEF Last, l
    <3>10. LastInv'
      BY <1>1, <1>2, <1>6, <3>2, <3>7, <3>8, <3>9 DEF LastInv, Last, l
    <3>11. Wish = target[l] /\ target[l] # None
      BY <1>1, <1>6, <2>1, <2>6, <3>1 DEF Wish, l
    <3>12. Wish' = None
      BY <1>2, <1>6, <2>1, <3>3, <3>4 DEF Wish, Arrivals, l
    <3>13. cwd' \in {Wish, Parent[Wish], cwd}
      BY <3>3, <3>5, <3>6, <3>11 DEF DataCwd
    <3>14. QED
      BY <3>10, <3>11, <3>12, <3>13 DEF WishStep
  <2>7. QED
    BY <2>5, <2>6
<1>7. QED
  BY <1>5, <1>6

\* Cancelling is for others than opens.
LEMMA CancelLast ==
    ASSUME RInv, NEW r \in Requests, Cancel(r)
    PROVE  LastInv' /\ WishStep
<1> DEFINE l == LastAsked
           kept == ButThoseOf(Cmd[r], requestQueue)
           df == [dfrd EXCEPT ![r] = "rejected"]
<1>1. /\ ListsInv /\ RestTypes /\ LastInv
      /\ place \in [Requests -> Places] /\ dfrd \in [Requests -> DStates]
      /\ requestQueue \in Seq(Requests) /\ Distinct(requestQueue)
      /\ queue \subseteq Opens
  BY DEF RInv, ListsInv, Orderly, ListTypes, InLine
<1>2. /\ r \notin Opens /\ opening = None
      /\ UNCHANGED <<target, cwd, leaving, left, asked>>
  BY ConstantsAssumption DEF Cancel, EventLoop
<1>3. CASE /\ place[r] = "waits" /\ dfrd' = df
           /\ UNCHANGED <<place, lists, opening, listeners>>
  <2>1. CASE asked = <<>>
    BY <1>1, <1>2, <1>3, <2>1 DEF LastInv, Wish, WishStep
  <2>2. CASE asked # <<>>
    <3>1. l \in Requests /\ l \in Opens /\ UNCHANGED l
      BY <1>1, <1>2, <2>2, LastIsOpen DEF LastAsked
    <3>2. dfrd'[l] = dfrd[l]
      BY <1>1, <1>2, <1>3, <3>1
    <3> HIDE DEF l
    <3>3. Last'
      BY <1>1, <1>2, <1>3, <2>2, <3>1, <3>2
         DEF LastInv, Last, InQueue, Going, Sent, Done, NoneGoes, lists, Syncs, l, DataCwd, Arrivals
    <3>4. UNCHANGED Wish
      BY <1>2, <3>1, <3>2 DEF Wish, l
    <3>5. QED
      BY <1>1, <1>2, <2>2, <3>3, <3>4 DEF LastInv, WishStep
  <2>3. QED
    BY <2>1, <2>2
<1>4. CASE /\ place[r] = "wire"
           /\ Released(kept, Dropping(r), df, Without(listeners, r))
           /\ cwdQueue' = CwdQueueWith(cwdQueue \ {r}) /\ UNCHANGED queue
  <2>1. Ends(r, kept, Dropping(r), df)
    BY <1>1, <1>2, <1>4, CancelEnds
  <2>2. queue' = queue \ {r}
    BY <1>1, <1>2, <1>4
  <2>3. requestQueue # <<>> /\ Head(requestQueue) \in Opens =>
          kept # <<>> /\ Head(kept) = Head(requestQueue)
    <3>1. Cmd[r] # "open"
      BY <1>2 DEF Opens
    <3>2. requestQueue # <<>> /\ Head(requestQueue) \in Opens => Cmd[Head(requestQueue)] # Cmd[r]
      BY <3>1 DEF Opens
    <3>3. QED
      BY <1>1, <3>2, GrepKeeps
  <2>4. kept # <<>> => requestQueue # <<>>
    BY <2>1 DEF Ends
  <2>5. CASE asked = <<>>
    <3>1. opening' = None /\ \A x \in Opens : place'[x] = "new"
      BY <1>4, <2>1, <2>2, <2>5, EndKeepsNone
    <3>2. QED
      BY <1>1, <1>2, <2>5, <3>1 DEF LastInv, Wish, WishStep
  <2>6. CASE asked # <<>>
    <3> HIDE DEF kept, df
    <3>1. /\ place'[l] = Dropping(r)[l] /\ dfrd'[l] = df[l]
          /\ InQueue \/ Going => Going'
          /\ Sent \/ Done => opening' = None /\ NoneGoes'
      BY <1>2, <1>4, <2>1, <2>2, <2>3, <2>4, <2>6, EndKeepsLast
    <3>2. l \in Requests /\ l \in Opens /\ UNCHANGED l /\ l # r /\ l # None
      BY <1>1, <1>2, <2>6, LastIsOpen, ConstantsAssumption DEF LastAsked
    <3>3. dfrd'[l] = dfrd[l]
      BY <1>1, <3>1, <3>2 DEF df
    <3>4. Last
      BY <1>1, <2>6 DEF LastInv
    <3>5. Sent \/ Done => place'[l] = place[l]
      <4>1. Sent \/ Done => l \notin Elements(requestQueue)
        BY <1>1 DEF ListsInv, Orderly, InLine, Placed, Sent, Done
      <4>2. Waiting = Elements(requestQueue)
        BY DEF Waiting, Elements
      <4>3. QED
        BY <3>1, <3>2, <4>1, <4>2 DEF Dropping
    <3> HIDE DEF l
    <3>6. Last'
      <4>1. CASE InQueue \/ Going
        <5>1. Going' /\ ~Sent' /\ ~Done'
          BY <3>1, <3>2, <4>1 DEF Going, Sent, Done, l
        <5>2. QED
          BY <1>2, <3>2, <3>4, <5>1 DEF Last, Syncs, l
      <4>2. CASE Sent \/ Done
        <5>1. Sent' \/ Done'
          BY <1>2, <3>1, <3>2, <3>3, <3>5, <4>2 DEF Sent, Done, l, DataCwd, Arrivals
        <5>2. queue' \subseteq {l'} /\ NoneGoes'
          BY <1>4, <3>1, <3>2, <3>4, <4>2 DEF Last, l
        <5>3. QED
          BY <1>2, <3>2, <3>4, <5>1, <5>2 DEF Last, Syncs, l
      <4>3. QED
        BY <3>4, <4>1, <4>2 DEF Last
    <3>7. LastInv'
      BY <1>1, <1>2, <2>6, <3>6 DEF LastInv
    <3>8. UNCHANGED Wish
      BY <1>2, <3>2, <3>3 DEF Wish, l
    <3>9. QED
      BY <1>2, <3>7, <3>8 DEF WishStep
  <2>7. QED
    BY <2>5, <2>6
<1>5. QED
  BY <1>3, <1>4 DEF Cancel, Dropping

\* Leaving the page aborts the open that was asked for last only if it is sent.
LEMMA CallAbortLast ==
    ASSUME RInv, CallAbort
    PROVE  LastInv' /\ WishStep
<1> DEFINE l == LastAsked
<1>1. /\ ListsInv /\ RestTypes /\ LastInv
      /\ place \in [Requests -> Places] /\ dfrd \in [Requests -> DStates]
      /\ leaving \in [next : Nat, last : Nat]
      /\ queue = Placed(place, "wire") \cap Opens
  BY DEF RInv, RestTypes, ListsInv, Orderly, ListTypes
<1>2. /\ left /\ opening = None /\ UNCHANGED <<target, cwd, left, asked>>
      /\ leaving' = [leaving EXCEPT !.next = @ + 1]
  BY <1>1 DEF CallAbort, LastInv
<1>3. CASE leaving.next \in DOMAIN listeners
  <2> DEFINE x == listeners[leaving.next]
             df == [dfrd EXCEPT ![x] = "rejected"]
  <2>1. x \in Requests /\ place[x] = "wire"
    BY <1>1, <1>3, WhoIsOnWire
  <2>2. /\ Released(requestQueue, [place EXCEPT ![x] = "over"], df, Without(listeners, x))
        /\ queue' = queue \ {x}
        /\ cwdQueue' = CwdQueueWith(cwdQueue \ {x})
    BY <1>3 DEF CallAbort
  <2> HIDE DEF x
  <2>3. Ends(x, requestQueue, [place EXCEPT ![x] = "over"], df)
    BY <1>1, <2>1, AbortEnds
  <2> HIDE DEF df
  <2>4. CASE asked = <<>>
    <3>1. opening' = None /\ \A y \in Opens : place'[y] = "new"
      BY <2>1, <2>2, <2>3, <2>4, EndKeepsNone
    <3>2. QED
      BY <1>1, <1>2, <2>4, <3>1 DEF LastInv, Wish, WishStep
  <2>5. CASE asked # <<>>
    <3>1. /\ place'[l] = [place EXCEPT ![x] = "over"][l] /\ dfrd'[l] = df[l]
          /\ InQueue \/ Going => Going'
          /\ Sent \/ Done => opening' = None /\ NoneGoes'
      BY <1>2, <2>1, <2>2, <2>3, <2>5, EndKeepsLast
    <3>2. l \in Requests /\ l \in Opens /\ UNCHANGED l /\ l # None
      BY <1>1, <1>2, <2>5, LastIsOpen, ConstantsAssumption DEF LastAsked
    <3>3. Last
      BY <1>1, <2>5 DEF LastInv
    <3>4. /\ place'[l] = (IF l = x THEN "over" ELSE place[l])
          /\ dfrd'[l] = (IF l = x THEN "rejected" ELSE dfrd[l])
      BY <1>1, <2>1, <3>1, <3>2 DEF df
    <3> HIDE DEF l
    <3>5. Last'
      <4>1. CASE InQueue \/ Going
        <5>1. Going' /\ ~Sent' /\ ~Done'
          BY <3>1, <3>2, <4>1 DEF Going, Sent, Done, l
        <5>2. QED
          BY <1>2, <3>2, <3>3, <5>1 DEF Last, Syncs, l
      <4>2. CASE Sent \/ Done
        <5>1. Sent' \/ Done'
          BY <1>2, <3>1, <3>2, <3>4, <4>2 DEF Sent, Done, l, DataCwd, Arrivals
        <5>2. queue' \subseteq {l'} /\ NoneGoes'
          BY <2>2, <3>1, <3>2, <3>3, <4>2 DEF Last, l
        <5>3. QED
          BY <1>2, <3>2, <3>3, <5>1, <5>2 DEF Last, Syncs, l
      <4>3. QED
        BY <3>3, <4>1, <4>2 DEF Last
    <3>6. LastInv'
      BY <1>1, <1>2, <2>5, <3>5 DEF LastInv
    <3>7. Wish \in Dirs \cup {None} /\ (Wish' = Wish \/ Wish' = None)
      BY <1>1, <1>2, <3>2, <3>4 DEF Wish, RestTypes, l
    <3>8. QED
      BY <1>2, <3>6, <3>7 DEF WishStep
  <2>6. QED
    BY <2>4, <2>5
<1>4. CASE leaving.next \notin DOMAIN listeners
  <2>1. UNCHANGED <<place, dfrd, lists, opening>>
    BY <1>4 DEF CallAbort
  <2>2. LastInv'
    BY <1>1, <1>2, <2>1
       DEF LastInv, Last, InQueue, Going, Sent, Done, NoneGoes, lists, LastAsked, Syncs, DataCwd, Arrivals
  <2>3. UNCHANGED Wish
    BY <1>2, <2>1 DEF Wish, LastAsked
  <2>4. QED
    BY <1>2, <2>2, <2>3 DEF WishStep
<1>5. QED
  BY <1>3, <1>4

\* Steps that are none of the requests'.
NothingMoves ==
    /\ UNCHANGED <<place, dfrd, target, cwd, opening, asked>>
    /\ UNCHANGED <<queue, requestQueue, requestQueueSkipOpen>>

\* Every step keeps the last open asked for on its way, and is a step of a wish.
LEMMA NextLast == RInv /\ [Next]_vars => RInv' /\ WishStep
<1> SUFFICES ASSUME RInv, [Next]_vars PROVE RInv' /\ WishStep
  OBVIOUS
<1>1. ListsInv' /\ RestTypes'
  BY NextLists DEF RInv
<1> SUFFICES LastInv' /\ WishStep
  BY <1>1 DEF RInv
<1>2. ASSUME NothingMoves, leaving'.next <= leaving'.last => left', left => left'
      PROVE  LastInv' /\ WishStep
  <2>1. LastInv
    BY DEF RInv
  <2>2. ASSUME asked # <<>>
        PROVE  Last'
    <3>1. Last
      BY <2>1, <2>2 DEF LastInv
    <3>2. /\ UNCHANGED <<place, dfrd, target, cwd, opening, requestQueue, requestQueueSkipOpen,
                         queue, LastAsked>>
      BY <1>2 DEF NothingMoves, LastAsked
    <3>3. /\ (InQueue' <=> InQueue) /\ (Going' <=> Going) /\ (Sent' <=> Sent) /\ (Done => Done')
      BY <1>2, <3>2 DEF InQueue, Going, Sent, Done, DataCwd, Arrivals
    <3>4. Done' => Done \/ dfrd[LastAsked] = "rejected"
      BY <3>2 DEF Done, DataCwd, Arrivals
    <3>5. NoneGoes' <=> NoneGoes
      BY <3>2 DEF NoneGoes
    <3>6. Sent' \/ Done' => Sent \/ Done
      <4>1. Done' => ~InQueue /\ ~Going
        <5>1. LastAsked # None
          BY <2>2, LastIsOpen, ConstantsAssumption DEF RInv
        <5>2. QED
          BY <3>2, <5>1 DEF Done, InQueue, Going
      <4>2. QED
        BY <3>1, <3>3, <4>1 DEF Last
    <3>7. InQueue' \/ Going' \/ Sent' \/ Done'
      BY <3>1, <3>3 DEF Last
    <3>8. Sent' \/ Done' => queue' \subseteq {LastAsked'} /\ NoneGoes'
      BY <3>1, <3>2, <3>5, <3>6 DEF Last
    <3>9. QED
      BY <3>1, <3>2, <3>7, <3>8 DEF Last, Syncs
  <2>3. LastInv'
    BY <1>2, <2>1, <2>2 DEF LastInv, NothingMoves
  <2>4. UNCHANGED Wish /\ UNCHANGED cwd
    BY <1>2 DEF Wish, LastAsked, NothingMoves
  <2>5. QED
    BY <2>3, <2>4 DEF WishStep
<1>3. ASSUME NothingMoves, UNCHANGED <<leaving, left>>
      PROVE  LastInv' /\ WishStep
  <2>1. leaving.next <= leaving.last => left
    BY DEF RInv, LastInv
  <2>2. leaving'.next <= leaving'.last => left'
    BY <1>3, <2>1
  <2>3. QED
    BY <1>2, <1>3, <2>2
<1>4. ASSUME NEW r \in Requests, NEW d \in Dirs, Ask(r, d)
      PROVE  LastInv' /\ WishStep
  BY <1>4, AskLast DEF Ask, EventLoop
<1>5. CASE Sync
  <2>1. ASSUME NEW s \in Syncs, Request(s, cwd)
        PROVE  LastInv' /\ WishStep
    <3>1. s \in Requests /\ cwd \in Dirs /\ opening = None
      BY <1>5 DEF Sync, Syncs, Opens, RInv, RestTypes
    <3>2. QED
      BY <2>1, <3>1, AskLast
  <2>2. CASE UNCHANGED <<place, dfrd, target, lists, cwd, opening, listeners, leaving, left, asked>>
    <3>1. NothingMoves /\ UNCHANGED <<leaving, left>>
      BY <2>2 DEF NothingMoves, lists
    <3>2. QED
      BY <1>3, <3>1
  <2>3. QED
    BY <1>5, <2>1, <2>2 DEF Sync
<1>6. CASE Leave
  <2>1. NothingMoves /\ left' = TRUE
    BY <1>6 DEF Leave, NothingMoves, lists
  <2>2. QED
    BY <1>2, <2>1
<1>7. CASE UNCHANGED vars
  <2>1. NothingMoves /\ UNCHANGED <<leaving, left>>
    BY <1>7 DEF vars, NothingMoves, lists
  <2>2. QED
    BY <1>3, <2>1
<1>8. CASE EndForOpen
  BY <1>8, EndForOpenLast
<1>9. CASE SendOpen
  BY <1>9, SendOpenLast
<1>10. ASSUME NEW r \in Requests, NEW a \in Answers, Answer(r, a)
       PROVE  LastInv' /\ WishStep
  BY <1>10, AnswerLast
<1>11. ASSUME NEW r \in Requests, Cancel(r)
       PROVE  LastInv' /\ WishStep
  BY <1>11, CancelLast
<1>12. CASE CallAbort
  BY <1>12, CallAbortLast
<1>13. QED
  BY <1>4, <1>5, <1>6, <1>7, <1>8, <1>9, <1>10, <1>11, <1>12 DEF Next

LEMMA InitLast == Init => RInv
<1> SUFFICES ASSUME Init PROVE RInv
  OBVIOUS
<1>1. LastInv
  BY DEF Init, LastInv, NotLeaving, Opens
<1>2. QED
  BY <1>1, InitLists DEF RInv

\* When all is quiet what is shown is the folder that the answer to the open asked
\* for last lists, unless the server refused it or the page was left: no order of answers, of later opens, of
\* cancelled requests or of skipped ones leaves another folder on the screen, or none.
THEOREM LastIsShown == Spec => []LastOpenIsShown
<1>1. RInv => LastOpenIsShown
  <2> SUFFICES ASSUME RInv, AtRest, ~left, asked # <<>>
               PROVE  \/ dfrd[LastAsked] = "failed"
                      \/ /\ dfrd[LastAsked] \in Arrivals
                         /\ cwd = DataCwd(LastAsked, dfrd[LastAsked])
    BY DEF LastOpenIsShown, Arrivals
  <2>1. LastAsked \in Requests /\ LastAsked # None
    BY LastIsOpen, ConstantsAssumption DEF RInv
  <2>2. opening = None /\ place[LastAsked] # "wire" /\ requestQueue = <<>>
    BY <2>1 DEF AtRest, EventLoop, OnWire
  <2>3. Done
    BY <2>1, <2>2 DEF RInv, LastInv, Last, InQueue, Going, Sent
  <2>4. QED
    BY <2>3 DEF Done
<1>2. QED
  BY <1>1, InitLast, NextLast, PTL DEF Spec

\* The folder changes only to the one that was asked for last, or to the one that was in:
\* every step of the requests is a wish, its arrival, its failure, or nothing to the user.
THEOREM FolderIsTheWish == Spec => Promise!Spec
<1>1. Init => Promise!Init
  BY DEF Init, Promise!Init
<1>2. ASSUME WishStep
      PROVE  [Promise!Next]_<<cwd, Wish>>
  BY <1>2 DEF WishStep, Wish, Promise!Next, Promise!Want, Promise!Arrive, Promise!Fail
<1>3. RInv /\ [Next]_vars => [Promise!Next]_<<cwd, Wish>>
  BY <1>2, NextLast
<1>4. QED
  BY <1>1, <1>3, InitLast, NextLast, PTL DEF Spec, Promise!Spec, Wish

-----------------------------------------------------------------------------
(* What a step makes of the opens.                                         *)

\* Who has been asked for.
UnderWay(r) == place[r] # "new" \/ opening = r

\* An open that is over is settled.
OversInv == \A r \in Opens : place[r] = "over" => dfrd[r] # "pending"

\* Only the open that was asked for last resolves, and what is shown changes only then.
OpensSettle ==
    /\ \A r \in Opens : dfrd[r] = "pending" /\ dfrd'[r] \in Arrivals =>
         asked # <<>> /\ r = LastAsked /\ (r \in Navigations => cwd' = DataCwd(r, dfrd'[r]))
    /\ cwd' # cwd => \E r \in Navigations : dfrd[r] = "pending" /\ dfrd'[r] \in Arrivals
    /\ \A r \in Opens : dfrd[r] # "pending" => dfrd'[r] = dfrd[r]
    /\ \A r \in Opens : UnderWay(r) => UnderWay(r)' /\ target'[r] = target[r]
    /\ \/ UNCHANGED asked
       \/ \E r \in Opens : ~UnderWay(r) /\ asked' = Append(asked, r)

\* A request that ends is over and has its state; of the other opens some are skipped.
LEMMA EndSettles ==
    ASSUME ListsInv, NEW x \in Requests, place[x] = "wire",
           NEW q, NEW pl, NEW df, Ends(x, q, pl, df),
           Released(q, pl, df, Without(listeners, x)),
           queue' = queue \ {x}, cwdQueue' = CwdQueueWith(cwdQueue \ {x})
    PROVE  /\ x \in Opens => place'[x] = "over" /\ dfrd'[x] = df[x]
           /\ \A r \in Opens \ {x} : \/ place'[r] = place[r] /\ dfrd'[r] = dfrd[r]
                                     \/ /\ place'[r] = "over" /\ dfrd'[r] = "rejected"
                                        /\ dfrd[r] = "pending"
           /\ opening # None => opening' = opening
<1>1. /\ OpensStand(q, pl, df)
      /\ opening' = IF OpenNext(q) # None THEN OpenNext(q) ELSE opening
  BY EndKeeps
<1>2. /\ Elements(q) \subseteq Elements(requestQueue) /\ x \notin Elements(requestQueue)
      /\ OneOpens(opening, requestQueueSkipOpen, requestQueue, place)
  BY DEF ListsInv, Orderly, InLine, Ends, Placed
<1>3. ASSUME x \in Opens
      PROVE  place'[x] = "over" /\ dfrd'[x] = df[x]
  BY <1>1, <1>2, <1>3 DEF OpensStand, Ends
<1>4. ASSUME NEW r \in Opens \ {x}
      PROVE  \/ place'[r] = place[r] /\ dfrd'[r] = dfrd[r]
             \/ place'[r] = "over" /\ dfrd'[r] = "rejected" /\ dfrd[r] = "pending"
  <2>1. r \in Requests \ {x}
    BY DEF Opens
  <2>2. pl[r] = place[r] /\ df[r] = dfrd[r]
    BY <2>1 DEF Ends
  <2>3. ASSUME r \in Elements(q) PROVE dfrd[r] = "pending"
    <3>1. place[r] = "waits"
      BY <1>2, <2>3 DEF ListsInv, Orderly, InLine, Placed
    <3>2. QED
      BY <3>1, OpensArePending
  <2>4. QED
    BY <1>1, <2>2, <2>3 DEF OpensStand
<1>5. ASSUME opening # None
      PROVE  opening' = opening
  <2>1. requestQueueSkipOpen \/ q = <<>>
    BY <1>2, <1>5 DEF OneOpens, Ends
  <2>2. OpenNext(q) = None
    BY <2>1 DEF OpenNext
  <2>3. QED
    BY <1>1, <2>2
<1>6. QED
  BY <1>3, <1>4, <1>5

\* The same of the steps that end nobody with an answer.
LEMMA AbortSettles ==
    ASSUME RInv, OversInv, NEW x \in Requests, place[x] = "wire",
           NEW q, NEW pl, NEW df, Ends(x, q, pl, df), x \in Opens => df[x] = "rejected",
           Released(q, pl, df, Without(listeners, x)),
           queue' = queue \ {x}, cwdQueue' = CwdQueueWith(cwdQueue \ {x}),
           UNCHANGED <<target, cwd, asked>>
    PROVE  OversInv' /\ OpensSettle
<1>1. /\ x \in Opens => place'[x] = "over" /\ dfrd'[x] = df[x]
      /\ \A r \in Opens \ {x} : \/ place'[r] = place[r] /\ dfrd'[r] = dfrd[r]
                                \/ /\ place'[r] = "over" /\ dfrd'[r] = "rejected"
                                   /\ dfrd[r] = "pending"
      /\ opening # None => opening' = opening
  BY EndSettles DEF RInv
<1>2. ASSUME NEW r \in Opens
      PROVE  \/ place'[r] = place[r] /\ dfrd'[r] = dfrd[r]
             \/ place'[r] = "over" /\ dfrd'[r] = "rejected" /\ dfrd[r] = "pending"
  <2>1. x \in Opens => dfrd[x] = "pending"
    BY OpensArePending DEF RInv
  <2>2. QED
    BY <1>1, <2>1
<1>3. OversInv'
  BY <1>2 DEF OversInv
<1>4. \A r \in Opens : UnderWay(r) => UnderWay(r)'
  BY <1>1, <1>2, ConstantsAssumption DEF UnderWay, Opens
<1>5. QED
  BY <1>2, <1>3, <1>4 DEF OpensSettle, Arrivals

LEMMA AnswerSettles ==
    ASSUME RInv, OversInv, NEW r \in Requests, NEW a \in Answers, Answer(r, a)
    PROVE  OversInv' /\ OpensSettle
<1> DEFINE shows == r \in Navigations /\ dfrd[r] = "pending" /\ Given(r, a) \in Arrivals
<1>1. /\ ListsInv /\ RestTypes /\ LastInv
      /\ dfrd \in [Requests -> DStates] /\ queue = Placed(place, "wire") \cap Opens
      /\ Navigations \subseteq Opens
  BY ConstantsAssumption DEF RInv, ListsInv, Orderly, ListTypes
<1>2. /\ opening = None /\ place[r] = "wire"
      /\ Released(requestQueue, [place EXCEPT ![r] = "over"], AfterAnswer(r, a),
                  Without(listeners, r))
      /\ queue' = queue \ {r} /\ cwdQueue' = CwdQueueWith(cwdQueue \ {r})
      /\ cwd' = IF shows THEN DataCwd(r, Given(r, a)) ELSE cwd
      /\ UNCHANGED <<target, asked>>
  BY DEF Answer, EventLoop, AfterAnswer, Given, Arrivals
<1> HIDE DEF shows
<1>3. Ends(r, requestQueue, [place EXCEPT ![r] = "over"], AfterAnswer(r, a))
  BY <1>1, <1>2, AnswerEnds
<1>4. /\ r \in Opens => place'[r] = "over" /\ dfrd'[r] = AfterAnswer(r, a)[r]
      /\ \A x \in Opens \ {r} : \/ place'[x] = place[x] /\ dfrd'[x] = dfrd[x]
                                \/ /\ place'[x] = "over" /\ dfrd'[x] = "rejected"
                                   /\ dfrd[x] = "pending"
  BY <1>1, <1>2, <1>3, EndSettles
<1>5. r \in Opens => AfterAnswer(r, a)[r] # "pending" /\ dfrd[r] = "pending"
  BY <1>1, <1>2, <1>3, OpensArePending DEF Ends
<1>6. OversInv'
  BY <1>4, <1>5 DEF OversInv
<1>7. \A x \in Opens : UnderWay(x) => UnderWay(x)'
  BY <1>2, <1>4, ConstantsAssumption DEF UnderWay, Opens
<1>8. \A x \in Opens : dfrd[x] # "pending" => dfrd'[x] = dfrd[x]
  BY <1>4, <1>5
<1>9. ASSUME NEW x \in Opens, dfrd[x] = "pending", dfrd'[x] \in Arrivals
      PROVE  asked # <<>> /\ x = LastAsked /\ (x \in Navigations => cwd' = DataCwd(x, dfrd'[x]))
  <2>1. x = r
    BY <1>4, <1>9 DEF Arrivals
  <2>2. Given(r, a) = dfrd'[r] /\ Given(r, a) \in Arrivals /\ Given(r, a) # "rejected"
    BY <1>1, <1>4, <1>5, <1>9, <2>1 DEF AfterAnswer, Opens, Arrivals
  <2>3. ~Overtaken(r) /\ r \in queue
    BY <1>1, <1>2, <1>9, <2>1, <2>2 DEF Given, Placed
  <2>4. asked # <<>>
    BY <1>1, <1>2, <1>9, <2>1 DEF LastInv
  <2>5. LastAsked \in Requests /\ LastAsked # None
    BY <1>1, <2>4, LastIsOpen, ConstantsAssumption
  <2>6. Last /\ ~Going
    BY <1>1, <1>2, <2>4, <2>5 DEF LastInv, Going
  <2>7. ~InQueue
    <3> SUFFICES ASSUME InQueue PROVE FALSE
      OBVIOUS
    <3>1. OpenNext(requestQueue) = LastAsked
      BY <1>2, <1>3, <2>4, EndKeepsLast
    <3>2. QED
      BY <2>3, <2>5, <3>1 DEF Overtaken
  <2>8. r = LastAsked
    BY <2>3, <2>6, <2>7 DEF Last
  <2>9. QED
    BY <1>2, <1>9, <2>1, <2>2, <2>4, <2>8 DEF shows
<1>10. ASSUME cwd' # cwd
       PROVE  \E x \in Navigations : dfrd[x] = "pending" /\ dfrd'[x] \in Arrivals
  <2>1. r \in Navigations /\ dfrd[r] = "pending" /\ Given(r, a) \in Arrivals
    BY <1>2, <1>10 DEF shows
  <2>2. dfrd'[r] = Given(r, a)
    BY <1>1, <1>4, <2>1 DEF AfterAnswer
  <2>3. QED
    BY <2>1, <2>2
<1>11. QED
  BY <1>2, <1>6, <1>7, <1>8, <1>9, <1>10 DEF OpensSettle

LEMMA AskSettles ==
    ASSUME RInv, OversInv, opening = None, NEW r \in Requests, NEW d, Request(r, d)
    PROVE  OversInv' /\ OpensSettle
<1>1. /\ target' = [target EXCEPT ![r] = d] /\ place[r] = "new" /\ UNCHANGED cwd
      /\ asked' = IF r \in Opens THEN Append(asked, r) ELSE asked
      /\ target \in [Requests -> Dirs] /\ place \in [Requests -> Places]
  BY DEF Request, RInv, RestTypes, ListsInv, Orderly, ListTypes
<1>2. IF r \in Opens THEN AskedOpen(r) ELSE AskedOther(r)
  BY RequestKeeps DEF RInv
<1>3. ASSUME NEW x \in Opens
      PROVE  /\ dfrd'[x] = dfrd[x] /\ (place'[x] = place[x] \/ place'[x] = "waits")
             /\ x # r => target'[x] = target[x]
             /\ x # r => place'[x] = place[x]
  <2>1. x \in Requests
    BY DEF Opens
  <2>2. CASE r \in Opens
    BY <1>1, <1>2, <2>1, <2>2 DEF AskedOpen
  <2>3. CASE r \notin Opens
    BY <1>1, <1>2, <2>1, <2>3 DEF AskedOther
  <2>4. QED
    BY <2>2, <2>3
<1>4. OversInv'
  BY <1>3 DEF OversInv
<1>5. r \in Opens => ~UnderWay(r)
  BY <1>1, ConstantsAssumption DEF UnderWay, Opens
<1>6. \A x \in Opens : UnderWay(x) => UnderWay(x)' /\ target'[x] = target[x]
  <2> SUFFICES ASSUME NEW x \in Opens, UnderWay(x) PROVE UnderWay(x)' /\ target'[x] = target[x]
    OBVIOUS
  <2>1. x # r /\ place[x] # "new"
    BY <1>5, ConstantsAssumption DEF UnderWay, Opens
  <2>2. QED
    BY <1>3, <2>1 DEF UnderWay
<1>7. UNCHANGED asked \/ \E x \in Opens : ~UnderWay(x) /\ asked' = Append(asked, x)
  BY <1>1, <1>5
<1>8. QED
  BY <1>1, <1>3, <1>4, <1>6, <1>7 DEF OpensSettle, Arrivals

LEMMA NextSettles ==
    ASSUME RInv, OversInv, Next
    PROVE  OversInv' /\ OpensSettle
<1>1. ListsInv
  BY DEF RInv
<1>2. ASSUME UNCHANGED <<place, target, cwd, opening, asked>>,
             \A x \in Opens : dfrd'[x] = dfrd[x]
      PROVE  OversInv' /\ OpensSettle
  BY <1>2 DEF OversInv, OpensSettle, UnderWay, Arrivals
<1>3. ASSUME NEW r \in Requests, NEW d \in Dirs, Ask(r, d)
      PROVE  OversInv' /\ OpensSettle
  BY <1>3, AskSettles DEF Ask, EventLoop
<1>4. CASE Sync
  <2>1. ASSUME NEW s \in Syncs, Request(s, cwd)
        PROVE  OversInv' /\ OpensSettle
    <3>1. s \in Requests /\ opening = None
      BY <1>4 DEF Sync, Syncs, Opens
    <3>2. QED
      BY <2>1, <3>1, AskSettles
  <2>2. CASE UNCHANGED <<place, dfrd, target, lists, cwd, opening, listeners, leaving, left, asked>>
    BY <1>2, <2>2
  <2>3. QED
    BY <1>4, <2>1, <2>2 DEF Sync
<1>5. CASE EndForOpen
  <2>1. PICK x \in ToEnd :
          /\ Released(requestQueue, [place EXCEPT ![x] = "over"],
                      [dfrd EXCEPT ![x] = "rejected"], Without(listeners, x))
          /\ queue' = queue \ {x}
          /\ cwdQueue' = CwdQueueWith(cwdQueue \ {x})
    BY <1>5 DEF EndForOpen
  <2>2. x \in Requests /\ place[x] = "wire" /\ [dfrd EXCEPT ![x] = "rejected"][x] = "rejected"
    BY <1>1, WhoIsOnWire DEF ListsInv, Orderly, ListTypes
  <2>3. Ends(x, requestQueue, [place EXCEPT ![x] = "over"], [dfrd EXCEPT ![x] = "rejected"])
    BY <1>1, <2>2, AbortEnds
  <2>4. UNCHANGED <<target, cwd, asked>>
    BY <1>5 DEF EndForOpen
  <2>5. QED
    BY <2>1, <2>2, <2>3, <2>4, AbortSettles
<1>6. CASE SendOpen
  <2>1. /\ place' = [place EXCEPT ![opening] = "wire"] /\ UNCHANGED <<dfrd, target, cwd, asked>>
        /\ opening # None /\ place \in [Requests -> Places] /\ opening \in Opens
    BY <1>1, <1>6 DEF SendOpen, ListsInv, Orderly, ListTypes
  <2>2. \A x \in Opens : place'[x] = IF x = opening THEN "wire" ELSE place[x]
    BY <2>1 DEF Opens
  <2>3. QED
    BY <2>1, <2>2 DEF OversInv, OpensSettle, UnderWay, Arrivals
<1>7. ASSUME NEW r \in Requests, NEW a \in Answers, Answer(r, a)
      PROVE  OversInv' /\ OpensSettle
  BY <1>7, AnswerSettles
<1>8. ASSUME NEW r \in Requests, Cancel(r)
      PROVE  OversInv' /\ OpensSettle
  <2>1. r \notin Opens /\ UNCHANGED <<target, cwd, asked>> /\ queue \subseteq Opens
    BY <1>1, <1>8, ConstantsAssumption DEF Cancel, ListsInv
  <2>2. CASE /\ dfrd' = [dfrd EXCEPT ![r] = "rejected"]
             /\ UNCHANGED <<place, lists, opening, listeners>>
    <3>1. \A x \in Opens : dfrd'[x] = dfrd[x]
      BY <1>1, <2>1, <2>2 DEF ListsInv, Orderly, ListTypes, Opens
    <3>2. QED
      BY <1>2, <2>1, <2>2, <3>1
  <2>3. CASE /\ place[r] = "wire"
             /\ Released(ButThoseOf(Cmd[r], requestQueue), Dropping(r),
                         [dfrd EXCEPT ![r] = "rejected"], Without(listeners, r))
             /\ cwdQueue' = CwdQueueWith(cwdQueue \ {r}) /\ UNCHANGED queue
    <3>1. queue' = queue \ {r}
      BY <2>1, <2>3
    <3>2. Ends(r, ButThoseOf(Cmd[r], requestQueue), Dropping(r), [dfrd EXCEPT ![r] = "rejected"])
      BY <1>1, <2>1, <2>3, CancelEnds
    <3>3. QED
      BY <2>1, <2>3, <3>1, <3>2, AbortSettles
  <2>4. QED
    BY <1>8, <2>2, <2>3 DEF Cancel, Dropping
<1>9. CASE Leave
  BY <1>2, <1>9 DEF Leave
<1>10. CASE CallAbort
  <2>1. UNCHANGED <<target, cwd, asked>>
    BY <1>10 DEF CallAbort
  <2>2. CASE leaving.next \in DOMAIN listeners
    <3> DEFINE x == listeners[leaving.next]
    <3>1. /\ Released(requestQueue, [place EXCEPT ![x] = "over"],
                      [dfrd EXCEPT ![x] = "rejected"], Without(listeners, x))
          /\ queue' = queue \ {x}
          /\ cwdQueue' = CwdQueueWith(cwdQueue \ {x})
      BY <1>10, <2>2 DEF CallAbort
    <3>2. x \in Requests /\ place[x] = "wire"
      BY <1>1, <2>2, WhoIsOnWire
    <3> HIDE DEF x
    <3>3. [dfrd EXCEPT ![x] = "rejected"][x] = "rejected"
      BY <1>1, <3>2 DEF ListsInv, Orderly, ListTypes
    <3>4. Ends(x, requestQueue, [place EXCEPT ![x] = "over"], [dfrd EXCEPT ![x] = "rejected"])
      BY <1>1, <3>2, AbortEnds
    <3>5. QED
      BY <2>1, <3>1, <3>2, <3>3, <3>4, AbortSettles
  <2>3. CASE UNCHANGED <<place, dfrd, lists, opening, listeners, syncing>>
    BY <1>2, <2>1, <2>3
  <2>4. QED
    BY <1>10, <2>2, <2>3 DEF CallAbort
<1>11. QED
  BY <1>3, <1>4, <1>5, <1>6, <1>7, <1>8, <1>9, <1>10 DEF Next

=============================================================================
