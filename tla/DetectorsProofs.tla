--------------------------- MODULE DetectorsProofs ---------------------------
(***************************************************************************)
(* Theorems about Detectors, for any sources and ports, windows,           *)
(* thresholds and lengths of the deques: the types, the debounce, and that *)
(* the alerts are exact.                                                   *)
(***************************************************************************)
EXTENDS Detectors, Sums, SequenceTheorems

USE DetectorConstants
-----------------------------------------------------------------------------
(* Ages. *)

LEMMA PastIs ==
  /\ Past \in Nat
  /\ Past > PORT_SCAN_WINDOW /\ Past > BF_WINDOW /\ Past > DEBOUNCE_WINDOW
<1> DEFINE S == {PORT_SCAN_WINDOW, BF_WINDOW, DEBOUNCE_WINDOW}
<1>1. \E x \in S : \A y \in S : x >= y
  <2>1. CASE PORT_SCAN_WINDOW >= BF_WINDOW /\ PORT_SCAN_WINDOW >= DEBOUNCE_WINDOW
    BY <2>1
  <2>2. CASE BF_WINDOW >= PORT_SCAN_WINDOW /\ BF_WINDOW >= DEBOUNCE_WINDOW
    BY <2>2
  <2>3. CASE DEBOUNCE_WINDOW >= PORT_SCAN_WINDOW /\ DEBOUNCE_WINDOW >= BF_WINDOW
    BY <2>3
  <2>4. QED  BY <2>1, <2>2, <2>3
<1>2. Max(S) \in S /\ \A y \in S : Max(S) >= y
  BY <1>1 DEF Max
<1>3. QED  BY <1>2 DEF Past

\* The clock never makes anything younger, and keeps the order.
LEMMA OlderIs ==
  /\ 0 \in Ages /\ Past \in Ages
  /\ \A age \in Ages : /\ age \in Nat /\ Older(age) \in Ages
                       /\ Older(age) >= age /\ Older(age) > 0
                       /\ age # Past => Older(age) = age + 1
                       /\ Older(age) # Past => Older(age) = age + 1
  /\ \A a, b \in Ages : a >= b => Older(a) >= Older(b)
BY PastIs DEF Ages, Older
-----------------------------------------------------------------------------
(* Eviction. *)

\* Oldest first.
OldestFirst(ages) == \A i, j \in DOMAIN ages : i <= j => ages[i] >= ages[j]

\* popleft drops the entries out of the window and no other, if the oldest come
\* first.
LEMMA EvictDrops ==
  ASSUME NEW E, NEW dq \in Seq(E), NEW ages, DOMAIN ages = DOMAIN dq,
         \A i \in DOMAIN dq : ages[i] \in Nat, NEW window \in Nat
  PROVE  LET kept == Evict(dq, ages, window)
         IN  /\ kept \in Seq(E)
             /\ \E m \in 0 .. Len(dq) :
                  /\ Len(kept) = Len(dq) - m
                  /\ \A i \in 1 .. Len(kept) : kept[i] = dq[i + m]
                  /\ \A i \in 1 .. m : ages[i] > window
                  /\ OldestFirst(ages) => \A i \in m + 1 .. Len(dq) : ages[i] <= window
<1> DEFINE in == {i \in DOMAIN dq : ages[i] <= window}
           kept == Evict(dq, ages, window)
<1>1. DOMAIN dq = 1 .. Len(dq) /\ Len(dq) \in Nat
  OBVIOUS
<1>2. CASE in = {}
  <2>1. kept = << >>
    BY <1>2 DEF Evict
  <2>2. \A i \in 1 .. Len(dq) : ages[i] > window
    BY <1>1, <1>2
  <2> DEFINE m == Len(dq)
  <2>3. m \in 0 .. Len(dq) /\ Len(kept) = Len(dq) - m /\ kept \in Seq(E)
    BY <1>1, <2>1
  <2>4. \A i \in 1 .. Len(kept) : kept[i] = dq[i + m]
    BY <1>1, <2>1
  <2>5. \A i \in m + 1 .. Len(dq) : ages[i] <= window
    BY <1>1
  <2>6. \A i \in 1 .. m : ages[i] > window
    BY <2>2
  <2> HIDE DEF kept, m
  <2>7. QED  BY <2>3, <2>4, <2>5, <2>6 DEF kept
<1>3. CASE in # {}
  <2> DEFINE first == Min(in)
  <2>1. first \in in /\ \A n \in in : first <= n
    <3>1. in \in SUBSET Nat
      BY <1>1
    <3> HIDE DEF in
    <3>2. QED  BY <1>3, <3>1, MinOfNaturals
  <2>2. kept = SubSeq(dq, first, Len(dq))
    BY <1>3 DEF Evict
  <2> HIDE DEF first, kept
  <2>3. first \in 1 .. Len(dq) /\ ages[first] <= window
    BY <1>1, <2>1
  <2>4. /\ kept \in Seq(E)
        /\ Len(kept) = Len(dq) - first + 1
        /\ \A i \in 1 .. Len(dq) - first + 1 : kept[i] = dq[first + i - 1]
    BY <1>1, <2>2, <2>3, SubSeqProperties
  <2> DEFINE m == first - 1
  <2>5. m \in 0 .. Len(dq) /\ Len(kept) = Len(dq) - m
    BY <1>1, <2>3, <2>4
  <2>6. \A i \in 1 .. Len(kept) : kept[i] = dq[i + m]
    BY <1>1, <2>3, <2>4
  <2>7. \A i \in 1 .. m : ages[i] > window
    BY <1>1, <2>1, <2>3
  <2>8. OldestFirst(ages) => \A i \in m + 1 .. Len(dq) : ages[i] <= window
    <3> SUFFICES ASSUME OldestFirst(ages), NEW i \in m + 1 .. Len(dq)
                 PROVE  ages[i] <= window
      OBVIOUS
    <3>1. i \in DOMAIN ages /\ first \in DOMAIN ages /\ first <= i
      BY <1>1, <2>3
    <3>2. ages[first] >= ages[i] /\ ages[i] \in Nat /\ ages[first] \in Nat
      BY <3>1 DEF OldestFirst
    <3>3. QED  BY <2>3, <3>2
  <2> HIDE DEF m
  <2>9. QED  BY <2>4, <2>5, <2>6, <2>7, <2>8 DEF kept
<1>4. QED  BY <1>2, <1>3
-----------------------------------------------------------------------------
(* Steps. *)

\* What handle does, for a packet that is an attempt to log in or is not.
Packet(src, port, attempt) ==
  /\ port_scan_observe(src, port)
  /\ Witnessed(src, port, attempt)
  /\ IF attempt
     THEN /\ _hits' = [_hits EXCEPT ![src] = HitsWith(src)]
          /\ bf_alerted' =
               IF TooMany(HitsWith(src)) /\ DueAgain(bf_alerted[src], BF_WINDOW)
               THEN [bf_alerted EXCEPT ![src] = 0]
               ELSE bf_alerted
     ELSE UNCHANGED <<_hits, bf_alerted>>
  /\ UNCHANGED tool_alerted \/ \E tool \in Tools \cup {NoTool} : tool_observe(src, tool)

LEMMA StepIs ==
  ASSUME [Next]_vars
  PROVE  \/ \E src \in Sources, port \in Ports, attempt \in BOOLEAN :
               Packet(src, port, attempt)
         \/ Elapse
         \/ UNCHANGED vars
<1>1. ASSUME NEW src \in Sources, NEW port \in Ports, NEW is_syn \in BOOLEAN,
             NEW tool \in Tools \cup {NoTool}, handle_tcp(src, port, is_syn, tool)
      PROVE  Packet(src, port, IsAttempt(port, is_syn))
  BY <1>1 DEF handle_tcp, brute_observe, Packet
<1>2. ASSUME NEW src \in Sources, NEW port \in Ports, handle_udp(src, port)
      PROVE  Packet(src, port, FALSE)
  BY <1>2 DEF handle_udp, Packet
<1>3. \A port, is_syn : IsAttempt(port, is_syn) \in BOOLEAN
  BY DEF IsAttempt
<1>4. CASE Next
  <2>1. CASE Elapse
    BY <2>1
  <2>2. CASE ~Elapse
    <3>1. PICK src \in Sources, port \in Ports :
            \/ \E is_syn \in BOOLEAN, tool \in Tools \cup {NoTool} :
                 handle_tcp(src, port, is_syn, tool)
            \/ handle_udp(src, port)
      BY <1>4, <2>2 DEF Next
    <3>2. \E attempt \in BOOLEAN : Packet(src, port, attempt)
      BY <1>1, <1>2, <1>3, <3>1
    <3>3. QED  BY <3>2
  <2>3. QED  BY <2>1, <2>2
<1>5. QED  BY <1>4
-----------------------------------------------------------------------------
(* The deques. *)

Sighting == [age : Ages, port : Ports]
SeenAges(dq) == [i \in DOMAIN dq |-> dq[i].age]

\* What the types rest on: packets are in the order of arrival as well.
TypesInv == TypeOK /\ \A src \in Sources : OldestFirst(SeenAges(_seen[src]))

\* What the port scan's deque holds once a packet is in: that packet and what was
\* there and is in the window, nothing else.
LEMMA SeenWithIs ==
  ASSUME TypesInv, NEW src \in Sources, NEW port \in Ports
  PROVE  LET new == SeenWith(src, port)
             entry == [age |-> 0, port |-> port]
         IN  /\ new \in Seq(Sighting)
             /\ OldestFirst(SeenAges(new))
             /\ \A i \in DOMAIN new :
                  /\ new[i].age <= PORT_SCAN_WINDOW
                  /\ new[i] = entry \/ \E j \in DOMAIN _seen[src] : new[i] = _seen[src][j]
             /\ \E i \in DOMAIN new : new[i] = entry
             /\ \A j \in DOMAIN _seen[src] : _seen[src][j].age <= PORT_SCAN_WINDOW =>
                  \E i \in DOMAIN new : new[i] = _seen[src][j]
<1> DEFINE old == _seen[src]
           entry == [age |-> 0, port |-> port]
           dq == Append(old, entry)
           ages == SeenAges(dq)
           new == SeenWith(src, port)
<1>1. old \in Seq(Sighting) /\ OldestFirst(SeenAges(old))
  BY DEF TypesInv, TypeOK, Sighting
<1>2. entry \in Sighting /\ entry.age = 0
  BY OlderIs DEF Sighting
<1>3. new = Evict(dq, ages, PORT_SCAN_WINDOW)
  BY DEF SeenWith, SeenAges
<1>4. \A e \in Sighting : e.age \in Nat /\ e.age >= 0
  BY OlderIs DEF Sighting
<1> HIDE DEF old, entry, new
<1> DEFINE n == Len(old)
<1>5. /\ n \in Nat /\ DOMAIN old = 1 .. n
      /\ dq \in Seq(Sighting) /\ Len(dq) = n + 1 /\ DOMAIN dq = 1 .. n + 1
      /\ dq[n + 1] = entry
      /\ \A i \in 1 .. n : dq[i] = old[i]
  BY <1>1, <1>2
<1>6. /\ DOMAIN ages = 1 .. n + 1
      /\ \A i \in 1 .. n + 1 : ages[i] = dq[i].age /\ ages[i] \in Nat
  BY <1>4, <1>5 DEF SeenAges
<1>7. \A i \in 1 .. n + 1 : dq[i] \in Sighting
  BY <1>5
<1> HIDE DEF dq, ages, n
<1>8. OldestFirst(ages)
  <2> SUFFICES ASSUME NEW i \in 1 .. n + 1, NEW j \in 1 .. n + 1, i <= j
               PROVE  ages[i] >= ages[j]
    BY <1>6 DEF OldestFirst
  <2>1. CASE j = n + 1
    BY <1>2, <1>5, <1>6, <2>1
  <2>2. CASE j # n + 1
    <3>1. i \in 1 .. n /\ j \in 1 .. n
      BY <1>5, <2>2
    <3>2. old[i].age >= old[j].age
      BY <1>1, <1>5, <3>1 DEF OldestFirst, SeenAges
    <3>3. QED  BY <1>5, <1>6, <3>1, <3>2
  <2>3. QED  BY <2>1, <2>2
<1>9. /\ new \in Seq(Sighting)
      /\ \E m \in 0 .. Len(dq) :
           /\ Len(new) = Len(dq) - m
           /\ \A i \in 1 .. Len(new) : new[i] = dq[i + m]
           /\ \A i \in 1 .. m : ages[i] > PORT_SCAN_WINDOW
           /\ \A i \in m + 1 .. Len(dq) : ages[i] <= PORT_SCAN_WINDOW
  BY <1>3, <1>5, <1>6, <1>8, EvictDrops
<1>10. PICK m \in 0 .. n + 1 :
         /\ Len(new) = n + 1 - m
         /\ \A i \in 1 .. Len(new) : new[i] = dq[i + m]
         /\ \A i \in 1 .. m : ages[i] > PORT_SCAN_WINDOW
         /\ \A i \in m + 1 .. n + 1 : ages[i] <= PORT_SCAN_WINDOW
  <2>1. PICK m \in 0 .. Len(dq) :
         /\ Len(new) = Len(dq) - m
         /\ \A i \in 1 .. Len(new) : new[i] = dq[i + m]
         /\ \A i \in 1 .. m : ages[i] > PORT_SCAN_WINDOW
         /\ \A i \in m + 1 .. Len(dq) : ages[i] <= PORT_SCAN_WINDOW
    BY <1>9
  <2>2. Len(dq) = n + 1 /\ n \in Nat
    BY <1>5
  <2>3. Len(new) = Len(dq) - m
    BY <2>1
  <2>4. m \in 0 .. n + 1 /\ Len(new) = n + 1 - m
    BY <2>2, <2>3
  <2>5. \A i \in m + 1 .. n + 1 : ages[i] <= PORT_SCAN_WINDOW
    BY <2>1, <2>2
  <2>6. QED  BY <2>1, <2>4, <2>5
<1>11. DOMAIN new = 1 .. n + 1 - m
  BY <1>9, <1>10
<1>12. \A i \in DOMAIN new : /\ i + m \in m + 1 .. n + 1 /\ i + m \in 1 .. n + 1
                             /\ new[i] = dq[i + m]
                             /\ new[i].age = ages[i + m]
  BY <1>5, <1>6, <1>10, <1>11
<1>13. OldestFirst(SeenAges(new))
  <2> SUFFICES ASSUME NEW i \in DOMAIN new, NEW j \in DOMAIN new, i <= j
               PROVE  new[i].age >= new[j].age
    BY DEF OldestFirst, SeenAges
  <2>1. i + m <= j + m
    BY <1>5, <1>11
  <2>2. QED  BY <1>6, <1>8, <1>12, <2>1 DEF OldestFirst
<1>14. ASSUME NEW i \in DOMAIN new
       PROVE  /\ new[i].age <= PORT_SCAN_WINDOW
              /\ new[i] = entry \/ \E j \in DOMAIN old : new[i] = old[j]
  <2>1. new[i].age <= PORT_SCAN_WINDOW
    BY <1>10, <1>12
  <2>2. CASE i + m = n + 1
    BY <1>5, <1>12, <2>1, <2>2
  <2>3. CASE i + m # n + 1
    <3>1. i + m \in 1 .. n
      BY <1>5, <1>12, <2>3
    <3>2. QED  BY <1>5, <1>12, <2>1, <3>1
  <2>4. QED  BY <2>2, <2>3
<1>15. \A j \in 1 .. n + 1 : ages[j] <= PORT_SCAN_WINDOW =>
         \E i \in DOMAIN new : new[i] = dq[j]
  <2> SUFFICES ASSUME NEW j \in 1 .. n + 1, ages[j] <= PORT_SCAN_WINDOW
               PROVE  \E i \in DOMAIN new : new[i] = dq[j]
    OBVIOUS
  <2>1. j \notin 1 .. m
    BY <1>6, <1>10
  <2>2. j - m \in DOMAIN new /\ j - m + m = j
    BY <1>5, <1>11, <2>1
  <2>3. QED  BY <1>12, <2>2
<1>16. \E i \in DOMAIN new : new[i] = entry
  <2>1. n + 1 \in 1 .. n + 1 /\ ages[n + 1] <= PORT_SCAN_WINDOW
    BY <1>2, <1>5, <1>6
  <2>2. QED  BY <1>5, <1>15, <2>1
<1>17. ASSUME NEW j \in DOMAIN old, old[j].age <= PORT_SCAN_WINDOW
       PROVE  \E i \in DOMAIN new : new[i] = old[j]
  <2>1. j \in 1 .. n /\ j \in 1 .. n + 1 /\ dq[j] = old[j]
    BY <1>5
  <2>2. QED  BY <1>6, <1>15, <1>17, <2>1
<1>18. QED  BY <1>9, <1>13, <1>14, <1>16, <1>17 DEF new, entry, old

\* The entries of an age.
At(dq, age) == {i \in DOMAIN dq : dq[i] = age}

LEMMA AtFinite ==
  ASSUME NEW dq \in Seq(Ages), NEW age
  PROVE  IsFiniteSet(At(dq, age)) /\ Cardinality(At(dq, age)) \in Nat
<1>1. At(dq, age) \in SUBSET (1 .. Len(dq)) /\ Len(dq) \in Nat
  BY DEF At
<1>2. IsFiniteSet(1 .. Len(dq))
  BY <1>1, FS_Interval
<1>3. QED  BY <1>1, <1>2, FS_Subset, FS_CardinalityType

\* What the brute force's deque holds once an attempt is in: one entry of age zero
\* more, and of every other age of the window what was there.
LEMMA HitsWithIs ==
  ASSUME TypesInv, NEW src \in Sources
  PROVE  LET new == HitsWith(src)
         IN  /\ new \in Seq(Ages)
             /\ OldestFirst(new)
             /\ \A i \in DOMAIN new : new[i] <= BF_WINDOW
             /\ Cardinality(At(new, 0)) = Cardinality(At(_hits[src], 0)) + 1
             /\ \A age \in 1 .. BF_WINDOW :
                  Cardinality(At(new, age)) = Cardinality(At(_hits[src], age))
<1> DEFINE old == _hits[src]
           dq == Append(old, 0)
           new == HitsWith(src)
           n == Len(old)
<1>1. old \in Seq(Ages) /\ OldestFirst(old)
  BY DEF TypesInv, TypeOK, OldestFirst
<1>2. new = Evict(dq, dq, BF_WINDOW)
  BY DEF HitsWith
<1>3. 0 \in Ages /\ \A age \in Ages : age \in Nat
  BY OlderIs
<1> HIDE DEF old, new
<1>4. /\ n \in Nat /\ DOMAIN old = 1 .. n
      /\ dq \in Seq(Ages) /\ Len(dq) = n + 1 /\ DOMAIN dq = 1 .. n + 1
      /\ dq[n + 1] = 0
      /\ \A i \in 1 .. n : dq[i] = old[i]
  BY <1>1, <1>3
<1>5. \A i \in 1 .. n + 1 : dq[i] \in Nat
  BY <1>3, <1>4
<1> HIDE DEF dq, n
<1>6. OldestFirst(dq)
  <2> SUFFICES ASSUME NEW i \in 1 .. n + 1, NEW j \in 1 .. n + 1, i <= j
               PROVE  dq[i] >= dq[j]
    BY <1>4 DEF OldestFirst
  <2>1. CASE j = n + 1
    BY <1>4, <1>5, <2>1
  <2>2. CASE j # n + 1
    <3>1. i \in 1 .. n /\ j \in 1 .. n
      BY <1>4, <2>2
    <3>2. QED  BY <1>1, <1>4, <3>1 DEF OldestFirst
  <2>3. QED  BY <2>1, <2>2
<1>7. /\ new \in Seq(Ages)
      /\ \E m \in 0 .. Len(dq) :
           /\ Len(new) = Len(dq) - m
           /\ \A i \in 1 .. Len(new) : new[i] = dq[i + m]
           /\ \A i \in 1 .. m : dq[i] > BF_WINDOW
           /\ \A i \in m + 1 .. Len(dq) : dq[i] <= BF_WINDOW
  BY <1>2, <1>4, <1>5, <1>6, EvictDrops
<1>8. PICK m \in 0 .. n + 1 :
        /\ Len(new) = n + 1 - m
        /\ \A i \in 1 .. Len(new) : new[i] = dq[i + m]
        /\ \A i \in 1 .. m : dq[i] > BF_WINDOW
        /\ \A i \in m + 1 .. n + 1 : dq[i] <= BF_WINDOW
  BY <1>4, <1>7
<1>9. DOMAIN new = 1 .. n + 1 - m
  BY <1>7, <1>8
<1>10. \A i \in DOMAIN new : /\ i + m \in m + 1 .. n + 1 /\ i + m \in 1 .. n + 1
                             /\ new[i] = dq[i + m]
  BY <1>4, <1>8, <1>9
<1>11. OldestFirst(new)
  <2> SUFFICES ASSUME NEW i \in DOMAIN new, NEW j \in DOMAIN new, i <= j
               PROVE  new[i] >= new[j]
    BY DEF OldestFirst
  <2>1. i + m <= j + m
    BY <1>4, <1>9
  <2>2. QED  BY <1>4, <1>6, <1>10, <2>1 DEF OldestFirst
<1>12. \A i \in DOMAIN new : new[i] <= BF_WINDOW
  BY <1>8, <1>10
<1>13. ASSUME NEW age \in 0 .. BF_WINDOW
       PROVE  Cardinality(At(new, age)) = Cardinality(At(dq, age))
  <2> DEFINE shift == [i \in At(new, age) |-> i + m]
  <2>1. shift \in Bijection(At(new, age), At(dq, age))
    <3>1. \A i \in At(new, age) : i + m \in At(dq, age)
      BY <1>4, <1>10 DEF At
    <3>2. \A i, j \in At(new, age) : i + m = j + m => i = j
      BY <1>9 DEF At
    <3>3. ASSUME NEW k \in At(dq, age)
          PROVE  \E i \in At(new, age) : i + m = k
      <4>1. k \in 1 .. n + 1 /\ dq[k] = age
        BY <1>4 DEF At
      <4>2. k \notin 1 .. m
        BY <1>8, <4>1
      <4>3. k - m \in DOMAIN new /\ k - m + m = k
        BY <1>4, <1>9, <4>1, <4>2
      <4>4. k - m \in At(new, age)
        BY <1>10, <4>1, <4>3 DEF At
      <4>5. QED  BY <4>3, <4>4
    <3>4. shift \in [At(new, age) -> At(dq, age)]
      BY <3>1
    <3>5. shift \in Injection(At(new, age), At(dq, age))
      BY <3>2, <3>4 DEF Injection, IsInjective
    <3>6. shift \in Surjection(At(new, age), At(dq, age))
      BY <3>3, <3>4 DEF Surjection
    <3>7. QED  BY <3>5, <3>6 DEF Bijection
  <2>2. IsFiniteSet(At(new, age))
    BY <1>7, AtFinite
  <2>3. ExistsBijection(At(new, age), At(dq, age))
    BY <2>1 DEF ExistsBijection
  <2>4. QED  BY <2>2, <2>3, FS_Bijection
<1>14. Cardinality(At(dq, 0)) = Cardinality(At(old, 0)) + 1
  <2>1. At(dq, 0) = At(old, 0) \cup {n + 1}
    BY <1>4 DEF At
  <2>2. IsFiniteSet(At(old, 0))
    BY <1>1, AtFinite
  <2>3. n + 1 \notin At(old, 0)
    BY <1>4 DEF At
  <2>4. QED  BY <2>1, <2>2, <2>3, FS_AddElement
<1>15. \A age \in 1 .. BF_WINDOW : At(dq, age) = At(old, age)
  BY <1>4 DEF At
<1>16. 0 \in 0 .. BF_WINDOW /\ \A age \in 1 .. BF_WINDOW : age \in 0 .. BF_WINDOW
  OBVIOUS
<1>17. QED  BY <1>7, <1>11, <1>12, <1>13, <1>14, <1>15, <1>16 DEF new, old
-----------------------------------------------------------------------------
(* The types, and the debounce. *)

LEMMA PacketTypes ==
  ASSUME TypesInv, NEW src \in Sources, NEW port \in Ports, NEW attempt \in BOOLEAN,
         Packet(src, port, attempt)
  PROVE  TypesInv'
<1>1. /\ SeenWith(src, port) \in Seq(Sighting)
      /\ OldestFirst(SeenAges(SeenWith(src, port)))
  BY SeenWithIs
<1>2. HitsWith(src) \in Seq(Ages) /\ OldestFirst(HitsWith(src))
  BY HitsWithIs
<1> DEFINE seen == SeenWith(src, port)
           hits == HitsWith(src)
<1>3. /\ _seen' = [_seen EXCEPT ![src] = seen]
      /\ _hits' = [_hits EXCEPT ![src] = hits] \/ _hits' = _hits
      /\ scan_alerted' = [scan_alerted EXCEPT ![src] = 0] \/ scan_alerted' = scan_alerted
      /\ bf_alerted' = [bf_alerted EXCEPT ![src] = 0] \/ bf_alerted' = bf_alerted
      /\ \/ tool_alerted' = tool_alerted
         \/ \E tool \in Tools : tool_alerted' = [tool_alerted EXCEPT ![src][tool] = 0]
      /\ sighted' = [sighted EXCEPT ![src][port] = 0]
      /\ attempts' = [attempts EXCEPT ![src][0] = @ + 1] \/ attempts' = attempts
  BY DEF Packet, port_scan_observe, tool_observe, Witnessed
<1> HIDE DEF seen, hits
<1>4. /\ _seen \in [Sources -> Seq(Sighting)]
      /\ _hits \in [Sources -> Seq(Ages)]
      /\ \A other \in Sources : /\ OldestFirst(SeenAges(_seen[other]))
                                 /\ OldestFirst(_hits[other])
  BY DEF TypesInv, TypeOK, Sighting, OldestFirst
<1>5. /\ _seen' \in [Sources -> Seq(Sighting)]
      /\ \A other \in Sources : OldestFirst(SeenAges(_seen'[other]))
  BY <1>1, <1>3, <1>4 DEF seen
<1>6. /\ _hits' \in [Sources -> Seq(Ages)]
      /\ \A other \in Sources : OldestFirst(_hits'[other])
  BY <1>2, <1>3, <1>4 DEF hits
<1> DEFINE Known == /\ scan_alerted \in [Sources -> Ages] /\ bf_alerted \in [Sources -> Ages]
                    /\ tool_alerted \in [Sources -> [Tools -> Ages]]
                    /\ sighted \in [Sources -> [Ports -> Ages]]
                    /\ attempts \in [Sources -> [Ages -> Nat]]
                    /\ 0 \in Ages
<1>61. Known
  BY OlderIs DEF TypesInv, TypeOK
<1>7. scan_alerted' \in [Sources -> Ages] /\ bf_alerted' \in [Sources -> Ages]
  <2>1. \A f \in [Sources -> Ages] : [f EXCEPT ![src] = 0] \in [Sources -> Ages]
    BY <1>61
  <2>2. scan_alerted' = [scan_alerted EXCEPT ![src] = 0] \/ scan_alerted' = scan_alerted
    BY <1>3
  <2>3. bf_alerted' = [bf_alerted EXCEPT ![src] = 0] \/ bf_alerted' = bf_alerted
    BY <1>3
  <2>4. scan_alerted \in [Sources -> Ages] /\ bf_alerted \in [Sources -> Ages]
    BY <1>61
  <2> HIDE DEF Known
  <2>5. QED  BY <2>1, <2>2, <2>3, <2>4
<1>8. tool_alerted' \in [Sources -> [Tools -> Ages]]
  <2>1. CASE tool_alerted' = tool_alerted
    BY <1>61, <2>1
  <2>2. ASSUME NEW tool \in Tools, tool_alerted' = [tool_alerted EXCEPT ![src][tool] = 0]
        PROVE  tool_alerted' \in [Sources -> [Tools -> Ages]]
    BY <1>61, <2>2
  <2>3. QED  BY <1>3, <2>1, <2>2
<1>9. sighted' \in [Sources -> [Ports -> Ages]]
  BY <1>3, <1>61
<1>10. attempts' \in [Sources -> [Ages -> Nat]]
  <2>1. CASE attempts' = attempts
    BY <1>61, <2>1
  <2>2. CASE attempts' = [attempts EXCEPT ![src][0] = @ + 1]
    <3>1. attempts[src] \in [Ages -> Nat] /\ attempts[src][0] + 1 \in Nat
      BY <1>61
    <3>2. QED  BY <1>61, <2>2, <3>1
  <2>3. QED  BY <1>3, <2>1, <2>2
<1>11. QED  BY <1>5, <1>6, <1>7, <1>8, <1>9, <1>10
            DEF TypesInv, TypeOK, Sighting, OldestFirst

LEMMA ElapseTypes ==
  ASSUME TypesInv, Elapse
  PROVE  TypesInv'
<1>1. ASSUME NEW src \in Sources
      PROVE  /\ _seen'[src] \in Seq(Sighting)
             /\ OldestFirst(SeenAges(_seen'[src]))
  <2> DEFINE old == _seen[src]
             new == _seen'[src]
  <2>1. old \in Seq(Sighting) /\ OldestFirst(SeenAges(old))
    BY DEF TypesInv, TypeOK, Sighting
  <2>2. new = [i \in DOMAIN old |-> [old[i] EXCEPT !.age = Older(@)]]
    BY DEF Elapse
  <2> HIDE DEF old, new
  <2>3. \A i \in DOMAIN old : old[i] \in Sighting
    BY <2>1
  <2>4. \A e \in Sighting : /\ e.age \in Ages
                            /\ [e EXCEPT !.age = Older(@)] \in Sighting
                            /\ [e EXCEPT !.age = Older(@)].age = Older(e.age)
    BY OlderIs DEF Sighting
  <2>5. /\ DOMAIN new = DOMAIN old
        /\ \A i \in DOMAIN old : new[i] \in Sighting /\ new[i].age = Older(old[i].age)
    <3>1. DOMAIN new = DOMAIN old /\ \A i \in DOMAIN old :
            new[i] = [old[i] EXCEPT !.age = Older(@)]
      BY <2>2
    <3>2. QED  BY <2>3, <2>4, <3>1
  <2>6. new \in Seq(Sighting)
    <3>1. Len(old) \in Nat /\ DOMAIN old = 1 .. Len(old)
      BY <2>1
    <3>2. new \in [1 .. Len(old) -> Sighting]
      BY <2>2, <2>5, <3>1
    <3>3. QED  BY <3>1, <3>2
  <2>7. OldestFirst(SeenAges(new))
    <3> SUFFICES ASSUME NEW i \in DOMAIN old, NEW j \in DOMAIN old, i <= j
                 PROVE  Older(old[i].age) >= Older(old[j].age)
      BY <2>5 DEF OldestFirst, SeenAges
    <3>1. old[i].age >= old[j].age
      BY <2>1 DEF OldestFirst, SeenAges
    <3>2. old[i].age \in Ages /\ old[j].age \in Ages
      BY <2>3, <2>4
    <3>3. QED  BY <3>1, <3>2, OlderIs
  <2>8. QED  BY <2>6, <2>7 DEF new
<1>2. ASSUME NEW src \in Sources
      PROVE  /\ _hits'[src] \in Seq(Ages)
             /\ OldestFirst(_hits'[src])
  <2> DEFINE old == _hits[src]
             new == _hits'[src]
  <2>1. old \in Seq(Ages) /\ OldestFirst(old)
    BY DEF TypesInv, TypeOK, OldestFirst
  <2>2. new = [i \in DOMAIN old |-> Older(old[i])]
    BY DEF Elapse
  <2> HIDE DEF old, new
  <2>3. \A i \in DOMAIN old : old[i] \in Ages
    BY <2>1
  <2>4. DOMAIN new = DOMAIN old /\ \A i \in DOMAIN old : new[i] = Older(old[i])
    BY <2>2
  <2>5. \A i \in DOMAIN old : new[i] \in Ages
    BY <2>3, <2>4, OlderIs
  <2>6. new \in Seq(Ages)
    BY <2>1, <2>2, <2>5
  <2>7. OldestFirst(new)
    BY <2>1, <2>3, <2>4, OlderIs DEF OldestFirst
  <2>8. QED  BY <2>6, <2>7 DEF new
<1>3. /\ _seen' \in [Sources -> Seq(Sighting)]
      /\ _hits' \in [Sources -> Seq(Ages)]
  <2>1. _seen' = [src \in Sources |-> _seen'[src]] /\ _hits' = [src \in Sources |-> _hits'[src]]
    BY DEF Elapse
  <2>2. QED  BY <1>1, <1>2, <2>1
<1>4. scan_alerted' \in [Sources -> Ages] /\ bf_alerted' \in [Sources -> Ages]
  BY OlderIs DEF TypesInv, TypeOK, Elapse
<1>5. tool_alerted' \in [Sources -> [Tools -> Ages]]
  BY OlderIs DEF TypesInv, TypeOK, Elapse
<1>6. sighted' \in [Sources -> [Ports -> Ages]]
  BY OlderIs DEF TypesInv, TypeOK, Elapse
<1>7. attempts' \in [Sources -> [Ages -> Nat]]
  <2>1. \A age \in Ages : age = 0 \/ age = Past \/ age - 1 \in Ages
    BY PastIs DEF Ages
  <2>2. QED  BY <2>1 DEF TypesInv, TypeOK, Elapse
<1>8. QED  BY <1>1, <1>2, <1>3, <1>4, <1>5, <1>6, <1>7
           DEF TypesInv, TypeOK, Sighting, OldestFirst

LEMMA TypesInvariant == Spec => []TypesInv
<1>1. Init => TypesInv
  <2> SUFFICES ASSUME Init  PROVE TypesInv
    OBVIOUS
  <2>1. TypeOK
    BY OlderIs DEF Init, TypeOK
  <2>2. QED  BY <2>1 DEF Init, TypesInv, OldestFirst, SeenAges
<1>2. TypesInv /\ [Next]_vars => TypesInv'
  <2> SUFFICES ASSUME TypesInv, [Next]_vars  PROVE TypesInv'
    OBVIOUS
  <2>1. CASE UNCHANGED vars
    BY <2>1 DEF vars, TypesInv, TypeOK
  <2>2. QED  BY <2>1, StepIs, PacketTypes, ElapseTypes
<1>3. QED  BY <1>1, <1>2, PTL DEF Spec

\* TypeOK: the deques hold ages and ports, and attempts in the order of arrival.
THEOREM TypeCorrect == Spec => []TypeOK
<1>1. TypesInv => TypeOK
  BY DEF TypesInv
<1>2. QED  BY <1>1, TypesInvariant, PTL

\* Debounced: for any windows, thresholds and traffic, the age of an alert falls only
\* when it is out of its own detector's window.
THEOREM AlertsAreDebounced == Spec => Debounced
<1> DEFINE Due(src) ==
       /\ scan_alerted'[src] < scan_alerted[src] => scan_alerted[src] > PORT_SCAN_WINDOW
       /\ bf_alerted'[src] < bf_alerted[src] => bf_alerted[src] > BF_WINDOW
       /\ \A tool \in Tools :
            tool_alerted'[src][tool] < tool_alerted[src][tool]
              => tool_alerted[src][tool] > DEBOUNCE_WINDOW
<1>1. ASSUME TypesInv, [Next]_vars, NEW src \in Sources
      PROVE  Due(src)
  <2>1. /\ scan_alerted[src] \in Ages /\ bf_alerted[src] \in Ages
        /\ \A tool \in Tools : tool_alerted[src][tool] \in Ages
        /\ \A age \in Ages : age \in Nat
    BY <1>1, OlderIs DEF TypesInv, TypeOK
  <2>2. ASSUME NEW other \in Sources, NEW port \in Ports, NEW attempt \in BOOLEAN,
               Packet(other, port, attempt)
        PROVE  Due(src)
    <3>1. scan_alerted'[src] < scan_alerted[src] => scan_alerted[src] > PORT_SCAN_WINDOW
      <4>1. \/ scan_alerted' = scan_alerted
            \/ /\ scan_alerted' = [scan_alerted EXCEPT ![other] = 0]
               /\ scan_alerted[other] > PORT_SCAN_WINDOW
        BY <2>2 DEF Packet, port_scan_observe, DueAgain
      <4>2. \/ scan_alerted'[src] = scan_alerted[src]
            \/ scan_alerted[src] > PORT_SCAN_WINDOW
        BY <1>1, <4>1 DEF TypesInv, TypeOK
      <4>3. QED  BY <2>1, <4>2
    <3>2. bf_alerted'[src] < bf_alerted[src] => bf_alerted[src] > BF_WINDOW
      <4>1. \/ bf_alerted' = bf_alerted
            \/ /\ bf_alerted' = [bf_alerted EXCEPT ![other] = 0]
               /\ bf_alerted[other] > BF_WINDOW
        BY <2>2 DEF Packet, DueAgain
      <4>2. \/ bf_alerted'[src] = bf_alerted[src]
            \/ bf_alerted[src] > BF_WINDOW
        BY <1>1, <4>1 DEF TypesInv, TypeOK
      <4>3. QED  BY <2>1, <4>2
    <3>3. ASSUME NEW tool \in Tools
          PROVE  tool_alerted'[src][tool] < tool_alerted[src][tool]
                   => tool_alerted[src][tool] > DEBOUNCE_WINDOW
      <4>1. CASE UNCHANGED tool_alerted
        BY <2>1, <4>1
      <4>2. ASSUME NEW t \in Tools \cup {NoTool}, tool_observe(other, t)
            PROVE  tool_alerted'[src][tool] = tool_alerted[src][tool]
                     \/ tool_alerted[src][tool] > DEBOUNCE_WINDOW
        BY <1>1, <4>2 DEF tool_observe, DueAgain, TypesInv, TypeOK
      <4>3. QED  BY <2>1, <2>2, <4>1, <4>2 DEF Packet
    <3>4. QED  BY <3>1, <3>2, <3>3
  <2>3. CASE Elapse
    BY <2>1, <2>3, OlderIs DEF Elapse
  <2>4. CASE UNCHANGED vars
    BY <2>1, <2>4 DEF vars
  <2>5. QED  BY <1>1, <2>2, <2>3, <2>4, StepIs
<1>2. TypesInv /\ [Next]_vars => [\A src \in Sources : Due(src)]_vars
  BY <1>1
<1>3. QED  BY <1>2, TypesInvariant, PTL DEF Spec, Debounced
-----------------------------------------------------------------------------
(* The port scan's alerts. *)

\* Ports last sighted within the window.
Within(at) == {port \in Ports : at[port] <= PORT_SCAN_WINDOW}

\* A deque and what was really sighted: no entry is younger than the last packet to
\* its port, and that packet is there as long as it is in the window.
Mirrors(dq, at) ==
  /\ \A i \in DOMAIN dq : at[dq[i].port] <= dq[i].age
  /\ \A port \in Within(at) : \E i \in DOMAIN dq : dq[i] = [age |-> at[port], port |-> port]

\* ScanAlertsAreExact of one source.
ScanExact(at, alerted) ==
  /\ (\E port \in Ports : at[port] = 0) /\ Cardinality(Within(at)) > PORT_SCAN_THRESHOLD
       => alerted <= PORT_SCAN_WINDOW
  /\ alerted = 0 => Cardinality(Within(at)) > PORT_SCAN_THRESHOLD

ScanInv == \A src \in Sources : /\ Mirrors(_seen[src], sighted[src])
                                /\ ScanExact(sighted[src], scan_alerted[src])

\* The ports in the window are among those of the deque, so they are finitely many;
\* they are the same once the deque is evicted.
LEMMA PortsOfDeque ==
  ASSUME NEW dq \in Seq(Sighting), NEW at \in [Ports -> Ages], Mirrors(dq, at)
  PROVE  /\ IsFiniteSet(Within(at)) /\ Cardinality(Within(at)) \in Nat
         /\ (\A i \in DOMAIN dq : dq[i].age <= PORT_SCAN_WINDOW)
              => distinct_ports(dq) = Cardinality(Within(at))
<1> DEFINE ports == {dq[i].port : i \in DOMAIN dq}
           n == Len(dq)
           port_of == [i \in 1 .. n |-> dq[i].port]
<1>1. /\ DOMAIN dq = 1 .. n /\ n \in Nat
      /\ \A i \in 1 .. n : dq[i] \in Sighting
  OBVIOUS
<1>2. \A e \in Sighting : e.port \in Ports /\ e.age \in Nat
  BY OlderIs DEF Sighting
<1>3. \A port \in Ports : at[port] \in Nat
  BY OlderIs
<1> HIDE DEF n
<1>4. IsFiniteSet(ports)
  <2>1. port_of \in Surjection(1 .. n, ports)
    BY <1>1 DEF Surjection
  <2>2. IsFiniteSet(1 .. n)
    BY <1>1, FS_Interval
  <2> HIDE DEF port_of, ports
  <2>3. QED  BY <2>1, <2>2, FS_Surjection
<1>5. Within(at) \subseteq ports
  BY DEF Mirrors
<1>6. IsFiniteSet(Within(at)) /\ Cardinality(Within(at)) \in Nat
  <2> HIDE DEF ports
  <2>1. QED  BY <1>4, <1>5, FS_Subset, FS_CardinalityType
<1>7. ASSUME \A i \in DOMAIN dq : dq[i].age <= PORT_SCAN_WINDOW
      PROVE  distinct_ports(dq) = Cardinality(Within(at))
  <2>1. ASSUME NEW i \in DOMAIN dq
        PROVE  dq[i].port \in Within(at)
    <3>1. dq[i].port \in Ports /\ dq[i].age \in Nat /\ at[dq[i].port] \in Nat
      BY <1>1, <1>2, <1>3
    <3>2. at[dq[i].port] <= dq[i].age /\ dq[i].age <= PORT_SCAN_WINDOW
      BY <1>7 DEF Mirrors
    <3>3. QED  BY <3>1, <3>2 DEF Within
  <2>2. ports = Within(at)
    BY <1>5, <2>1
  <2>3. QED  BY <2>2 DEF distinct_ports
<1>8. QED  BY <1>6, <1>7

LEMMA PacketScan ==
  ASSUME TypesInv, ScanInv, NEW src \in Sources, NEW port \in Ports,
         NEW attempt \in BOOLEAN, Packet(src, port, attempt)
  PROVE  ScanInv'
<1> DEFINE old == _seen[src]
           new == SeenWith(src, port)
           at == sighted[src]
           now == [at EXCEPT ![port] = 0]
           entry == [age |-> 0, port |-> port]
<1>1. /\ old \in Seq(Sighting) /\ new \in Seq(Sighting)
      /\ at \in [Ports -> Ages] /\ now \in [Ports -> Ages]
      /\ now[port] = 0 /\ \A p \in Ports \ {port} : now[p] = at[p]
      /\ \A p \in Ports : at[p] \in Nat /\ now[p] \in Nat
      /\ scan_alerted[src] \in Nat
  <2>1. /\ old \in Seq(Sighting) /\ at \in [Ports -> Ages] /\ scan_alerted[src] \in Ages
    BY DEF TypesInv, TypeOK, Sighting
  <2>2. new \in Seq(Sighting)
    BY SeenWithIs
  <2>3. 0 \in Ages /\ \A age \in Ages : age \in Nat
    BY OlderIs
  <2> HIDE DEF old, new, at
  <2>4. QED  BY <2>1, <2>2, <2>3
<1>2. /\ \A i \in DOMAIN new :
           /\ new[i].age <= PORT_SCAN_WINDOW
           /\ new[i] = entry \/ \E j \in DOMAIN old : new[i] = old[j]
      /\ \E i \in DOMAIN new : new[i] = entry
      /\ \A j \in DOMAIN old : old[j].age <= PORT_SCAN_WINDOW =>
           \E i \in DOMAIN new : new[i] = old[j]
  BY SeenWithIs
<1>3. Mirrors(old, at) /\ ScanExact(at, scan_alerted[src])
  BY DEF ScanInv
<1>4. /\ _seen' = [_seen EXCEPT ![src] = new]
      /\ sighted' = [sighted EXCEPT ![src] = now]
      /\ scan_alerted' =
           IF distinct_ports(new) > PORT_SCAN_THRESHOLD
              /\ DueAgain(scan_alerted[src], PORT_SCAN_WINDOW)
           THEN [scan_alerted EXCEPT ![src] = 0]
           ELSE scan_alerted
  BY DEF Packet, port_scan_observe, Witnessed
<1>5. \A e \in Sighting : e.port \in Ports /\ e.age \in Nat
  BY OlderIs DEF Sighting
<1>6. \A other \in Sources : /\ other # src => /\ _seen'[other] = _seen[other]
                                              /\ sighted'[other] = sighted[other]
                                              /\ scan_alerted'[other] = scan_alerted[other]
                             /\ _seen'[src] = new /\ sighted'[src] = now
  BY <1>4 DEF TypesInv, TypeOK
<1>7. scan_alerted'[src] =
        IF distinct_ports(new) > PORT_SCAN_THRESHOLD /\ scan_alerted[src] > PORT_SCAN_WINDOW
        THEN 0 ELSE scan_alerted[src]
  BY <1>4 DEF TypesInv, TypeOK, DueAgain
<1> HIDE DEF old, new, at, now
<1>8. Mirrors(new, now)
  <2>1. ASSUME NEW i \in DOMAIN new
        PROVE  now[new[i].port] <= new[i].age
    <3>1. CASE new[i] = entry
      BY <1>1, <3>1
    <3>2. CASE \E j \in DOMAIN old : new[i] = old[j]
      <4>1. PICK j \in DOMAIN old : new[i] = old[j]
        BY <3>2
      <4>2. old[j].port \in Ports /\ old[j].age \in Nat
        BY <1>1, <1>5
      <4>3. at[old[j].port] <= old[j].age
        BY <1>3 DEF Mirrors
      <4>4. now[old[j].port] = 0 \/ now[old[j].port] = at[old[j].port]
        BY <1>1, <4>2
      <4>5. QED  BY <1>1, <4>1, <4>2, <4>3, <4>4
    <3>3. QED  BY <1>2, <3>1, <3>2
  <2>2. ASSUME NEW p \in Within(now)
        PROVE  \E i \in DOMAIN new : new[i] = [age |-> now[p], port |-> p]
    <3>1. CASE p = port
      BY <1>1, <1>2, <3>1
    <3>2. CASE p # port
      <4>1. p \in Within(at) /\ now[p] = at[p] /\ at[p] <= PORT_SCAN_WINDOW
        BY <1>1, <3>2 DEF Within
      <4>2. PICK j \in DOMAIN old : old[j] = [age |-> at[p], port |-> p]
        BY <1>3, <4>1 DEF Mirrors
      <4>3. old[j].age <= PORT_SCAN_WINDOW
        BY <4>1, <4>2
      <4>4. QED  BY <1>2, <4>1, <4>2, <4>3
    <3>3. QED  BY <3>1, <3>2
  <2>3. QED  BY <2>1, <2>2 DEF Mirrors
<1>9. /\ distinct_ports(new) = Cardinality(Within(now))
      /\ IsFiniteSet(Within(now)) /\ Cardinality(Within(now)) \in Nat
      /\ Cardinality(Within(at)) \in Nat
  BY <1>1, <1>2, <1>3, <1>8, PortsOfDeque
<1>10. Cardinality(Within(at)) <= Cardinality(Within(now))
  <2>1. Within(at) \in SUBSET Within(now)
    BY <1>1 DEF Within
  <2>2. QED  BY <1>9, <2>1, FS_Subset
<1>11. ScanExact(now, scan_alerted'[src])
  <2>1. scan_alerted'[src] = 0 => Cardinality(Within(now)) > PORT_SCAN_THRESHOLD
    BY <1>1, <1>3, <1>7, <1>9, <1>10 DEF ScanExact
  <2>2. Cardinality(Within(now)) > PORT_SCAN_THRESHOLD => scan_alerted'[src] <= PORT_SCAN_WINDOW
    BY <1>1, <1>7, <1>9
  <2>3. QED  BY <2>1, <2>2 DEF ScanExact
<1>12. QED  BY <1>6, <1>8, <1>11 DEF ScanInv

LEMMA ElapseScan ==
  ASSUME TypesInv, ScanInv, Elapse
  PROVE  ScanInv'
<1> SUFFICES ASSUME NEW src \in Sources
             PROVE  /\ Mirrors(_seen'[src], sighted'[src])
                    /\ ScanExact(sighted'[src], scan_alerted'[src])
  BY DEF ScanInv
<1> DEFINE old == _seen[src]
           new == _seen'[src]
           at == sighted[src]
           now == sighted'[src]
<1>1. /\ old \in Seq(Sighting) /\ at \in [Ports -> Ages] /\ Mirrors(old, at)
      /\ scan_alerted[src] \in Ages
  BY DEF TypesInv, TypeOK, Sighting, ScanInv
<1>2. /\ new = [i \in DOMAIN old |-> [old[i] EXCEPT !.age = Older(@)]]
      /\ now = [port \in Ports |-> Older(at[port])]
      /\ scan_alerted'[src] = Older(scan_alerted[src])
  BY DEF Elapse
<1>3. \A e \in Sighting : /\ e.port \in Ports /\ e.age \in Ages
                          /\ e = [age |-> e.age, port |-> e.port]
                          /\ [e EXCEPT !.age = Older(@)] =
                               [age |-> Older(e.age), port |-> e.port]
  BY DEF Sighting
<1> HIDE DEF old, new, at, now
<1>4. \A i \in DOMAIN old : old[i] \in Sighting
  BY <1>1
<1>5. DOMAIN new = DOMAIN old /\
      \A i \in DOMAIN old : new[i] = [age |-> Older(old[i].age), port |-> old[i].port]
  BY <1>2, <1>3, <1>4
<1>6. \A p \in Ports : at[p] \in Ages /\ now[p] = Older(at[p])
  BY <1>1, <1>2
<1>7. ASSUME NEW i \in DOMAIN new
      PROVE  now[new[i].port] <= new[i].age
  <2>1. old[i].port \in Ports /\ old[i].age \in Ages /\ at[old[i].port] <= old[i].age
    BY <1>1, <1>3, <1>4, <1>5 DEF Mirrors
  <2>2. new[i].port = old[i].port /\ new[i].age = Older(old[i].age)
    BY <1>5
  <2>3. at[old[i].port] \in Ages /\ now[old[i].port] = Older(at[old[i].port])
    BY <1>6, <2>1
  <2>4. Older(old[i].age) >= Older(at[old[i].port])
    BY <2>1, <2>3, OlderIs
  <2>5. QED  BY <2>1, <2>2, <2>3, <2>4, OlderIs
<1>8. ASSUME NEW p \in Within(now)
      PROVE  \E i \in DOMAIN new : new[i] = [age |-> now[p], port |-> p]
  <2>1. p \in Ports /\ at[p] \in Ages /\ now[p] = Older(at[p]) /\ now[p] <= PORT_SCAN_WINDOW
    BY <1>6 DEF Within
  <2>2. at[p] <= PORT_SCAN_WINDOW
    BY <2>1, OlderIs
  <2>3. p \in Within(at)
    BY <2>1, <2>2 DEF Within
  <2>4. PICK i \in DOMAIN old : old[i] = [age |-> at[p], port |-> p]
    BY <1>1, <2>3 DEF Mirrors
  <2>5. old[i].age = at[p] /\ old[i].port = p
    BY <2>4
  <2>6. QED  BY <1>5, <2>1, <2>5
<1>9. Mirrors(new, now)
  BY <1>7, <1>8 DEF Mirrors
<1>10. scan_alerted'[src] # 0 /\ \A p \in Ports : now[p] # 0
  BY <1>1, <1>2, <1>6, OlderIs
<1>11. ScanExact(now, scan_alerted'[src])
  BY <1>10 DEF ScanExact
<1>12. QED  BY <1>9, <1>11 DEF new, now
-----------------------------------------------------------------------------
(* The brute force's alerts. *)

\* Intervals are finite, and as large as they are long.
LEMMA IntervalSize ==
  ASSUME NEW n \in Nat
  PROVE  /\ IsFiniteSet(1 .. n) /\ Cardinality(1 .. n) = n
         /\ IsFiniteSet(0 .. n)
<1>1. IsFiniteSet(1 .. n) /\ Cardinality(1 .. n) = n
  BY FS_Interval
<1>2. IsFiniteSet(0 .. n)
  BY FS_Interval
<1>3. QED  BY <1>1, <1>2

\* Disjoint parts add up.
LEMMA PartsAddUp ==
  ASSUME NEW S, NEW T, IsFiniteSet(S), IsFiniteSet(T), S \cap T = {}
  PROVE  Cardinality(S \cup T) = Cardinality(S) + Cardinality(T)
<1>1. Cardinality(S \cup T) = Cardinality(S) + Cardinality(T) - Cardinality(S \cap T)
  BY FS_Union
<1>2. Cardinality(S \cap T) = 0
  BY FS_EmptySet
<1>3. Cardinality(S) \in Nat /\ Cardinality(T) \in Nat
  BY FS_CardinalityType
<1>4. QED  BY <1>1, <1>2, <1>3

\* Entries counted by age: as many as the counts of the ages add up to.
LEMMA CountByAge ==
  ASSUME NEW dq \in Seq(Ages), NEW S, IsFiniteSet(S),
         NEW count, \A age \in S : count[age] = Cardinality(At(dq, age))
  PROVE  Cardinality({i \in DOMAIN dq : dq[i] \in S}) = Cardinality(Units(count, S))
<1> DEFINE Entries(s) == {i \in DOMAIN dq : dq[i] \in s}
           Bad == {s \in SUBSET S : Cardinality(Entries(s)) # Cardinality(Units(count, s))}
<1>1. SUFFICES ASSUME Bad # {}  PROVE FALSE
  OBVIOUS
<1>2. IsWellFoundedOn(StrictSubsetOrdering(S), SUBSET S)
  BY FS_StrictSubsetOrderingWellFounded, FS_FiniteSubsetsOfFinite
<1>3. PICK s \in Bad : \A t \in Bad : <<t, s>> \notin StrictSubsetOrdering(S)
  BY <1>1, <1>2, WFMin
<1>4. \A age \in S : count[age] \in Nat
  BY AtFinite
<1>5. s # {}
  <2>1. Entries({}) = {}
    OBVIOUS
  <2>2. QED  BY <2>1, UnitsOfNone, FS_EmptySet
<1>6. PICK age : age \in s
  BY <1>5
<1>7. <<s \ {age}, s>> \in StrictSubsetOrdering(S)
  BY <1>6 DEF StrictSubsetOrdering
<1>8. Cardinality(Entries(s \ {age})) = Cardinality(Units(count, s \ {age}))
  BY <1>3, <1>7
<1>9. /\ IsFiniteSet(Units(count, s \ {age}))
      /\ Cardinality(Units(count, s)) = Cardinality(Units(count, s \ {age})) + count[age]
  <2>1. IsFiniteSet(s \ {age}) /\ \A a \in s \ {age} : count[a] \in Nat
    BY <1>3, <1>4, FS_Subset
  <2>2. IsFiniteSet(Units(count, s \ {age}))
    BY <2>1, UnitsFinite
  <2>3. QED  BY <1>3, <1>4, <1>6, <2>2, UnitsOfMore
<1>10. Cardinality(Entries(s)) = Cardinality(Entries(s \ {age})) + count[age]
  <2>1. Entries(s) = Entries(s \ {age}) \cup At(dq, age)
    BY <1>6 DEF At
  <2>2. Entries(s \ {age}) \cap At(dq, age) = {}
    BY DEF At
  <2>3. IsFiniteSet(Entries(s \ {age})) /\ Cardinality(Entries(s \ {age})) \in Nat
    <3>1. Entries(s \ {age}) \in SUBSET (1 .. Len(dq)) /\ Len(dq) \in Nat
      OBVIOUS
    <3> HIDE DEF Entries
    <3>2. IsFiniteSet(1 .. Len(dq))
      BY <3>1, IntervalSize
    <3>3. IsFiniteSet(Entries(s \ {age}))
      BY <3>1, <3>2, FS_Subset
    <3>4. QED  BY <3>3, FS_CardinalityType
  <2>4. IsFiniteSet(At(dq, age)) /\ Cardinality(At(dq, age)) = count[age]
    BY <1>3, <1>6, AtFinite
  <2> HIDE DEF Entries
  <2>5. Cardinality(Entries(s)) =
          Cardinality(Entries(s \ {age})) + Cardinality(At(dq, age))
    BY <2>1, <2>2, <2>3, <2>4, PartsAddUp
  <2>6. QED  BY <1>3, <1>4, <1>6, <2>3, <2>4, <2>5
<1>11. QED  BY <1>3, <1>8, <1>9, <1>10

\* AttemptsIn, the fold over the ages, as a number of units.
LEMMA AttemptsInIs ==
  ASSUME TypeOK, NEW src \in Sources
  PROVE  AttemptsIn(src, BF_WINDOW) = Cardinality(Units(attempts[src], 0 .. BF_WINDOW))
<1> DEFINE S == 0 .. BF_WINDOW
           count == attempts[src]
           iter == CHOOSE iter : Sums(iter, count, S)
<1>1. IsFiniteSet(S) /\ \A age \in S : count[age] \in Nat
  <2>1. \A age \in S : age \in Ages
    BY PastIs DEF Ages
  <2>2. \A age \in S : count[age] \in Nat
    BY <2>1 DEF TypeOK
  <2>3. QED  BY <2>2, IntervalSize
<1>2. AttemptsIn(src, BF_WINDOW) = iter[S]
  BY DEF AttemptsIn, FoldSet, MapThenFoldSet, Sums
<1>3. Sums(iter, count, S)
  <2> HIDE DEF S, count
  <2>1. QED  BY <1>1, SumsExist
<1> HIDE DEF iter, S, count
<1>4. iter[S] = Cardinality(Units(count, S))
  BY <1>1, <1>3, SumsIsUnits
<1>5. QED  BY <1>2, <1>4 DEF S, count

Attempted(count) == Cardinality(Units(count, 0 .. BF_WINDOW))

\* BruteAlertsAreExact of one source.
BruteExact(count, alerted) ==
  /\ count[0] > 0 /\ Attempted(count) > BF_THRESHOLD => alerted <= BF_WINDOW
  /\ alerted = 0 => Attempted(count) > BF_THRESHOLD

\* Of every age of the window the deque has what really came in.
BruteInv ==
  \A src \in Sources :
    /\ \A age \in 0 .. BF_WINDOW : attempts[src][age] = Cardinality(At(_hits[src], age))
    /\ BruteExact(attempts[src], bf_alerted[src])

LEMMA PacketBrute ==
  ASSUME TypesInv, BruteInv, NEW src \in Sources, NEW port \in Ports,
         Packet(src, port, TRUE)
  PROVE  BruteInv'
<1> DEFINE old == _hits[src]
           new == HitsWith(src)
           was == attempts[src]
           now == [was EXCEPT ![0] = @ + 1]
<1>1. /\ new \in Seq(Ages)
      /\ \A i \in DOMAIN new : new[i] <= BF_WINDOW
      /\ Cardinality(At(new, 0)) = Cardinality(At(old, 0)) + 1
      /\ \A age \in 1 .. BF_WINDOW : Cardinality(At(new, age)) = Cardinality(At(old, age))
  BY HitsWithIs
<1>2. /\ was \in [Ages -> Nat] /\ bf_alerted[src] \in Nat
      /\ 0 .. BF_WINDOW \subseteq Ages /\ 0 \in Ages
      /\ \A age \in Ages : age \in Nat
  BY PastIs, OlderIs DEF TypesInv, TypeOK, Ages
<1>3. /\ \A age \in 0 .. BF_WINDOW : was[age] = Cardinality(At(old, age))
      /\ BruteExact(was, bf_alerted[src])
  BY DEF BruteInv
<1>4. /\ _hits' = [_hits EXCEPT ![src] = new]
      /\ attempts' = [attempts EXCEPT ![src] = now]
      /\ bf_alerted' =
           IF TooMany(new) /\ DueAgain(bf_alerted[src], BF_WINDOW)
           THEN [bf_alerted EXCEPT ![src] = 0]
           ELSE bf_alerted
  BY DEF Packet, Witnessed
<1>5. \A other \in Sources : /\ other # src => /\ _hits'[other] = _hits[other]
                                              /\ attempts'[other] = attempts[other]
                                              /\ bf_alerted'[other] = bf_alerted[other]
                             /\ _hits'[src] = new /\ attempts'[src] = now
  BY <1>4 DEF TypesInv, TypeOK
<1>6. bf_alerted'[src] =
        IF Len(new) > BF_THRESHOLD /\ bf_alerted[src] > BF_WINDOW THEN 0 ELSE bf_alerted[src]
  BY <1>4 DEF TypesInv, TypeOK, DueAgain, TooMany
<1>7. /\ now \in [Ages -> Nat] /\ now[0] = was[0] + 1
      /\ \A age \in Ages \ {0} : now[age] = was[age]
  BY <1>2
<1> HIDE DEF old, new, was, now
<1>8. \A age \in 0 .. BF_WINDOW : now[age] = Cardinality(At(new, age))
  <2> SUFFICES ASSUME NEW age \in 0 .. BF_WINDOW
               PROVE  now[age] = Cardinality(At(new, age))
    OBVIOUS
  <2>1. CASE age = 0
    BY <1>1, <1>3, <1>7, <2>1
  <2>2. CASE age # 0
    <3>1. age \in 1 .. BF_WINDOW /\ age \in Ages \ {0}
      BY <1>2, <2>2
    <3>2. QED  BY <1>1, <1>3, <1>7, <3>1
  <2>3. QED  BY <2>1, <2>2
<1>9. Len(new) = Attempted(now)
  <2>1. \A i \in DOMAIN new : new[i] \in 0 .. BF_WINDOW
    BY <1>1, <1>2
  <2>2. {i \in DOMAIN new : new[i] \in 0 .. BF_WINDOW} = 1 .. Len(new) /\ Len(new) \in Nat
    BY <1>1, <2>1
  <2>3. Cardinality(1 .. Len(new)) = Len(new)
    BY <2>2, IntervalSize
  <2>4. IsFiniteSet(0 .. BF_WINDOW)
    BY IntervalSize
  <2>5. Cardinality({i \in DOMAIN new : new[i] \in 0 .. BF_WINDOW}) = Attempted(now)
    BY <1>1, <1>8, <2>4, CountByAge DEF Attempted
  <2>6. QED  BY <2>2, <2>3, <2>5
<1>10. Attempted(was) \in Nat /\ Attempted(now) \in Nat /\ Attempted(was) <= Attempted(now)
  <2>0. IsFiniteSet(0 .. BF_WINDOW)
    BY IntervalSize
  <2>1. \A age \in 0 .. BF_WINDOW : was[age] \in Nat /\ now[age] \in Nat /\ was[age] <= now[age]
    BY <1>2, <1>7
  <2>2. /\ IsFiniteSet(Units(now, 0 .. BF_WINDOW))
        /\ Attempted(was) \in Nat /\ Attempted(now) \in Nat
    BY <2>0, <2>1, UnitsFinite DEF Attempted
  <2>3. Units(was, 0 .. BF_WINDOW) \in SUBSET Units(now, 0 .. BF_WINDOW)
    BY <2>1 DEF Units
  <2>4. QED  BY <2>2, <2>3, FS_Subset DEF Attempted
<1>11. BruteExact(now, bf_alerted'[src])
  <2>1. bf_alerted'[src] = 0 => Attempted(now) > BF_THRESHOLD
    BY <1>2, <1>3, <1>6, <1>9, <1>10 DEF BruteExact
  <2>2. Attempted(now) > BF_THRESHOLD => bf_alerted'[src] <= BF_WINDOW
    BY <1>2, <1>6, <1>9, <1>10
  <2>3. QED  BY <2>1, <2>2 DEF BruteExact
<1>12. QED  BY <1>5, <1>8, <1>11 DEF BruteInv

LEMMA ElapseBrute ==
  ASSUME TypesInv, BruteInv, Elapse
  PROVE  BruteInv'
<1> SUFFICES ASSUME NEW src \in Sources
             PROVE  /\ \A age \in 0 .. BF_WINDOW :
                         attempts'[src][age] = Cardinality(At(_hits'[src], age))
                    /\ BruteExact(attempts'[src], bf_alerted'[src])
  BY DEF BruteInv
<1> DEFINE old == _hits[src]
           new == _hits'[src]
           was == attempts[src]
           now == attempts'[src]
<1>1. /\ old \in Seq(Ages)
      /\ \A age \in 0 .. BF_WINDOW : was[age] = Cardinality(At(old, age))
      /\ bf_alerted[src] \in Ages
  BY DEF TypesInv, TypeOK, BruteInv
<1>2. /\ new = [i \in DOMAIN old |-> Older(old[i])]
      /\ now = [age \in Ages |-> IF age = 0 \/ age = Past THEN 0 ELSE was[age - 1]]
      /\ bf_alerted'[src] = Older(bf_alerted[src])
  BY DEF Elapse
<1> HIDE DEF old, new, was, now
<1>3. \A i \in DOMAIN old : old[i] \in Ages
  BY <1>1
<1>4. now[0] = 0
  BY <1>2, OlderIs
<1>5. At(new, 0) = {}
  BY <1>2, <1>3, OlderIs DEF At
<1>6. ASSUME NEW age \in 1 .. BF_WINDOW
      PROVE  now[age] = Cardinality(At(new, age))
  <2>1. age \in Ages /\ age # 0 /\ age # Past /\ age - 1 \in 0 .. BF_WINDOW /\ age - 1 # Past
    BY PastIs DEF Ages
  <2>2. now[age] = was[age - 1]
    BY <1>2, <2>1
  <2>3. \A a \in Ages : Older(a) = age <=> a = age - 1
    BY <2>1, OlderIs
  <2>4. At(new, age) = At(old, age - 1)
    BY <1>2, <1>3, <2>3 DEF At
  <2>5. QED  BY <1>1, <2>1, <2>2, <2>4
<1>7. \A age \in 0 .. BF_WINDOW : now[age] = Cardinality(At(new, age))
  BY <1>4, <1>5, <1>6, FS_EmptySet
<1>8. BruteExact(now, bf_alerted'[src])
  BY <1>1, <1>2, <1>4, OlderIs DEF BruteExact
<1>9. QED  BY <1>7, <1>8 DEF new, now

LEMMA ExactInvariant == Spec => [](ScanInv /\ BruteInv)
<1>1. Init => ScanInv /\ BruteInv
  <2> SUFFICES ASSUME Init, NEW src \in Sources
               PROVE  /\ Mirrors(_seen[src], sighted[src])
                      /\ ScanExact(sighted[src], scan_alerted[src])
                      /\ \A age \in 0 .. BF_WINDOW :
                           attempts[src][age] = Cardinality(At(_hits[src], age))
                      /\ BruteExact(attempts[src], bf_alerted[src])
    BY DEF ScanInv, BruteInv
  <2>1. /\ _seen[src] = << >> /\ _hits[src] = << >>
        /\ scan_alerted[src] = Past /\ bf_alerted[src] = Past
        /\ \A port \in Ports : sighted[src][port] = Past
        /\ \A age \in Ages : attempts[src][age] = 0
    BY DEF Init
  <2>2. Within(sighted[src]) = {}
    BY <2>1, PastIs DEF Within
  <2>3. Mirrors(_seen[src], sighted[src])
    BY <2>1, <2>2 DEF Mirrors
  <2>4. ScanExact(sighted[src], scan_alerted[src])
    BY <2>1, PastIs DEF ScanExact
  <2>5. \A age \in 0 .. BF_WINDOW : age \in Ages /\ 0 \in Ages
    BY PastIs DEF Ages
  <2>6. \A age : At(_hits[src], age) = {}
    BY <2>1 DEF At
  <2>7. \A age \in 0 .. BF_WINDOW : attempts[src][age] = Cardinality(At(_hits[src], age))
    BY <2>1, <2>5, <2>6, FS_EmptySet
  <2>8. BruteExact(attempts[src], bf_alerted[src])
    BY <2>1, <2>5, PastIs DEF BruteExact
  <2>9. QED  BY <2>3, <2>4, <2>7, <2>8
<1>2. TypesInv /\ ScanInv /\ BruteInv /\ [Next]_vars => ScanInv' /\ BruteInv'
  <2> SUFFICES ASSUME TypesInv, ScanInv, BruteInv, [Next]_vars
               PROVE  ScanInv' /\ BruteInv'
    OBVIOUS
  <2>1. ASSUME NEW src \in Sources, NEW port \in Ports, NEW attempt \in BOOLEAN,
               Packet(src, port, attempt)
        PROVE  ScanInv' /\ BruteInv'
    <3>1. CASE attempt = TRUE
      BY <2>1, <3>1, PacketScan, PacketBrute
    <3>2. CASE attempt = FALSE
      <4>1. UNCHANGED <<_hits, attempts, bf_alerted>>
        BY <2>1, <3>2 DEF Packet, Witnessed
      <4>2. BruteInv'
        BY <4>1 DEF BruteInv
      <4>3. QED  BY <2>1, <4>2, PacketScan
    <3>3. QED  BY <3>1, <3>2
  <2>2. CASE Elapse
    BY <2>2, ElapseScan, ElapseBrute
  <2>3. CASE UNCHANGED vars
    BY <2>3 DEF vars, ScanInv, BruteInv
  <2>4. QED  BY <2>1, <2>2, <2>3, StepIs
<1>3. QED  BY <1>1, <1>2, TypesInvariant, PTL DEF Spec

\* AlertsAreExact: for any windows, thresholds and traffic, with the packets of any
\* sources interleaved, a source whose packet makes the documented condition true
\* has an alert no older than the window, and an alert is raised only then.
THEOREM AlertsAreAlwaysExact == Spec => []AlertsAreExact
<1>1. TypesInv /\ ScanInv => ScanAlertsAreExact
  <2>1. \A src : Within(sighted[src]) = Scanned(src)
    BY DEF Within, Scanned
  <2>2. QED  BY <2>1 DEF ScanInv, ScanExact, ScanAlertsAreExact, Sending
<1>2. TypesInv /\ BruteInv => BruteAlertsAreExact
  <2> SUFFICES ASSUME TypesInv, BruteInv, NEW src \in Sources
               PROVE  /\ attempts[src][0] > 0 /\ AttemptsIn(src, BF_WINDOW) > BF_THRESHOLD
                           => bf_alerted[src] <= BF_WINDOW
                      /\ bf_alerted[src] = 0 => AttemptsIn(src, BF_WINDOW) > BF_THRESHOLD
    BY DEF BruteAlertsAreExact
  <2>1. AttemptsIn(src, BF_WINDOW) = Attempted(attempts[src])
    BY AttemptsInIs DEF TypesInv, Attempted
  <2>2. QED  BY <2>1 DEF BruteInv, BruteExact
<1>3. QED  BY <1>1, <1>2, TypesInvariant, ExactInvariant, PTL DEF AlertsAreExact
=============================================================================
