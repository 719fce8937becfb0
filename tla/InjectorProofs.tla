--------------------------- MODULE InjectorProofs ---------------------------
(***************************************************************************)
(* The error injection, for every environment, program, random sequence    *)
(* and number of children.                                                 *)
(***************************************************************************)
EXTENDS Injector, TLAPS

(***************************************************************************)
(* The packets of a process.                                               *)
(***************************************************************************)

Fates == {"dropped", "flipped", "sent"}

ProcessType ==
    /\ msgNo \in [Processes -> Nat]
    /\ places \in [Processes -> Seq(Nat)]
    /\ fates \in [Processes -> Seq(Fates)]
    /\ \A p \in Processes : Len(places[p]) = msgNo[p] + 1 /\ Len(fates[p]) = msgNo[p]

\* The fate of every packet, and the place of the next one, follow from the
\* place of the packet.
Trail ==
    \A p \in Processes :
        /\ places[p][1] = 0
        /\ \A n \in 1 .. msgNo[p] :
             /\ places[p][n + 1] = places[p][n] + DrawsMade(places[p][n])
             /\ fates[p][n] = Fate(places[p][n], n)

\* Nobody sends before the settings are complete, nor does the parent of a
\* server.
Silent ==
    /\ stage # "run" => \A p \in Processes : msgNo[p] = 0
    /\ Serves => msgNo["main"] = 0

\* Two children have gone through the same places as far as both have come.
SamePlaces ==
    \A p, q \in Children :
        \A n \in 1 .. msgNo[p] + 1 :
            n <= msgNo[q] + 1 => places[p][n] = places[q][n]

Sending == ProcessType /\ Trail /\ Silent /\ SamePlaces

\* What processEvents makes of a packet is one of three, and takes one to
\* three draws.
LEMMA FateType ==
    ASSUME NEW place, NEW n
    PROVE  DrawsMade(place) \in 1 .. 3 /\ Fate(place, n) \in Fates
  BY DEF DrawsMade, Fate, Fates

\* What Append makes of a sequence.
LEMMA Appended ==
    ASSUME NEW S, NEW s \in Seq(S), NEW e \in S
    PROVE  /\ Append(s, e) \in Seq(S)
           /\ Len(Append(s, e)) = Len(s) + 1
           /\ Append(s, e)[Len(s) + 1] = e
           /\ \A n \in 1 .. Len(s) : Append(s, e)[n] = s[n]
  OBVIOUS

\* Every process starts at the first draw.
LEMMA InitSending == Init => Sending
  <1> SUFFICES ASSUME Init PROVE Sending
    OBVIOUS
  <1>1. /\ msgNo = [p \in Processes |-> 0]
        /\ places = [p \in Processes |-> <<0>>]
        /\ fates = [p \in Processes |-> <<>>]
    BY DEF Init
  <1>2. <<0>> \in Seq(Nat) /\ Len(<<0>>) = 1 /\ <<0>>[1] = 0
    OBVIOUS
  <1>3. <<>> \in Seq(Fates) /\ Len(<<>>) = 0
    OBVIOUS
  <1>4. "main" \in Processes /\ Children \subseteq Processes
    BY DEF Processes
  <1>5. ProcessType
    BY <1>1, <1>2, <1>3 DEF ProcessType
  <1>6. Trail
    BY <1>1, <1>2 DEF Trail
  <1>7. Silent
    BY <1>1, <1>4 DEF Silent
  <1>8. SamePlaces
    BY <1>1, <1>4 DEF SamePlaces
  <1> QED BY <1>5, <1>6, <1>7, <1>8 DEF Sending

\* The settings are made before the first packet, when no process has gone
\* anywhere.
LEMMA SettingsSending ==
    ASSUME Sending, stage # "run", UNCHANGED <<program, processVars>>
    PROVE  Sending'
  <1>1. /\ ProcessType /\ Trail /\ Silent /\ SamePlaces
        /\ \A p \in Processes : msgNo[p] = 0
    BY DEF Sending, Silent
  <1>2. UNCHANGED <<program, msgNo, places, fates>>
    BY DEF processVars
  <1>3. ProcessType' /\ SamePlaces'
    BY <1>1, <1>2 DEF ProcessType, SamePlaces
  <1>4. Trail'
    BY <1>1, <1>2 DEF Trail
  <1>5. Silent'
    BY <1>1, <1>2 DEF Silent, Processes, Serves
  <1> QED BY <1>3, <1>4, <1>5 DEF Sending

\* sendto_Err adds a packet to the trail of its process.
LEMMA SendSending ==
    ASSUME Sending, NEW p \in Processes, Send(p)
    PROVE  Sending'
  <1> DEFINE m == msgNo[p]
             drawn == places[p][m + 1]
             next == drawn + DrawsMade(drawn)
             fate == Fate(drawn, m + 1)
  <1>1. /\ ProcessType /\ Trail /\ Silent /\ SamePlaces
        /\ m \in Nat /\ drawn \in Nat
        /\ places[p] \in Seq(Nat) /\ Len(places[p]) = m + 1
        /\ fates[p] \in Seq(Fates) /\ Len(fates[p]) = m
    BY DEF Sending, ProcessType
  <1>2. next \in Nat /\ fate \in Fates
    <2>1. DrawsMade(drawn) \in 1 .. 3 /\ fate \in Fates
      BY FateType
    <2> HIDE DEF drawn
    <2> QED BY <1>1, <2>1
  <1>3. /\ msgNo' = [msgNo EXCEPT ![p] = m + 1]
        /\ places' = [places EXCEPT ![p] = Append(@, next)]
        /\ fates' = [fates EXCEPT ![p] = Append(@, fate)]
        /\ UNCHANGED <<program, rate, constant, chance, luck, stage>>
        /\ stage = "run"
        /\ p = "main" => ~Serves
    <2>1. msgNo'[p] = m + 1
      BY <1>1 DEF Send, Counted, ProcessType
    <2> QED BY <1>1, <2>1 DEF Send, Counted, Last, managers
  <1>4. \A q \in Processes :
          /\ msgNo'[q] = IF q = p THEN m + 1 ELSE msgNo[q]
          /\ places'[q] = IF q = p THEN Append(places[p], next) ELSE places[q]
          /\ fates'[q] = IF q = p THEN Append(fates[p], fate) ELSE fates[q]
    BY <1>1, <1>3 DEF ProcessType
  <1>5. /\ Append(places[p], next) \in Seq(Nat)
        /\ Len(Append(places[p], next)) = m + 2
        /\ Append(places[p], next)[m + 2] = next
        /\ \A n \in 1 .. m + 1 : Append(places[p], next)[n] = places[p][n]
    <2> HIDE DEF next
    <2>1. /\ Append(places[p], next) \in Seq(Nat)
          /\ Len(Append(places[p], next)) = Len(places[p]) + 1
          /\ Append(places[p], next)[Len(places[p]) + 1] = next
          /\ \A n \in 1 .. Len(places[p]) : Append(places[p], next)[n] = places[p][n]
      BY <1>1, <1>2, Appended
    <2>2. Len(places[p]) = m + 1 /\ Len(places[p]) + 1 = m + 2
      BY <1>1
    <2> QED BY <2>1, <2>2
  <1>6. /\ Append(fates[p], fate) \in Seq(Fates)
        /\ Len(Append(fates[p], fate)) = m + 1
        /\ Append(fates[p], fate)[m + 1] = fate
        /\ \A n \in 1 .. m : Append(fates[p], fate)[n] = fates[p][n]
    <2> HIDE DEF fate
    <2>1. /\ Append(fates[p], fate) \in Seq(Fates)
          /\ Len(Append(fates[p], fate)) = Len(fates[p]) + 1
          /\ Append(fates[p], fate)[Len(fates[p]) + 1] = fate
          /\ \A n \in 1 .. Len(fates[p]) : Append(fates[p], fate)[n] = fates[p][n]
      BY <1>1, <1>2, Appended
    <2>2. Len(fates[p]) = m
      BY <1>1
    <2> QED BY <2>1, <2>2
  <1>7. /\ \A x : DrawsMade(x)' = DrawsMade(x)
        /\ \A x, n : Fate(x, n)' = Fate(x, n)
    <2>1. UNCHANGED <<program, rate, constant, chance, luck>>
      BY <1>3
    <2>2. \A x : DrawsMade(x)' = DrawsMade(x)
      BY <2>1 DEF DrawsMade, Happens, Chosen, RunAll
    <2>3. \A x, n : Fate(x, n)' = Fate(x, n)
      BY <2>1 DEF Happens, Chosen, Fate, RunAll
    <2> QED BY <2>2, <2>3
  <1> HIDE DEF next, fate, drawn, m
  <1>8. ProcessType'
    <2>1. \A q \in Processes :
            /\ msgNo'[q] \in Nat /\ places'[q] \in Seq(Nat) /\ fates'[q] \in Seq(Fates)
            /\ Len(places'[q]) = msgNo'[q] + 1 /\ Len(fates'[q]) = msgNo'[q]
      <3> TAKE q \in Processes
      <3>1. CASE q = p
        <4>1. msgNo'[q] = m + 1 /\ m + 1 \in Nat /\ (m + 1) + 1 = m + 2
          BY <1>1, <1>4, <3>1
        <4> QED BY <1>4, <1>5, <1>6, <3>1, <4>1
      <3>2. CASE q # p
        BY <1>1, <1>4, <3>2 DEF ProcessType
      <3> QED BY <3>1, <3>2
    <2>2. /\ msgNo' = [q \in Processes |-> msgNo'[q]]
          /\ places' = [q \in Processes |-> places'[q]]
          /\ fates' = [q \in Processes |-> fates'[q]]
      BY <1>1, <1>3 DEF ProcessType
    <2> QED BY <2>1, <2>2 DEF ProcessType
  <1>9. Trail'
    <2>1. ASSUME NEW q \in Processes, NEW n \in 1 .. msgNo'[q]
          PROVE  /\ places'[q][n + 1] = places'[q][n] + DrawsMade(places'[q][n])
                 /\ fates'[q][n] = Fate(places'[q][n], n)
      <3>1. CASE q = p /\ n = m + 1
        <4>1. /\ places'[q][n + 1] = next /\ places'[q][n] = drawn
              /\ fates'[q][n] = fate
          <5>1. n + 1 = m + 2 /\ m + 1 \in 1 .. m + 1
            BY <1>1, <3>1
          <5> QED BY <1>4, <1>5, <1>6, <3>1, <5>1 DEF drawn, m
        <4> QED BY <3>1, <4>1 DEF next, fate
      <3>2. CASE q = p /\ n # m + 1
        <4>1. n \in 1 .. m /\ n \in 1 .. m + 1 /\ n + 1 \in 1 .. m + 1
          BY <1>1, <1>4, <2>1, <3>2
        <4>2. /\ places'[q][n] = places[p][n] /\ places'[q][n + 1] = places[p][n + 1]
              /\ fates'[q][n] = fates[p][n]
          BY <1>4, <1>5, <1>6, <3>2, <4>1
        <4>3. /\ places[p][n + 1] = places[p][n] + DrawsMade(places[p][n])
              /\ fates[p][n] = Fate(places[p][n], n)
          BY <1>1, <4>1 DEF Trail, m
        <4> QED BY <4>2, <4>3
      <3>3. CASE q # p
        BY <1>1, <1>4, <2>1, <3>3 DEF Trail
      <3> QED BY <3>1, <3>2, <3>3
    <2>2. ASSUME NEW q \in Processes
          PROVE  places'[q][1] = 0
      <3>1. 1 \in 1 .. m + 1
        BY <1>1
      <3> QED BY <1>1, <1>4, <1>5, <3>1 DEF Trail
    <2> QED BY <1>7, <2>1, <2>2 DEF Trail
  <1>10. Silent'
    BY <1>1, <1>3, <1>4 DEF Silent, Serves, Processes
  <1>11. SamePlaces'
    \* The place of the new packet is one that the other child has been to.
    <2>1. ASSUME NEW s \in Children, s # p, p \in Children,
                 NEW k \in 1 .. m + 2, k <= msgNo[s] + 1
          PROVE  Append(places[p], next)[k] = places[s][k]
      <3>1. msgNo[s] \in Nat /\ s \in Processes
        BY <1>1 DEF ProcessType, Processes
      <3>2. CASE k \in 1 .. m + 1
        BY <1>1, <1>5, <2>1, <3>1, <3>2 DEF SamePlaces, m
      <3>3. CASE k = m + 2
        <4>1. m + 1 \in 1 .. m + 1 /\ m + 1 <= msgNo[s] + 1
          BY <1>1, <2>1, <3>1, <3>3
        <4>2. drawn = places[s][m + 1]
          BY <1>1, <2>1, <4>1 DEF SamePlaces, drawn, m
        <4>3. m + 1 \in 1 .. msgNo[s] /\ (m + 1) + 1 = m + 2
          BY <1>1, <2>1, <3>1, <3>3
        <4>4. places[s][m + 2] = places[s][m + 1] + DrawsMade(places[s][m + 1])
          BY <1>1, <3>1, <4>3 DEF Trail
        <4> QED BY <1>5, <3>3, <4>2, <4>4 DEF next
      <3> QED BY <1>1, <3>2, <3>3
    <2>2. SUFFICES ASSUME NEW q \in Children, NEW r \in Children,
                          NEW n \in 1 .. msgNo'[q] + 1,
                          n <= msgNo'[r] + 1
                   PROVE  places'[q][n] = places'[r][n]
      BY DEF SamePlaces
    <2>3. /\ q \in Processes /\ r \in Processes
          /\ msgNo[q] \in Nat /\ msgNo[r] \in Nat /\ n \in Nat
      BY <1>1, <1>8 DEF Processes, ProcessType
    <2>4. CASE q = p /\ r # p
      <3>1. /\ msgNo'[q] = m + 1 /\ msgNo'[r] = msgNo[r] /\ m \in Nat
            /\ places'[q] = Append(places[p], next) /\ places'[r] = places[r]
        BY <1>1, <1>4, <2>3, <2>4
      <3>2. n \in 1 .. m + 2 /\ n <= msgNo[r] + 1
        BY <2>2, <2>3, <3>1
      <3> QED BY <2>1, <2>4, <3>1, <3>2
    <2>5. CASE q # p /\ r = p
      <3>1. /\ msgNo'[r] = m + 1 /\ msgNo'[q] = msgNo[q] /\ m \in Nat
            /\ places'[r] = Append(places[p], next) /\ places'[q] = places[q]
        BY <1>1, <1>4, <2>3, <2>5
      <3>2. n \in 1 .. m + 2 /\ n <= msgNo[q] + 1
        BY <2>2, <2>3, <3>1
      <3> QED BY <2>1, <2>5, <3>1, <3>2
    <2>6. CASE q # p /\ r # p
      <3>1. /\ msgNo'[q] = msgNo[q] /\ msgNo'[r] = msgNo[r]
            /\ places'[q] = places[q] /\ places'[r] = places[r]
        BY <1>4, <2>3, <2>6
      <3>2. SamePlaces /\ n \in 1 .. msgNo[q] + 1 /\ n <= msgNo[r] + 1
        BY <1>1, <2>2, <3>1
      <3> QED BY <2>2, <3>1, <3>2 DEF SamePlaces
    <2> QED BY <2>4, <2>5, <2>6
  <1> QED BY <1>8, <1>9, <1>10, <1>11 DEF Sending

\* A child starts where its parent is, at the first draw: a parent that forks
\* sends nothing.
LEMMA ForkSending ==
    ASSUME Sending, NEW p \in Children, Fork(p)
    PROVE  Sending'
  <1>1. /\ ProcessType /\ Trail /\ Silent /\ SamePlaces
        /\ p \in Processes /\ "main" \in Processes /\ p # "main"
    BY InjectorAssumption DEF Sending, Processes
  <1>2. /\ msgNo' = [msgNo EXCEPT ![p] = msgNo["main"]]
        /\ places' = [places EXCEPT ![p] = places["main"], !["main"] = @]
        /\ fates' = [fates EXCEPT ![p] = fates["main"]]
        /\ UNCHANGED <<program, rate, constant, chance, luck, stage>>
        /\ stage = "run" /\ Serves
    BY DEF Fork, AfterFork, managers
  <1>3. \A q \in Processes :
          /\ msgNo'[q] = IF q = p THEN msgNo["main"] ELSE msgNo[q]
          /\ places'[q] = IF q = p THEN places["main"] ELSE places[q]
          /\ fates'[q] = IF q = p THEN fates["main"] ELSE fates[q]
    BY <1>1, <1>2 DEF ProcessType
  <1>4. msgNo["main"] = 0
    BY <1>1, <1>2 DEF Silent
  <1>5. /\ \A x : DrawsMade(x)' = DrawsMade(x)
        /\ \A x, n : Fate(x, n)' = Fate(x, n)
    BY <1>2 DEF DrawsMade, Happens, Chosen, Fate, RunAll
  <1>6. ProcessType'
    <2>1. \A q \in Processes :
            /\ msgNo'[q] \in Nat /\ places'[q] \in Seq(Nat) /\ fates'[q] \in Seq(Fates)
            /\ Len(places'[q]) = msgNo'[q] + 1 /\ Len(fates'[q]) = msgNo'[q]
      BY <1>1, <1>3 DEF ProcessType
    <2>2. /\ msgNo' = [q \in Processes |-> msgNo'[q]]
          /\ places' = [q \in Processes |-> places'[q]]
          /\ fates' = [q \in Processes |-> fates'[q]]
      BY <1>1, <1>2 DEF ProcessType
    <2> QED BY <2>1, <2>2 DEF ProcessType
  <1>7. Trail'
    <2>1. ASSUME NEW q \in Processes
          PROVE  /\ places'[q][1] = 0
                 /\ \A n \in 1 .. msgNo'[q] :
                      /\ places'[q][n + 1] = places'[q][n] + DrawsMade(places'[q][n])
                      /\ fates'[q][n] = Fate(places'[q][n], n)
      BY <1>1, <1>3 DEF Trail
    <2> QED BY <1>5, <2>1 DEF Trail
  <1>8. Silent'
    BY <1>1, <1>2, <1>3, <1>4 DEF Silent, Serves
  <1>9. SamePlaces'
    <2>1. SUFFICES ASSUME NEW q \in Children, NEW r \in Children,
                          NEW n \in 1 .. msgNo'[q] + 1,
                          n <= msgNo'[r] + 1
                   PROVE  places'[q][n] = places'[r][n]
      BY DEF SamePlaces
    <2>2. /\ q \in Processes /\ r \in Processes
          /\ msgNo[q] \in Nat /\ msgNo[r] \in Nat /\ n \in Nat
      BY <1>1, <1>6 DEF Processes, ProcessType
    <2>3. CASE q = p \/ r = p
      <3>1. n = 1
        BY <1>3, <1>4, <2>1, <2>2, <2>3
      <3> QED BY <1>1, <1>3, <2>2, <3>1 DEF Trail
    <2>4. CASE q # p /\ r # p
      BY <1>1, <1>3, <2>1, <2>2, <2>4 DEF SamePlaces
    <2> QED BY <2>3, <2>4
  <1> QED BY <1>6, <1>7, <1>8, <1>9 DEF Sending

\* The settings stay as they are once packets are sent.
LEMMA NextSending == Sending /\ [Next]_vars => Sending'
  <1> SUFFICES ASSUME Sending, [Next]_vars PROVE Sending'
    OBVIOUS
  <1>1. CASE LoadEnv \/ SendErrInit \/ Bind \/ Start
    BY <1>1, SettingsSending DEF LoadEnv, SendErrInit, Bind, Start
  <1>2. ASSUME NEW p \in Processes, Send(p) PROVE Sending'
    BY <1>2, SendSending
  <1>3. ASSUME NEW p \in Children, Fork(p) PROVE Sending'
    BY <1>3, ForkSending
  <1>4. CASE UNCHANGED vars
    BY <1>4 DEF vars, managers, processVars, Sending, ProcessType, Trail, Silent,
       SamePlaces, DrawsMade, Happens, Chosen, Fate, RunAll, Serves
  <1> QED BY <1>1, <1>2, <1>3, <1>4 DEF Next

\* Every packet of every process has the fate that its place in the random
\* sequence gives it, and the children of a server go through the same places.
LEMMA SendingInvariant == Spec => []Sending
  BY InitSending, NextSending, PTL DEF Spec

\* The children of a server meet the same misfortunes in the same order, for
\* every setting and every random sequence: they inherit the place of their
\* parent (fork in process_server), which never sends.
THEOREM SharedLuck == Spec => []ChildrenShareLuck
  <1>1. Sending => ChildrenShareLuck
    <2> SUFFICES ASSUME Sending, NEW p \in Children, NEW q \in Children,
                        NEW n \in DOMAIN fates[p] \cap DOMAIN fates[q]
                 PROVE  fates[p][n] = fates[q][n]
      BY DEF ChildrenShareLuck
    <2>1. /\ p \in Processes /\ q \in Processes
          /\ msgNo[p] \in Nat /\ msgNo[q] \in Nat
          /\ n \in 1 .. msgNo[p] /\ n \in 1 .. msgNo[q]
      <3>1. p \in Processes /\ q \in Processes
        BY DEF Processes
      <3>2. \A r \in Processes :
              /\ msgNo[r] \in Nat /\ fates[r] \in Seq(Fates) /\ Len(fates[r]) = msgNo[r]
        BY DEF Sending, ProcessType
      <3>3. \A r \in Processes : DOMAIN fates[r] = 1 .. msgNo[r]
        BY <3>2
      <3> QED BY <3>1, <3>2, <3>3
    <2>2. n \in 1 .. msgNo[p] + 1 /\ n <= msgNo[q] + 1
      BY <2>1
    <2>3. places[p][n] = places[q][n]
      BY <2>2 DEF Sending, SamePlaces
    <2> QED BY <2>1, <2>3 DEF Sending, Trail
  <1> QED BY <1>1, SendingInvariant, PTL

(***************************************************************************)
(* The settings.                                                           *)
(***************************************************************************)

DropsListed == Event("errorDrop", ListOf(env.drop))
Drops == Event("errorDrop", {})
Flips == Event("errorFlipBits", {})
Numbers == Event("infoSeqNo", {})

\* The ports that bind may be called with.
Ports == {PortOf(env.port)} \cup {program.ports[i] : i \in Nat}

\* What the constructor has left to sendErr_init.
AfterLoad ==
    /\ bound = <<>>
    /\ constant = OneIf(Listed, DropsListed)
    /\ chance = OneIf(RandomDrop, Drops) \o OneIf(RandomFlip, Flips)
    /\ IsNumber(env.rate) => rate = NumberOf(env.rate)
    /\ IsNumber(env.seed) => seed = NumberOf(env.seed)
    /\ IsNumber(env.debug) => level = NumberOf(env.debug)

\* What sendErr_init has made of it: the events, the values, and the ports.
EventsSet ==
    /\ constant = OneIf(Listed, DropsListed) \o <<Numbers>>
    /\ chance = OneIf(RandomDrop, Drops) \o OneIf(RandomFlip, Flips)
                  \o OneIf(UserMode(program.drop, env.drop), Drops)
                  \o OneIf(UserMode(program.flip, env.flip), Flips)

ValuesSet ==
    /\ rate = IF IsNumber(env.rate) THEN NumberOf(env.rate) ELSE program.rate
    /\ seed \in IF IsNumber(env.seed) THEN {NumberOf(env.seed)}
                ELSE IF program.random THEN Clock ELSE {10}
    /\ level = IF IsNumber(env.debug) THEN NumberOf(env.debug)
               ELSE IF program.debug THEN 1 ELSE 0

PortsBound ==
    /\ bound \in Seq(Ports)
    /\ IsNumber(env.port) /\ bound # <<>> => bound[1] = NumberOf(env.port) % 65536

AfterInit == EventsSet /\ ValuesSet /\ PortsBound

Settings ==
    /\ stage \in {"load", "init", "bind", "run"}
    /\ stage = "load" => bound = <<>>
    /\ stage = "init" => AfterLoad
    /\ stage \in {"bind", "run"} => AfterInit

\* Sequences of two.
LEMMA Two ==
    ASSUME NEW a, NEW b
    PROVE  <<a>> \o <<b>> = <<a, b>> /\ Append(<<a>>, b) = <<a, b>>
  <1>1. <<a>> \in Seq({a, b}) /\ <<b>> \in Seq({a, b}) /\ b \in {a, b}
    OBVIOUS
  <1>2. <<a, b>> = [i \in 1 .. 2 |-> <<a, b>>[i]]
    OBVIOUS
  <1>3. <<a>> \o <<b>> = <<a, b>>
    <2>1. /\ <<a>> \o <<b>> \in Seq({a, b}) /\ Len(<<a>> \o <<b>>) = 2
          /\ (<<a>> \o <<b>>)[1] = a /\ (<<a>> \o <<b>>)[2] = b
      BY <1>1
    <2>2. <<a>> \o <<b>> = [i \in 1 .. 2 |-> (<<a>> \o <<b>>)[i]]
      BY <2>1
    <2>3. [i \in 1 .. 2 |-> (<<a>> \o <<b>>)[i]] = [i \in 1 .. 2 |-> <<a, b>>[i]]
      BY <2>1
    <2> QED BY <1>2, <2>2, <2>3
  <1>4. Append(<<a>>, b) = <<a, b>>
    <2>1. /\ Append(<<a>>, b) \in Seq({a, b}) /\ Len(Append(<<a>>, b)) = 2
          /\ Append(<<a>>, b)[1] = a /\ Append(<<a>>, b)[2] = b
      BY <1>1
    <2>2. Append(<<a>>, b) = [i \in 1 .. 2 |-> Append(<<a>>, b)[i]]
      BY <2>1
    <2>3. [i \in 1 .. 2 |-> Append(<<a>>, b)[i]] = [i \in 1 .. 2 |-> <<a, b>>[i]]
      BY <2>1
    <2> QED BY <1>2, <2>2, <2>3
  <1> QED BY <1>3, <1>4

\* Nothing is set before main.
LEMMA InitSettings == Init => Settings
  <1> SUFFICES ASSUME Init PROVE Settings
    OBVIOUS
  <1>1. stage = "load" /\ bound = <<>>
    BY DEF Init
  <1> QED BY <1>1 DEF Settings

\* Nothing but bound changes when a port is bound, and its first element only
\* with the first port.
LEMMA BindSettings == Settings /\ Bind => Settings'
  <1> SUFFICES ASSUME Settings, Bind PROVE Settings'
    OBVIOUS
  <1>1. AfterInit /\ UNCHANGED <<env, program, rate, constant, chance, seed, level, stage>>
    BY DEF Settings, Bind, managers
  <1>2. bound \in Seq(Ports) /\ Len(bound) \in Nat
    BY <1>1 DEF AfterInit, PortsBound
  <1> DEFINE port == BoundPort(program.ports[Len(bound) + 1])
  <1>3. bound' = Append(bound, port)
    BY DEF Bind
  <1>4. port \in Ports
    BY <1>2 DEF Ports, BoundPort
  <1>5. Ports' = Ports
    BY <1>1 DEF Ports, PortOf, IsNumber, NumberOf
  <1>6. bound' \in Seq(Ports)
    <2> HIDE DEF port
    <2> QED BY <1>2, <1>3, <1>4, Appended
  <1>7. ASSUME IsNumber(env.port)
        PROVE  bound'[1] = NumberOf(env.port) % 65536
    <2>1. CASE bound = <<>>
      <3>1. port = NumberOf(env.port) % 65536
        BY <1>7, <2>1 DEF BoundPort, Overrides, IsSet, IsNumber, PortOf
      <3> HIDE DEF port
      <3> QED BY <1>3, <2>1, <3>1
    <2>2. CASE bound # <<>>
      <3>1. 1 \in 1 .. Len(bound)
        BY <1>2, <2>2
      <3>2. bound'[1] = bound[1]
        <4> HIDE DEF port
        <4> QED BY <1>2, <1>3, <1>4, <3>1, Appended
      <3> QED BY <1>1, <1>7, <2>2, <3>2 DEF AfterInit, PortsBound
    <2> QED BY <2>1, <2>2
  <1>8. AfterInit'
    <2>1. /\ OneIf(Listed, DropsListed)' = OneIf(Listed, DropsListed)
          /\ OneIf(RandomDrop, Drops)' = OneIf(RandomDrop, Drops)
          /\ OneIf(RandomFlip, Flips)' = OneIf(RandomFlip, Flips)
          /\ OneIf(UserMode(program.drop, env.drop), Drops)'
               = OneIf(UserMode(program.drop, env.drop), Drops)
          /\ OneIf(UserMode(program.flip, env.flip), Flips)'
               = OneIf(UserMode(program.flip, env.flip), Flips)
          /\ Numbers' = Numbers
      BY <1>1 DEF OneIf, Listed, RandomDrop, RandomFlip, DropsListed, Drops, Flips,
         Numbers, UserMode, IsSet, ListOf, parser2ListLong
    <2>2. EventsSet'
      BY <1>1, <2>1 DEF AfterInit, EventsSet
    <2>3. ValuesSet'
      BY <1>1 DEF AfterInit, ValuesSet, IsNumber, NumberOf
    <2>4. PortsBound'
      BY <1>1, <1>5, <1>6, <1>7 DEF PortsBound, IsNumber, NumberOf
    <2> QED BY <2>2, <2>3, <2>4 DEF AfterInit
  <1> QED BY <1>1, <1>8 DEF Settings, Bind

\* The settings are made in two steps, and nothing changes them afterwards.
LEMMA NextSettings == Settings /\ [Next]_vars => Settings'
  <1> SUFFICES ASSUME Settings, [Next]_vars PROVE Settings'
    OBVIOUS
  <1> USE DEF Listed, RandomDrop, RandomFlip, DropsListed, Drops, Flips, Numbers, OneIf
  <1>1. CASE LoadEnv
    <2>1. AfterLoad'
      BY <1>1 DEF LoadEnv, Settings, AfterLoad, Loaded, IsSet, ListOf, IsNumber, NumberOf
    <2>2. UNCHANGED program /\ stage' = "init"
      BY <1>1 DEF LoadEnv
    <2> QED BY <2>1, <2>2 DEF Settings
  <1>2. CASE SendErrInit
    <2>1. AfterLoad /\ UNCHANGED <<env, program, bound>> /\ stage' = "bind"
      BY <1>2 DEF SendErrInit, Settings
    <2>2. constant' = OneIf(Listed, DropsListed)' \o <<Numbers>>
      <3>1. constant' = Append(OneIf(Listed, DropsListed), Numbers)
        BY <1>2, <2>1 DEF SendErrInit, AfterLoad
      <3>2. \A a : Append(OneIf(Listed, a), Numbers) = OneIf(Listed, a) \o <<Numbers>>
        <4> TAKE a
        <4>1. CASE Listed
          <5>1. OneIf(Listed, a) = <<a>>
            BY <4>1 DEF OneIf
          <5>2. Append(<<a>>, Numbers) = <<a>> \o <<Numbers>>
            BY Two, Zenon
          <5> QED BY <5>1, <5>2, Zenon
        <4>2. CASE ~Listed
          <5>1. OneIf(Listed, a) = <<>>
            BY <4>2 DEF OneIf
          <5>2. Append(<<>>, Numbers) = <<>> \o <<Numbers>>
            OBVIOUS
          <5> QED BY <5>1, <5>2, Zenon
        <4> QED BY <4>1, <4>2
      <3>3. OneIf(Listed, DropsListed)' = OneIf(Listed, DropsListed)
        BY <2>1 DEF IsSet, ListOf, parser2ListLong
      <3> QED BY <3>1, <3>2, <3>3
    <2>3. chance' = OneIf(RandomDrop, Drops) \o OneIf(RandomFlip, Flips)
                      \o OneIf(UserMode(program.drop, env.drop), Drops)
                      \o OneIf(UserMode(program.flip, env.flip), Flips)
      BY <1>2, <2>1 DEF SendErrInit, AfterLoad
    <2>4. UNCHANGED <<RandomDrop, RandomFlip, UserMode(program.drop, env.drop),
                      UserMode(program.flip, env.flip)>>
      BY <2>1 DEF UserMode, IsSet, ListOf
    <2>5. /\ rate' = IF IsNumber(env.rate) THEN NumberOf(env.rate) ELSE program.rate
          /\ seed' \in IF IsNumber(env.seed) THEN {NumberOf(env.seed)}
                       ELSE IF program.random THEN Clock ELSE {10}
          /\ level' = IF IsNumber(env.debug) THEN NumberOf(env.debug)
                      ELSE IF program.debug THEN 1 ELSE 0
      BY <1>2, <2>1 DEF SendErrInit, AfterLoad, UserValue
    <2>6. bound' = <<>> /\ <<>> \in Seq(Ports')
      BY <2>1 DEF AfterLoad
    <2>7. AfterInit'
      BY <2>1, <2>2, <2>3, <2>4, <2>5, <2>6 DEF AfterInit, EventsSet, ValuesSet, PortsBound, IsNumber, NumberOf
    <2> QED BY <2>1, <2>7 DEF Settings
  <1>3. CASE Bind
    BY <1>3, BindSettings
  <1>4. CASE Start \/ (\E p \in Processes : Send(p)) \/ (\E p \in Children : Fork(p))
          \/ UNCHANGED vars
    <2>1. /\ UNCHANGED <<env, program, rate, constant, chance, seed, level, bound>>
          /\ \/ stage = "bind" /\ stage' = "run"
             \/ UNCHANGED stage
      BY <1>4 DEF Start, Send, Fork, managers, vars
    <2>2. UNCHANGED <<AfterLoad, AfterInit>>
      BY <2>1 DEF AfterLoad, AfterInit, EventsSet, ValuesSet, PortsBound, Ports, PortOf, UserMode, IsSet, ListOf,
         IsNumber, NumberOf
    <2> QED BY <2>1, <2>2 DEF Settings
  <1> QED BY <1>1, <1>2, <1>3, <1>4 DEF Next

LEMMA SettingsInvariant == Spec => []Settings
  BY InitSettings, NextSettings, PTL DEF Spec

\* A list of packets to drop is obeyed to the packet by every process, for
\* every list, program and random sequence: sendto_Err counts first, and the
\* events for every packet are run whatever chance decides.
THEOREM ListsObeyed == Spec => []DropListObeyed
  <1>1. Sending /\ Settings => DropListObeyed
    <2> SUFFICES ASSUME Sending, Settings, Listed,
                        NEW p \in Processes, NEW n \in DOMAIN fates[p],
                        n \in ListOf(env.drop)
                 PROVE  fates[p][n] = "dropped"
      BY DEF DropListObeyed, Listed
    <2>1. n \in 1 .. msgNo[p] /\ msgNo[p] \in Nat
      <3>1. msgNo[p] \in Nat /\ fates[p] \in Seq(Fates) /\ Len(fates[p]) = msgNo[p]
        BY DEF Sending, ProcessType
      <3> QED BY <3>1
    <2>2. fates[p][n] = Fate(places[p][n], n)
      BY <2>1 DEF Sending, Trail
    <2>3. AfterInit
      BY <2>1 DEF Sending, Silent, Settings
    <2>4. constant = <<DropsListed, Numbers>>
      <3>1. constant = OneIf(Listed, DropsListed) \o <<Numbers>>
        BY <2>3 DEF AfterInit, EventsSet
      <3>2. OneIf(Listed, DropsListed) = <<DropsListed>>
        BY DEF OneIf
      <3>3. <<DropsListed>> \o <<Numbers>> = <<DropsListed, Numbers>>
        BY Two, Zenon
      <3> QED BY <3>1, <3>2, <3>3, Zenon
    <2>5. Run(DropsListed, n) = 2
      BY DEF Run, DropsListed, Event
    <2>6. RunAll(constant, n) = 2
      BY <2>4, <2>5 DEF RunAll
    <2> QED BY <2>2, <2>6 DEF Fate
  <1> QED BY <1>1, SendingInvariant, SettingsInvariant, PTL

\* Of every kind there is at most one event, whether the environment or the
\* program asked for it.
LEMMA EventsOnce ==
    ASSUME Settings, AfterInit
    PROVE  /\ \A name \in {"errorDrop", "errorFlipBits"} :
                \A x, y \in Registered(name) : x = y
           /\ Registered("errorDrop") # {} <=> program.drop \/ IsSet(env.drop)
           /\ IsSet(env.drop) =>
                (<<"constant", 1>> \in Registered("errorDrop") <=> ListOf(env.drop) # {})
           /\ ~IsSet(env.flip) => (Registered("errorFlipBits") # {} <=> program.flip)
           /\ RandomFlip => Registered("errorFlipBits") # {}
           /\ IsSet(env.flip) /\ ~RandomFlip =>
                \A i \in DOMAIN chance : chance[i].name # "errorFlipBits"
  <1> DEFINE byChance == RandomDrop \/ UserMode(program.drop, env.drop)
             flipping == RandomFlip \/ UserMode(program.flip, env.flip)
             C(name) == {j \in DOMAIN constant : constant[j].name = name}
             H(name) == {j \in DOMAIN chance : chance[j].name = name}
  <1>1. \A name : Registered(name) = {<<"constant", i>> : i \in C(name)}
                                       \cup {<<"chance", i>> : i \in H(name)}
    BY DEF Registered
  <1>2. /\ DropsListed.name = "errorDrop" /\ Drops.name = "errorDrop"
        /\ Flips.name = "errorFlipBits" /\ Numbers.name = "infoSeqNo"
    BY DEF DropsListed, Drops, Flips, Numbers, Event
  <1>3. /\ C("errorDrop") = IF Listed THEN {1} ELSE {}
        /\ C("errorFlipBits") = {}
    <2>1. CASE Listed
      <3>1. constant = <<DropsListed, Numbers>>
        <4>1. constant = OneIf(Listed, DropsListed) \o <<Numbers>>
          BY DEF AfterInit, EventsSet
        <4>2. OneIf(Listed, DropsListed) = <<DropsListed>>
          BY <2>1 DEF OneIf
        <4>3. <<DropsListed>> \o <<Numbers>> = <<DropsListed, Numbers>>
          BY Two, Zenon
        <4> QED BY <4>1, <4>2, <4>3, Zenon
      <3>2. DOMAIN constant = {1, 2} /\ constant[1] = DropsListed /\ constant[2] = Numbers
        BY <3>1
      <3> QED BY <1>2, <2>1, <3>2
    <2>2. CASE ~Listed
      <3>1. constant = <<Numbers>>
        BY <2>2 DEF AfterInit, EventsSet, OneIf
      <3>2. DOMAIN constant = {1} /\ constant[1] = Numbers
        BY <3>1
      <3> QED BY <1>2, <2>2, <3>2
    <2> QED BY <2>1, <2>2
  <1>4. /\ byChance <=> (program.drop \/ IsSet(env.drop)) /\ ~Listed
        /\ RandomDrop => ~UserMode(program.drop, env.drop)
        /\ RandomFlip => ~UserMode(program.flip, env.flip)
    BY DEF Settings, RandomDrop, RandomFlip, Listed, UserMode
  <1>5. \/ chance = <<>> /\ ~byChance /\ ~flipping
        \/ chance = <<Drops>> /\ byChance /\ ~flipping
        \/ chance = <<Flips>> /\ ~byChance /\ flipping
        \/ chance \in {<<Drops, Flips>>, <<Flips, Drops>>} /\ byChance /\ flipping
    <2>1. chance = ((OneIf(RandomDrop, Drops) \o OneIf(RandomFlip, Flips))
                     \o OneIf(UserMode(program.drop, env.drop), Drops))
                     \o OneIf(UserMode(program.flip, env.flip), Flips)
      BY DEF AfterInit, EventsSet
    <2>2. /\ <<Drops>> \o <<Flips>> = <<Drops, Flips>>
          /\ <<Flips>> \o <<Drops>> = <<Flips, Drops>>
      BY Two, Zenon
    <2>3. \A a : <<>> \o <<a>> = <<a>> /\ <<a>> \o <<>> = <<a>>
      OBVIOUS
    <2>4. /\ <<>> \o <<>> = <<>>
          /\ <<Drops, Flips>> \o <<>> = <<Drops, Flips>>
          /\ <<Flips, Drops>> \o <<>> = <<Flips, Drops>>
      OBVIOUS
    <2>5. \A e : /\ OneIf(TRUE, e) = <<e>>
                /\ OneIf(FALSE, e) = <<>>
      BY DEF OneIf
    <2> DEFINE rd == RandomDrop
               rf == RandomFlip
               ud == UserMode(program.drop, env.drop)
               uf == UserMode(program.flip, env.flip)
    <2>6. rd \in BOOLEAN /\ rf \in BOOLEAN /\ ud \in BOOLEAN /\ uf \in BOOLEAN
      BY DEF RandomDrop, RandomFlip, UserMode
    <2>7. chance = ((OneIf(rd, Drops) \o OneIf(rf, Flips)) \o OneIf(ud, Drops))
                     \o OneIf(uf, Flips)
      BY <2>1
    <2>8. ~(rd /\ ud) /\ ~(rf /\ uf)
      BY <1>4
    <2>9. (byChance <=> rd \/ ud) /\ (flipping <=> rf \/ uf)
      OBVIOUS
    <2> HIDE DEF rd, rf, ud, uf, byChance, flipping
    <2>10. CASE rd = TRUE /\ ud = FALSE
      <3>1. CASE rf = TRUE /\ uf = FALSE
        BY <2>2, <2>3, <2>4, <2>5, <2>7, <2>9, <2>10, <3>1, Zenon
      <3>2. CASE rf = FALSE /\ uf = TRUE
        BY <2>2, <2>3, <2>4, <2>5, <2>7, <2>9, <2>10, <3>2, Zenon
      <3>3. CASE rf = FALSE /\ uf = FALSE
        BY <2>2, <2>3, <2>4, <2>5, <2>7, <2>9, <2>10, <3>3, Zenon
      <3> QED BY <2>6, <2>8, <3>1, <3>2, <3>3
    <2>11. CASE rd = FALSE /\ ud = TRUE
      <3>1. CASE rf = TRUE /\ uf = FALSE
        BY <2>2, <2>3, <2>4, <2>5, <2>7, <2>9, <2>11, <3>1, Zenon
      <3>2. CASE rf = FALSE /\ uf = TRUE
        BY <2>2, <2>3, <2>4, <2>5, <2>7, <2>9, <2>11, <3>2, Zenon
      <3>3. CASE rf = FALSE /\ uf = FALSE
        BY <2>2, <2>3, <2>4, <2>5, <2>7, <2>9, <2>11, <3>3, Zenon
      <3> QED BY <2>6, <2>8, <3>1, <3>2, <3>3
    <2>12. CASE rd = FALSE /\ ud = FALSE
      <3>1. CASE rf = TRUE /\ uf = FALSE
        BY <2>2, <2>3, <2>4, <2>5, <2>7, <2>9, <2>12, <3>1, Zenon
      <3>2. CASE rf = FALSE /\ uf = TRUE
        BY <2>2, <2>3, <2>4, <2>5, <2>7, <2>9, <2>12, <3>2, Zenon
      <3>3. CASE rf = FALSE /\ uf = FALSE
        BY <2>2, <2>3, <2>4, <2>5, <2>7, <2>9, <2>12, <3>3, Zenon
      <3> QED BY <2>6, <2>8, <3>1, <3>2, <3>3
    <2> QED BY <2>6, <2>8, <2>10, <2>11, <2>12
  <1>6. /\ H("errorDrop") # {} <=> byChance
        /\ H("errorFlipBits") # {} <=> flipping
        /\ \A name \in {"errorDrop", "errorFlipBits"} : \A i, j \in H(name) : i = j
    <2> HIDE DEF byChance, flipping
    <2>1. CASE chance = <<>>
      BY <1>5, <2>1
    <2>2. CASE chance = <<Drops>>
      BY <1>2, <1>5, <2>2
    <2>3. CASE chance = <<Flips>>
      BY <1>2, <1>5, <2>3
    <2>4. CASE chance = <<Drops, Flips>>
      BY <1>2, <1>5, <2>4
    <2>5. CASE chance = <<Flips, Drops>>
      BY <1>2, <1>5, <2>5
    <2> QED BY <1>5, <2>1, <2>2, <2>3, <2>4, <2>5
  <1>7. /\ ~IsSet(env.flip) => (flipping <=> program.flip)
        /\ RandomFlip => flipping
        /\ IsSet(env.flip) /\ ~RandomFlip => ~flipping
    BY DEF Settings, RandomFlip, UserMode
  <1>8. byChance => ~Listed
    BY <1>4
  <1> HIDE DEF byChance, flipping, C, H
  <1>9. \A name \in {"errorDrop", "errorFlipBits"} : \A x, y \in Registered(name) : x = y
    <2>1. \A name \in {"errorDrop", "errorFlipBits"} :
            /\ \A i, j \in C(name) : i = j
            /\ C(name) = {} \/ H(name) = {}
      BY <1>3, <1>6, <1>8
    <2> QED BY <1>1, <1>6, <2>1
  <1>10. Registered("errorDrop") # {} <=> program.drop \/ IsSet(env.drop)
    <2>1. Registered("errorDrop") # {} <=> Listed \/ byChance
      BY <1>1, <1>3, <1>6
    <2>2. Listed => IsSet(env.drop)
      BY DEF Listed
    <2> QED BY <1>4, <2>1, <2>2
  <1>11. IsSet(env.drop) =>
           (<<"constant", 1>> \in Registered("errorDrop") <=> ListOf(env.drop) # {})
    <2>1. <<"constant", 1>> \in Registered("errorDrop") <=> 1 \in C("errorDrop")
      BY <1>1
    <2> QED BY <1>3, <2>1 DEF Listed
  <1>12. Registered("errorFlipBits") # {} <=> flipping
    BY <1>1, <1>3, <1>6
  <1>13. ~flipping => \A i \in DOMAIN chance : chance[i].name # "errorFlipBits"
    BY <1>6 DEF H
  <1> QED BY <1>7, <1>9, <1>10, <1>11, <1>12, <1>13

\* What the environment says stands, and the program decides the rest, for
\* every environment and program (setUserMode_ErrRate and its siblings).
THEOREM Precedence == Spec => []EnvironmentWins
  <1>1. Settings => EnvironmentWins
    <2> SUFFICES ASSUME Settings, stage \in {"bind", "run"}
                 PROVE  EnvironmentWins
      BY DEF EnvironmentWins
    <2>1. AfterInit
      BY DEF Settings
    <2> QED BY <2>1, EventsOnce DEF EnvironmentWins, AfterInit, ValuesSet, PortsBound
  <1> QED BY <1>1, SettingsInvariant, PTL
=============================================================================
