------------------------------ MODULE Injector ------------------------------
(***************************************************************************)
(* The error injection of libcpe464: SettingsManager reads the environment *)
(* before main, sendErr_init adds what the program asks for, PacketManager *)
(* decides the fate of every packet that sendtoErr is given.  A program    *)
(* that forks, like server.c, takes all of it along.                       *)
(***************************************************************************)
EXTENDS Integers, Sequences

CONSTANTS
    Cases,          \* the environments to try, each with a program
    Clock,          \* the values that time() may return
    Parts,          \* granularity of drand48: it returns k / Parts
    Children,       \* the processes that the program forks
    MaxSends,       \* bound: packets that a process sends
    Draws           \* bound: length of the random sequence looked at

\* A variable of the environment is {} when it is not there.  Otherwise it is
\* {token}, or {tokens} for a list; a token is <<n>>, or <<>> when strtol,
\* strtof or atol find no number in it.
IsToken(token) == token = <<>> \/ token[1] \in Int

IsVariable(v) == \A token \in v : v = {token} /\ IsToken(token)

IsListVariable(v) ==
    \A tokens \in v : v = {tokens} /\ \A i \in DOMAIN tokens : IsToken(tokens[i])

IsEnvironment(e) ==
    /\ DOMAIN e = {"port", "debug", "seed", "rate", "drop", "flip"}
    /\ \A key \in {"port", "debug", "seed", "rate"} : IsVariable(e[key])
    /\ \A key \in {"drop", "flip"} : IsListVariable(e[key])

\* The arguments of sendErr_init, with the rate in parts of Parts, and the
\* ports that the program binds: the server one, the client none.
IsProgram(p) ==
    /\ {p.drop, p.flip, p.debug, p.random} \subseteq BOOLEAN
    /\ p.rate \in Int
    /\ \A i \in DOMAIN p.ports : p.ports[i] \in 0 .. 65535

ASSUME InjectorAssumption ==
    /\ \A instance \in Cases : IsEnvironment(instance.env) /\ IsProgram(instance.program)
    /\ Clock \subseteq Nat
    /\ Parts \in Nat \ {0}
    /\ MaxSends \in Nat
    /\ Draws \in Nat
    /\ "main" \notin Children

VARIABLES
    env,        \* the CPE464_OVERRIDE variables of the environment
    program,    \* what the program asks for
    rate,       \* m_ErrorRate
    constant,   \* m_ErrorCase_Constant: events run for every packet
    chance,     \* m_ErrorCase_Chance: events of which one is run by chance
    seed,       \* what srand48 was given last
    level,      \* g_dbg_print_level
    luck,       \* the sequence that drand48 goes through from that seed
    stage,      \* of main: "load", "init", "bind" or "run"
    bound,      \* the ports that bind was called with
    running,    \* the processes there are
    msgNo,      \* by process: m_MsgNo
    places,     \* by process: the draws made before each of its packets, and
                \* after the last
    fates       \* by process: what became of its packets

managers == <<rate, constant, chance, seed, level>>
processVars == <<running, msgNo, places, fates>>
vars == <<env, program, managers, luck, stage, bound, processVars>>

Processes == {"main"} \cup Children

\* An event, with the packets an errorDrop is to drop ({} for all of them).
Event(name, list) == [name |-> name, list |-> list]

----------------------------------------------------------------------------

\* parser2ListLong: the numbers before the first token that is none.
parser2ListLong(tokens) ==
    LET words == {i \in DOMAIN tokens : tokens[i] = <<>>}
        n     == IF words = {} THEN Len(tokens)
                 ELSE (CHOOSE i \in words : \A j \in words : i <= j) - 1
    IN  [i \in 1 .. n |-> tokens[i][1]]

\* loadEnvData: getenv found the variable; for a list that is enough, because
\* the count that parser2ListLong returns is never negative.
IsSet(v) == v # {}

\* loadEnvData: for the others, it must hold a number.
IsNumber(v) == \E token \in v : token # <<>>

NumberOf(v) == (CHOOSE token \in v : TRUE)[1]

\* parserLong2Uint32 keeps the numbers that are not negative.
ListOf(v) ==
    LET tokens == CHOOSE tokens \in v : TRUE
        longs  == parser2ListLong(tokens)
    IN  {longs[i] : i \in {j \in DOMAIN longs : longs[j] >= 0}}

Init ==
    /\ \E instance \in Cases : env = instance.env /\ program = instance.program
    /\ rate = 0
    /\ constant = <<>>
    /\ chance = <<>>
    /\ seed \in Clock
    /\ level = 0
    /\ luck = <<>>
    /\ stage = "load"
    /\ bound = <<>>
    /\ running = {"main"}
    /\ msgNo = [p \in Processes |-> 0]
    /\ places = [p \in Processes |-> <<0>>]
    /\ fates = [p \in Processes |-> <<>>]

\* loadEnvData_Debug, _SeedRand and _ErrRate: a variable that holds a number
\* sets the value.
Loaded(v, value) == IF IsNumber(v) THEN NumberOf(v) ELSE value

OneIf(condition, event) == IF condition THEN <<event>> ELSE <<>>

\* loadEnvData_ErrDrop: an empty list drops by chance, another its packets.
RandomDrop == IsSet(env.drop) /\ ListOf(env.drop) = {}

Listed == IsSet(env.drop) /\ ListOf(env.drop) # {}

\* loadEnvData_ErrFlip: a list of packets to flip is not implemented.
RandomFlip == IsSet(env.flip) /\ ListOf(env.flip) = {}

\* The constructor of SettingsManager.
LoadEnv ==
    /\ stage = "load"
    /\ constant' = OneIf(Listed, Event("errorDrop", ListOf(env.drop)))
    /\ chance' = OneIf(RandomDrop, Event("errorDrop", {}))
                 \o OneIf(RandomFlip, Event("errorFlipBits", {}))
    /\ rate' = Loaded(env.rate, rate)
    /\ seed' = Loaded(env.seed, seed)
    /\ level' = Loaded(env.debug, level)
    /\ stage' = "init"
    /\ UNCHANGED <<env, program, luck, bound, processVars>>

\* setUserMode_Debug, _SeedRand and _ErrRate: a value of the environment stays.
UserValue(v, value, asked) == IF IsNumber(v) THEN value ELSE asked

\* Mutant: what the program asks for is added to what the environment says.
UserModeAdds(flag, v) == flag

\* setUserMode_ErrDrop and _ErrFlip: the environment wins.
UserMode(flag, v) == flag /\ ~IsSet(v)

\* sendErr_init: infoSeqNo for every packet, and what the environment leaves to
\* the program.
SendErrInit ==
    /\ stage = "init"
    /\ rate' = UserValue(env.rate, rate, program.rate)
    /\ constant' = Append(constant, Event("infoSeqNo", {}))
    /\ chance' = chance
         \o OneIf(UserMode(program.drop, env.drop), Event("errorDrop", {}))
         \o OneIf(UserMode(program.flip, env.flip), Event("errorFlipBits", {}))
    /\ \E now \in Clock :
         seed' = UserValue(env.seed, seed, IF program.random THEN now ELSE 10)
    /\ level' = UserValue(env.debug, level, IF program.debug THEN 1 ELSE 0)
    /\ stage' = "bind"
    /\ UNCHANGED <<env, program, luck, bound, processVars>>

\* atol, then htons: 0 if there is no number, and 16 bits of it otherwise.
PortOf(v) == IF IsNumber(v) THEN NumberOf(v) % 65536 ELSE 0

\* bindMod looks into the environment itself: a port that is there overrides
\* that of the first bind, with a number or without one.
Overrides == IsSet(env.port) /\ bound = <<>>

\* bindMod.
BoundPort(port) == IF Overrides THEN PortOf(env.port) ELSE port

\* The bind of udp_server.
Bind ==
    /\ stage = "bind"
    /\ Len(bound) < Len(program.ports)
    /\ bound' = Append(bound, BoundPort(program.ports[Len(bound) + 1]))
    /\ UNCHANGED <<env, program, managers, luck, stage, processVars>>

\* main goes on with process_server or run_client; any sequence may come from
\* the seed.
Start ==
    /\ stage = "bind"
    /\ Len(bound) = Len(program.ports)
    /\ luck' \in [1 .. Draws -> 0 .. Parts - 1]
    /\ stage' = "run"
    /\ UNCHANGED <<env, program, managers, bound, processVars>>

----------------------------------------------------------------------------

\* IMsgEvent::run for message n: 2 when the packet is dropped, 1 when it has
\* been changed, 0 otherwise.
Run(event, n) ==
    CASE event.name = "infoSeqNo"     -> 0
      [] event.name = "errorFlipBits" -> 1
      [] event.name = "errorDrop"     ->
           IF event.list = {} \/ n \in event.list THEN 2 ELSE 0

\* runMsgEvents: the packet is dropped if one of the events drops it.
RunAll(events, n) ==
    LET results == {Run(events[i], n) : i \in DOMAIN events}
    IN  IF 2 \in results THEN 2 ELSE IF 1 \in results THEN 1 ELSE 0

\* Mutant: the message is counted after its events.
CountedAfter(n) == n

\* sendto_Err counts the message first.
Counted(n) == n + 1

\* The draws of processEvents for a packet: one for the rate; by chance a
\* second for the event, and errorFlipBits makes a third for the byte.
Happens(drawn) == chance # <<>> /\ luck[drawn + 1] <= rate

Chosen(drawn) == chance[((Len(chance) * luck[drawn + 2]) \div Parts) + 1]

DrawsMade(drawn) ==
    IF ~Happens(drawn) THEN 1
    ELSE IF Chosen(drawn).name = "errorFlipBits" THEN 3 ELSE 2

\* processEvents: a packet dropped by either is dropped.
Fate(drawn, n) ==
    LET always   == RunAll(constant, n)
        sometimes == IF Happens(drawn) THEN Run(Chosen(drawn), n) ELSE 0
    IN  IF 2 \in {always, sometimes} THEN "dropped"
        ELSE IF 1 \in {always, sometimes} THEN "flipped" ELSE "sent"

\* The last of a sequence.
Last(seq) == seq[Len(seq)]

Serves == program.ports # <<>>

\* sendto_Err.  The parent of server.c sends nothing.
Send(p) ==
    /\ stage = "run"
    /\ p \in running
    /\ p = "main" => ~Serves
    /\ msgNo[p] < MaxSends
    /\ msgNo' = [msgNo EXCEPT ![p] = Counted(@)]
    /\ LET drawn == Last(places[p])
       IN  /\ drawn + 3 <= Draws
           /\ places' = [places EXCEPT ![p] = Append(@, drawn + DrawsMade(drawn))]
           /\ fates' = [fates EXCEPT ![p] = Append(@, Fate(drawn, msgNo'[p]))]
    /\ UNCHANGED <<env, program, managers, luck, stage, bound, running>>

\* Mutant: the parent draws for every child, as if it answered itself.
ParentDraws(placesOfParent) == [placesOfParent EXCEPT ![1] = @ + 1]

\* The parent goes on as it was before.
AfterFork(placesOfParent) == placesOfParent

\* The fork of process_server: the child gets the count of messages and the
\* place in the sequence of its parent.
Fork(p) ==
    /\ stage = "run"
    /\ Serves
    /\ p \notin running
    /\ running' = running \cup {p}
    /\ msgNo' = [msgNo EXCEPT ![p] = msgNo["main"]]
    /\ places' = [places EXCEPT ![p] = places["main"], !["main"] = AfterFork(@)]
    /\ fates' = [fates EXCEPT ![p] = fates["main"]]
    /\ UNCHANGED <<env, program, managers, luck, stage, bound>>

Next ==
    \/ LoadEnv
    \/ SendErrInit
    \/ Bind
    \/ Start
    \/ \E p \in Processes : Send(p)
    \/ \E p \in Children : Fork(p)

Spec == Init /\ [][Next]_vars

----------------------------------------------------------------------------

\* The places where an event of that name is registered.
Registered(name) ==
    {<<"constant", i>> : i \in {j \in DOMAIN constant : constant[j].name = name}}
      \cup {<<"chance", i>> : i \in {j \in DOMAIN chance : chance[j].name = name}}

\* The environment has precedence over what the program asks for, setting by
\* setting: one that is there decides alone, one that is not leaves it to the
\* program, and no event is registered twice.  Of a list of packets to flip it
\* says only that no random flips take its place; what the list itself should
\* do is said by FlipListObeyed.
EnvironmentWins ==
    stage \in {"bind", "run"} =>
        /\ rate = IF IsNumber(env.rate) THEN NumberOf(env.rate) ELSE program.rate
        /\ seed \in IF IsNumber(env.seed) THEN {NumberOf(env.seed)}
                    ELSE IF program.random THEN Clock ELSE {10}
        /\ level = IF IsNumber(env.debug) THEN NumberOf(env.debug)
                   ELSE IF program.debug THEN 1 ELSE 0
        /\ \A name \in {"errorDrop", "errorFlipBits"} :
             \A x, y \in Registered(name) : x = y
        /\ Registered("errorDrop") # {} <=> program.drop \/ IsSet(env.drop)
        /\ IsSet(env.drop) =>
             (<<"constant", 1>> \in Registered("errorDrop") <=> ListOf(env.drop) # {})
        /\ ~IsSet(env.flip) => (Registered("errorFlipBits") # {} <=> program.flip)
        /\ RandomFlip => Registered("errorFlipBits") # {}
        /\ IsSet(env.flip) /\ ~RandomFlip =>
             \A i \in DOMAIN chance : chance[i].name # "errorFlipBits"
        /\ IsNumber(env.port) /\ bound # <<>> =>
             bound[1] = NumberOf(env.port) % 65536

\* SettingsManager.h: "no parameter undefines an environmental variable": one
\* that is empty leaves the events and the port to the program.  The code
\* takes an empty list for random events and an empty port for port 0.
EmptyUndefines ==
    stage \in {"bind", "run"} =>
        /\ env.drop = {<<>>} => (Registered("errorDrop") # {} <=> program.drop)
        /\ env.flip = {<<>>} => (Registered("errorFlipBits") # {} <=> program.flip)
        /\ env.port = {<<>>} => \A i \in DOMAIN bound : bound[i] = program.ports[i]

\* A list of messages to drop is obeyed to the message by every process,
\* counting from 1 in each, whatever chance adds.
DropListObeyed ==
    IsSet(env.drop) /\ ListOf(env.drop) # {} =>
        \A p \in Processes : \A n \in DOMAIN fates[p] :
            n \in ListOf(env.drop) => fates[p][n] = "dropped"

\* SettingsManager.h: "provide a comma-separated list of MsgEvents to perform
\* an event", of CPE464_OVERRIDE_ERR_FLIP as of the list of drops: no packet
\* on the list gets through as it was.  The code has a TODO there.
FlipListObeyed ==
    IsSet(env.flip) /\ ListOf(env.flip) # {} =>
        \A p \in Processes : \A n \in DOMAIN fates[p] :
            n \in ListOf(env.flip) => fates[p][n] # "sent"

\* SettingsManager.h is right about one at least of its promises: a state that
\* violates this breaks both of them.
SomePromiseKept == EmptyUndefines \/ FlipListObeyed

\* All children forked by a server meet the same misfortunes in the same
\* order: they inherit the place of their parent in the random sequence, and
\* the parent never draws.  A client that asks for a new child after a loss
\* gets the same loss again (module Setup).
ChildrenShareLuck ==
    \A p, q \in Children :
        \A n \in DOMAIN fates[p] \cap DOMAIN fates[q] :
            fates[p][n] = fates[q][n]
=============================================================================
