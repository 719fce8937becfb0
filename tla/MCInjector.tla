----------------------------- MODULE MCInjector -----------------------------
(***************************************************************************)
(* Injector with the settings that testRandError.sh and SettingsManager.h  *)
(* speak of: no variable, an empty one, -1, and lists with and without a   *)
(* word in them.  A server binds port 0 or the one it was given, a client  *)
(* binds none.                                                             *)
(***************************************************************************)
EXTENDS Injector

Unset == {}
Empty == {<<>>}
Number(n) == {<<n>>}
Random == {<< <<-1>> >>}
ListOfTwo == {<< <<1>>, <<3>> >>}
ListAndWord == {<< <<2>>, <<>>, <<1>> >>}

Lists == {Unset, Empty, Random, ListOfTwo, ListAndWord}

Program(ports, r, d, f, x) ==
    [ports |-> ports, rate |-> r, drop |-> d, flip |-> f,
     debug |-> TRUE, random |-> x]

\* The lists, with every choice of events.
ListCases ==
    {[env |-> [port |-> Unset, debug |-> Unset, seed |-> Unset,
               rate |-> Unset, drop |-> drop, flip |-> flip],
      program |-> Program(ports, r, d, f, TRUE)] :
        drop \in Lists, flip \in Lists, ports \in {<<>>, <<0>>},
        r \in {0, 1}, d \in BOOLEAN, f \in BOOLEAN}

\* The single values, with what rcopy and server ask for, seeded or not.
ValueCases ==
    {[env |-> [port |-> port, debug |-> debug, seed |-> s, rate |-> r,
               drop |-> Unset, flip |-> Unset],
      program |-> Program(ports, 1, TRUE, TRUE, random)] :
        port \in {Unset, Empty, Number(80), Number(65536)},
        debug \in {Unset, Number(3)}, s \in {Unset, Empty, Number(2)},
        r \in {Unset, Empty, Number(-1), Number(0)},
        ports \in {<<>>, <<0>>, <<7>>}, random \in BOOLEAN}

AllCases == ListCases \cup ValueCases

\* Environments that SettingsManager.h promises something about and that ask
\* for nothing else: the list of drops and the port are cleared or not there,
\* and messages to flip are listed.
PromiseCases ==
    {[env |-> [port |-> port, debug |-> Unset, seed |-> Unset,
               rate |-> Unset, drop |-> drop, flip |-> flip],
      program |-> Program(ports, r, FALSE, f, TRUE)] :
        port \in {Unset, Empty}, drop \in {Unset, Empty},
        flip \in {Unset, Empty, ListOfTwo, ListAndWord},
        ports \in {<<>>, <<7>>}, r \in {0, 1}, f \in BOOLEAN}
=============================================================================
