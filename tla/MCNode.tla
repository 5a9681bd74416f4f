------------------------------- MODULE MCNode -------------------------------
(***************************************************************************)
(* Node for TLC: the scenes of two instances.  A scene bounds what happens *)
(* in a behaviour, so that what one is about does not multiply another.    *)
(***************************************************************************)
EXTENDS Node

Quiet == [linked |-> {}, reach |-> {}, mortal |-> {}, late |-> {}, chats |-> {},
          tickets |-> FALSE, blocks |-> {}, keys |-> {}, times |-> {}, horizon |-> 0, floods |-> 0]

\* Three nodes in a triangle, one with two read loops; clocks that differ.
RelayNodes   == {"a", "b", "c"}
Triangle     == {p \in RelayNodes \X RelayNodes : p[1] # p[2]}
RelaySockets == [a |-> {4}, b |-> {4, 6}, c |-> {4}]
RelayDrift   == [a |-> 0, b |-> 1, c |-> -1]
RelayChats   == [v |-> [from |-> "a", to |-> "all", ttl |-> 1],
                 w |-> [from |-> "b", to |-> "c", ttl |-> 1],
                 x |-> [from |-> "a", to |-> "c", ttl |-> 1],
                 y |-> [from |-> "b", to |-> "c", ttl |-> 1]]

RelayScenes ==
  \* "a" is back from a restart: the others have its address and it has none.
  { [Quiet EXCEPT !.linked = {p \in Triangle : p[1] # "a"}, !.chats = {"v", "w"},
                  !.mortal = {"a", "b"}, !.horizon = 1],
  \* It learns of "c" from the seed, stores a packet for it and hears from "b".
    [Quiet EXCEPT !.linked = {p \in Triangle : p[1] # "a"}, !.reach = {"a", "c"},
                  !.chats = {"x", "w"}],
  \* Two initiators that may use one one-time prekey.
    [Quiet EXCEPT !.linked = {<<"a", "c">>, <<"b", "c">>, <<"c", "a">>, <<"c", "b">>},
                  !.chats = {"x", "y"}, !.keys = {"c"}, !.floods = 1],
  \* Tickets, blocked senders.
    [Quiet EXCEPT !.linked = Triangle, !.chats = {"v"}, !.tickets = TRUE,
                  !.blocks = {<<"b", "a">>}],
  \* Time synchronisation.
    [Quiet EXCEPT !.linked = {<<"b", "c">>, <<"c", "b">>}, !.times = {"b", "c"}, !.horizon = 3,
                  !.floods = 3] }

\* Two nodes that find one another through the seed, and move.
JoinNodes   == {"a", "b"}
JoinChats   == [x |-> [from |-> "a", to |-> "b", ttl |-> 2],
                y |-> [from |-> "a", to |-> "all", ttl |-> 2],
                z |-> [from |-> "a", to |-> "all", ttl |-> 2]]
JoinSockets == [n \in Nodes |-> {4}]
NoDrift     == [n \in Nodes |-> 0]
JoinScenes  ==
  \* A chat, stored or sent, that uses a prekey.
  { [Quiet EXCEPT !.reach = JoinNodes, !.chats = {"x"}, !.keys = {"b"}, !.floods = 1],
  \* Any of them crashes; "a" may be without the loops of Join.
    [Quiet EXCEPT !.reach = JoinNodes, !.mortal = {"a", "b", "seed"}, !.late = {"a"},
                  !.keys = {"b"}, !.floods = 1],
  \* A filter that is full.
    [Quiet EXCEPT !.linked = JoinNodes \X JoinNodes, !.chats = {"y", "z"}] }
=============================================================================
