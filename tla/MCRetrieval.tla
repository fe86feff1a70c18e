---- MODULE MCRetrieval ----
(* Retrieval on small sets for TLC. *)
EXTENDS Retrieval

(* Of the two topics one is the beginning of the other, as in              *)
(* _search_profile's own example.                                          *)
SomePrefix ==
    {<<"work", "work">>, <<"work", "workout">>, <<"workout", "workout">>}

(* What the model asks for: a topic's profile, or dates. *)
SomeCalls == {Item("profile", "work"), Item("temporal", "")}
====
