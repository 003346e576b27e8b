------------------------------ MODULE MCQueries ------------------------------
(* A remote participant with a writer and a reader of one topic name, of two *)
(* types, and a writer of another topic.                                     *)
EXTENDS Queries, TLC

CONSTANTS spy, p, w, r, v, typed, other, third, square, circle

MCOwner == w :> p @@ r :> p @@ v :> p
MCNameOf == typed :> square @@ other :> square @@ third :> circle
MCTopicOf == w :> typed @@ r :> other @@ v :> third
MCFilters == {{typed, other}, {typed, other, third}}
=============================================================================
