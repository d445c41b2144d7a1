--------------------------- MODULE MCUnderstanding ---------------------------
EXTENDS Understanding, TLC

CONSTANTS works, likes, moved, asks, load

\* He works on something, likes something, and says he does the first no more.
WhatIsSaid ==
  [s \in Statements |->
     CASE s = works -> "fact" [] s = likes -> "preference" [] s = moved -> "contrast"
       [] s = load -> "telemetry"
       [] OTHER -> "question"]

InCommon == [pair \in Statements \X Statements |->
  CASE {pair[1], pair[2]} = {works, moved} -> 3 [] {pair[1], pair[2]} = {likes, moved} -> 2
    [] OTHER -> 0]
=============================================================================
