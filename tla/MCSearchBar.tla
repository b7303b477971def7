----------------------------- MODULE MCSearchBar -----------------------------
(***************************************************************************)
(* Two fields, one of which needs backticks, two data sources and two      *)
(* groups: one kind of indicator matches both, one the second group only.  *)
(* Today is a day that the month before, or six months before, lacks, the  *)
(* first of a year, or a leap day.  The time range and the input do not    *)
(* depend on each other: the range is changed while the input is empty.    *)
(***************************************************************************)
EXTENDS SearchBar

CONSTANTS a, dash

MCFIELDS == <<<<a>>, <<a, dash>>>>
MCSourceFields == [global |-> {<<a>>, <<a, dash>>}, one |-> {<<a, dash>>}]
MCGroup == <<"ip", "domain">>
MCMatches == {<<"ip", <<a>>>>, <<"domain", <<a>>>>, <<"domain", <<dash>>>>}
MCFilter == {<<a, Space, a>>}
MCToday == {<<2023, 2, 31>>, <<2024, 7, 31>>, <<2024, 0, 1>>, <<2024, 1, 29>>}
RangeAlone == input = <<>> \/ range[1] = "lastDay"
=============================================================================
