---------------------------- MODULE MCQuestions ----------------------------
(* Values for the constants of Questions.                                   *)
EXTENDS Questions, TLC

CONSTANTS q1, q2, s1, s2

MCAlphabetical == <<"bgp", "routes">>
MCVarNames == {"nodes", "network"}

Text(t) == Value("string", t)
Address == Text(<<"1", ".", "0", ".", "0", ".", "9">>)
Default == Text(<<"0", ".", "0", ".", "0", ".", "0">>)
Partial == Text(<<"1", ".", "0", ".", "0">>)
ListOf(items) == [Value("list", <<"[", "]">>) EXCEPT !.items = items]

Declaration(type, optional) ==
    [type |-> type, optional |-> optional, minLength |-> Absent,
     minElements |-> Absent, values |-> {}, allowedValues |-> {}]

(* An address that must be given, and a list of at least one name of two    *)
(* letters or more, of which one is allowed.                                *)
MandatoryIP == Declaration("ip", FALSE)
OptionalNames ==
    [Declaration("name", TRUE) EXCEPT !.minElements = 1, !.minLength = 2,
                                      !.allowedValues = {<<"a", "b">>, <<"c">>}]

Document(name, defect, declared, defaults, differential) ==
    [name |-> name, defect |-> defect, declared |-> declared,
     defaults |-> defaults, differential |-> differential]
Vars(n, w) == [v \in MCVarNames |-> IF v = "nodes" THEN n ELSE w]

Routes == Document("routes", "none", Vars(OptionalNames, MandatoryIP),
                   Vars(Absent, Address), FALSE)
OtherRoutes == Document("routes", "none", Vars(Undeclared, MandatoryIP),
                        Vars(Undeclared, Default), TRUE)
BadRoutes == Document("routes", "badVariable", Vars(Undeclared, MandatoryIP),
                      Vars(Undeclared, Address), FALSE)
BGP == Document("bgp", "none", Vars(Undeclared, MandatoryIP),
                Vars(Undeclared, Absent), FALSE)
Bare == Document("bgp", "noDescription", Vars(Undeclared, Undeclared),
                 Vars(Undeclared, Undeclared), FALSE)

MCDocuments == {Routes, OtherRoutes, BadRoutes, BGP}
MCShelf == [remote |-> <<BadRoutes, Routes>>,
            disk |-> <<Routes, BGP, OtherRoutes>>]
CatalogueDocuments == MCDocuments \cup {Bare}
CatalogueShelf == [remote |-> <<Routes, BadRoutes, Bare, OtherRoutes>>,
                   disk |-> <<BGP, BadRoutes, OtherRoutes, Routes>>]

MCInputs == {<<"network", Address>>, <<"network", Partial>>,
             <<"nodes", ListOf(<<Text(<<"a", "b">>)>>)>>,
             <<"nodes", ListOf(<<Text(<<"c">>)>>)>>}

Option(snapshot, reference, background) ==
    [snapshot |-> snapshot, reference |-> reference, oneTable |-> None,
     background |-> background]
MCOptions == {Option(None, None, FALSE), Option(s2, s1, FALSE),
              [Option("", None, FALSE) EXCEPT !.oneTable = TRUE],
              Option(None, None, TRUE)}

Symmetric == Permutations({q1, q2})
=============================================================================
