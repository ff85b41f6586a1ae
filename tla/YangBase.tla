------------------------------ MODULE YangBase ------------------------------
(***************************************************************************)
(* What the YANG modules share: results, names and lookups.                *)
(***************************************************************************)
EXTENDS Integers, Sequences, SequencesExt, FiniteSets

CONSTANT None

Ok(x) == <<"Ok", x>>
Err == <<"Err">> \* errors carry no text

\* The ? operator: go on with the value of a result.
Then(r, F(_)) == IF r = Err THEN Err ELSE F(r[2])

\* Result::unwrap_or
OrElse(r, default) == IF r = Err THEN default ELSE r[2]

\* Option::ok_or
OkOr(x) == IF x = None THEN Err ELSE Ok(x)

\* Go through items, passing a value from one to the next.
Each(start, items, F(_, _)) ==
    FoldLeft(LAMBDA acc, i : Then(acc, LAMBDA x : F(x, i)), Ok(start), items)

\* Apply F to every item, failing if one of them fails.
Collect(items, F(_)) ==
    Each(<<>>, items, LAMBDA done, i : Then(F(i), LAMBDA v : Ok(Append(done, v))))

\* The first item that P holds of.
Find(items, P(_)) ==
    LET hits == {i \in DOMAIN items : P(items[i])}
    IN  IF hits = {} THEN None ELSE items[CHOOSE i \in hits : \A j \in hits : i <= j]

\* "module:local", or "local" when module is "".
Name(module, local) == <<"name", module, local>>
=============================================================================
