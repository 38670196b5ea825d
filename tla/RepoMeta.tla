------------------------------ MODULE RepoMeta ------------------------------
(***************************************************************************)
(* The repos a query asks about (afind/repo.go): those it names or, if it  *)
(* names none, those whose metadata passes the query's.  A repo's metadata *)
(* is a function from some fields to values.  A query's metadata has for a *)
(* field a string, of which this module keeps                              *)
(*   text      what it is compared with as an exact string,                *)
(*   empty     is it ""?                                                   *)
(*   not       does it begin with '!'?                                     *)
(*   compiles  is the rest, or the whole, a regular expression?            *)
(*   matches   the values that expression matches.                         *)
(***************************************************************************)

\* Meta.Matches: a field only one of them has says nothing.
Matches(meta, filter) ==
  \A f \in DOMAIN meta \cap DOMAIN filter : meta[f] = filter[f].text

\* MatchesRegexp passes over fields without a valid expression.
Filters(filter, f) ==
  f \in DOMAIN filter /\ ~filter[f].empty /\ filter[f].compiles

\* Meta.MatchesRegexp.  A '!' by itself has the empty expression, which
\* matches any value.
MatchesRegexp(meta, filter) ==
  \A f \in DOMAIN meta :
    Filters(filter, f) => (filter[f].not <=> meta[f] \notin filter[f].matches)

\* genGetReqpos: the keys named, or the metadata.
AsksFor(query, key, meta) ==
  \/ query.keys # {} /\ key \in query.keys
  \/ query.keys = {} /\ IF query.regexp THEN MatchesRegexp(meta, query.meta)
                                        ELSE Matches(meta, query.meta)
=============================================================================
