----------------------------- MODULE MCCatalog -----------------------------
(***************************************************************************)
(* A small repository for TLC: two charts, one the prefix of the other,    *)
(* and app versions with the characters that plan IDs confuse.             *)
(***************************************************************************)
EXTENDS Catalog

MCToLower == [k \in {"A"} |-> "a"]

MCCharts == {<<"a">>}
MCTwoCharts == {<<"a">>, <<"a", "-", "a">>}

Version(app, rank, tags) == [app |-> app, rank |-> rank, tags |-> tags]

\* Two versions of one app; apps that differ in punctuation, in case or by a
\* prefix that is the chart's name; versions without an app version and without
\* a valid version.
MCEntries ==
    {Version(<<"1">>, 1, {"sql"}), Version(<<"1">>, 2, {"sql", "db"}),
     Version(<<"1", ".", "1">>, 2, {"db"}), Version(<<"1", "-", "1">>, 1, {"db"}),
     Version(<<"a", ".", "1">>, 1, {"sql"}), Version(<<"A">>, 1, {"db"}), Version(<<"a">>, 1, {"db"}),
     Version(<<>>, 2, {"db"}), Version(<<"1">>, 0, {"sql"}), Version(<<"1", ".", "1">>, 0, {"db"})}

\* Bound: of the second chart one version will do.
OneVersionElsewhere ==
    index # None => \A c \in Charts \ MCCharts : Len(index[c]) <= 1
=============================================================================
