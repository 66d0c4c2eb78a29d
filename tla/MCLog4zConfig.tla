---------------------------- MODULE MCLog4zConfig ----------------------------
EXTENDS Log4zConfig
Section(key) == [kind |-> "section", key |-> key]
Line(field, value) == [kind |-> "set", field |-> field, value |-> value]
Other == [kind |-> "other"]

\* Empty; both loggers, with values that are not understood; the main logger set
\* in two sections; a logger that is disabled and a setting before any section.
Empty == <<>>
Both  == <<Section("Main"), Line("level", "warn"), Other, Section("net"),
           Line("limitsize", 0), Line("path", ""), Line("level", "loud")>>
Twice == <<Section("Main"), Line("outfile", "false"), Section("net"),
           Line("level", "trace"), Section("Main"), Line("outfile", "yes")>>
Off   == <<Line("level", "warn"), Section("Main"), Line("limitsize", 5),
           Section("net"), Line("enable", "0"), Line("path", "b/"), Line("colour", "red")>>

Files == {Empty, Both, Twice, Off}
\* Two of them have the same sum, and one the sum 0.
Sums == [c \in Files |-> CASE c = Empty -> 0 [] c = Both -> 7 [] c = Twice -> 7 [] c = Off -> 9]
KeyOrder == <<"Main", "net", "test">>
Words == [l \in {"trace", "warn"} |-> IF l = "trace" THEN 0 ELSE 3]
Defaults == [f \in {"name", "path", "enable", "outfile", "level", "limitsize"} |->
  CASE f = "name" -> "" [] f = "path" -> "log/" [] f = "enable" -> FALSE
    [] f = "outfile" -> TRUE [] f = "level" -> 1 [] f = "limitsize" -> 100]
=============================================================================
