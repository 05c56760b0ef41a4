------------------------------ MODULE MCConfig ------------------------------
EXTENDS LuaIde

Given(global, profiles, user, extra, more, override) ==
  [n \in Names |-> CASE n = "global" -> global [] n = "profiles" -> profiles [] n = "user" -> user
     [] n = "extra" -> extra [] n = "more" -> more [] n = "override" -> override [] OTHER -> None]

\* A user's file that merges two others in, and one that merges one which merges another.
MCFileSets == {
  Given("l = (1) o = {x = g y = g z = 1}", "p = {o = {x = p}} l = (2)",
        "p = {o = {y = u} l = (3) merge = (extra more)} merge = (more)",
        "p = {o = {y = e} l = (4)}", "p = {o = {x = m}} l = (6)", None),
  [Given(None, None, None, None, None, None) EXCEPT !["command line"] = "p = {"],
  [Given(None, None, None, "p = {o = {x = \"1\"} l = (5) merge = more}", "p = {o = {x = m}}", "o = {}")
     EXCEPT !["command line"] = "p = {o = {x = c} merge = extra}"] }
MCProfiles == {None, "p"}
MCPaths == {"o/a\\/b", "l", "l/0"}
MCValues == {Str("\\\"1"), List(<<Int32(7)>>)}
MCLeaves == {"o/x", "o/y", "o/z", "l"}
MCSchemaText == "layout = {o = (optional (array leaf)) l = (optional (tuple number))} types = {leaf = (variant number string) number = int}"
MCTexts == {"", "a 1"}
MCScriptNames == {"s"}
=============================================================================
