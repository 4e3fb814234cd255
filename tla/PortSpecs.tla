------------------------------- MODULE PortSpecs -------------------------------
(***************************************************************************)
(* The port rules of the server (server/mod.rs): PortSpec, its from_str,    *)
(* PortSpec::allows and AllowedPorts::allows.  A rule list is modelled by   *)
(* the set of its rules: `any` does not look at their order.                *)
(***************************************************************************)
EXTENDS Integers, Sequences

\* A TCP port: u16.
MaxPort == 65535
Port == 0 .. MaxPort

\* PortSpec::Single(port).
Single(port) == [kind |-> "single", port |-> port]

\* PortSpec::Range(start, end).
PortRange(start, end) == [kind |-> "range", start |-> start, end |-> end]

PortSpec == {Single(p) : p \in Port}
            \cup [kind : {"range"}, start : Port, end : Port]

\* PortSpec::allows.
SpecAllows(spec, port) ==
    \/ spec.kind = "single" /\ port = spec.port
    \/ spec.kind = "range" /\ port >= spec.start /\ port <= spec.end

\* AllowedPorts::allows for [PortSpec].
Allows(specs, port) == \E spec \in specs : SpecAllows(spec, port)

(* A rule is written as text.  A text is modelled by its fields, the parts
   between its dashes without the blanks around them; a field by the number that
   its digits say, with or without a plus sign before them, or by NotANumber if
   there is none or another character in it.
   A Result is a set: {} is Err, {x} is Ok(x). *)

NotANumber == -1

\* parse::<u16>.
ParseU16(field) == {field} \cap Port

NormalisingFromStr(text) ==
    IF Len(text) = 1 THEN {Single(p) : p \in ParseU16(text[1])}
    ELSE {IF p <= q THEN PortRange(p, q) ELSE PortRange(q, p) :
             p \in ParseU16(text[1]), q \in IF Len(text) = 2 THEN ParseU16(text[2]) ELSE {}}

\* PortSpec::from_str.  split_once leaves further dashes in the second half, which
\* then is no number.
FromStr(text) ==
    IF Len(text) = 1 THEN {Single(p) : p \in ParseU16(text[1])}
    ELSE LET end == IF Len(text) = 2 THEN ParseU16(text[2]) ELSE {}
         IN  {PortRange(q[1], q[2]) :
                q \in {r \in ParseU16(text[1]) \X end : r[1] <= r[2]}}

================================================================================
