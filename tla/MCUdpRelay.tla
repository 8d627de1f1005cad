----------------------------- MODULE MCUdpRelay -----------------------------
EXTENDS UdpRelay

\* Two destinations that differ in both fields of the header.
Destinations == {[host |-> "h1", port |-> 1], [host |-> "h2", port |-> 2]}
=============================================================================
