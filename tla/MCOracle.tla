------------------------------ MODULE MCOracle ------------------------------
EXTENDS Oracle

\* One publisher, started over and over, and an agent's host with a nonce
\* account of its own, on a temperature feed.
CONSTANTS r1, scheduled, agents, temperature, humidity

BothKinds == {temperature, humidity}
=============================================================================
