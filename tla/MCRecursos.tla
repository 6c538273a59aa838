----------------------------- MODULE MCRecursos -----------------------------
\* Recursos with one instance of each of two resources.
EXTENDS Recursos

MCInstancias == <<1, 1>>
=============================================================================
