---- MODULE MCVirtArray ----
EXTENDS VirtArray
====
