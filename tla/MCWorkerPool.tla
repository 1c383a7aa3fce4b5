---- MODULE MCWorkerPool ----
EXTENDS WorkerPool
====
