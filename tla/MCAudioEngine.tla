---- MODULE MCAudioEngine ----
EXTENDS AudioEngine
====
