---------------------------- MODULE MCComponents ----------------------------
EXTENDS Components, TLC

CONSTANTS r1, r2

RequestSymmetry == Permutations(Requests)

\* Each pair of three symbols is redundant for one reason.
MCSignal == [symbol : {"s1", "s2"}, direction : {"long"}] \cup [symbol : {"s3"}, direction : {"short"}]

MCCorrelated == {{"s1", "s2"}}

MCSector == [s \in {"s1", "s3"} |-> "bank"]

MCAlike == {{"a", "b"}}

MCDeltas == {-1, 2}

\* One source with a session, one with the cache service and volumes.
MCRequired == [events |-> {}, sectors |-> {"f1"}]

MCMinimum == [events |-> 1, sectors |-> 1]

MCTtl == [events |-> 2, sectors |-> 2]

\* Prices around the stop, the activation of the trail and the target.
MCPrices == {-5, 3, 6, 10}

Candle(low, high, up, volume) ==
    [low |-> low, high |-> high, volume |-> volume,
     open |-> IF up THEN low ELSE high, close |-> IF up THEN high ELSE low]

MCCandles ==
    {Candle(100, 101, TRUE, 0), Candle(101, 102, FALSE, 2), Candle(99, 100, FALSE, 1),
     Candle(98, 99, TRUE, 0), Candle(98, 102, TRUE, 1)}

Model(probability, accuracy) == [probability |-> probability, accuracy |-> accuracy]

Analog(return, drawdown, runup) == [return |-> return, drawdown |-> drawdown, runup |-> runup]

\* None of Weighing.
Missing == -1000

\* Readings on both sides of every threshold, and with every source missing.
MCReadings ==
    {[models |-> models, calibration |-> calibration, transition |-> market.transition, breadth |-> 30,
      flow |-> market.flow, dataQuality |-> dataQuality, featureQuality |-> featureQuality,
      correlation |-> dataQuality, liquidity |-> liquidity,
      event |-> [sensitivity |-> sensitivity, urgency |-> Missing, volatility |-> Missing,
                 freeze |-> sensitivity = 20],
      volatility |-> 50, analogs |-> past.analogs, similarity |-> past.similarity,
      spread |-> spread, risk |-> spread, leadership |-> liquidity, trigger |-> 40,
      lifetime |-> 20, structure |-> 70, relative |-> 40, options |-> 30] :
        models \in {<<>>, <<Model(20, 60)>>, <<Model(80, 45), Model(20, 60)>>,
                    <<Model(80, 60), Model(80, 45), Model(50, 60)>>, <<Model(50, 45), Model(52, 40)>>},
        calibration \in {Missing, 70},
        market \in {[transition |-> 0, flow |-> [score |-> 80, confidence |-> 60]],
                    [transition |-> 90, flow |-> [score |-> 20, confidence |-> 0]]},
        dataQuality \in {Missing, 0},
        featureQuality \in {Missing, 40, 90},
        liquidity \in {Missing, 10, 60},
        sensitivity \in {Missing, 20, 90},
        past \in {[analogs |-> {}, similarity |-> 0],
                  [analogs |-> {Analog(3, -1, 4), Analog(-2, -5, 1)}, similarity |-> 40],
                  [analogs |-> {Analog(3, -1, 4), Analog(0, -1, 1)}, similarity |-> 80]},
        spread \in {Missing, 20}}
=============================================================================
